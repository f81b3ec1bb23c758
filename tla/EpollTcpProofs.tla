--------------------------- MODULE EpollTcpProofs ---------------------------
(* Theorems about EpollTcp, for any number of slots and io threads and any sizes of caches and *)
(* queues: its types; what holds of every session; what holds of received bytes, and the       *)
(* theorems that follow, the checked invariants and the order of the callbacks.                *)
EXTENDS EpollTcp, EventLemmas, FiniteSetTheorems, TLAPS

(* Part 1: types. *)

EvtQueues == [Procs -> Seq(EventType)]
ReqQueues == [Procs -> Seq(RequestType)]
CrushValues == {"none", "evt_full", "req_full", "recv_cache_short",
                "timer_close_state", "wrong_proc"}

(* Changing one field of a record keeps its type. *)
LEMMA SockFields ==
  ASSUME NEW r \in SockType
  PROVE  /\ \A v \in SocketStates : [r EXCEPT !.state = v] \in SockType
         /\ \A v \in BOOLEAN :
              /\ [r EXCEPT !.sock_fd = v] \in SockType
              /\ [r EXCEPT !.timer_send = v] \in SockType
              /\ [r EXCEPT !.timer_close = v] \in SockType
              /\ [r EXCEPT !.need_send_active = v] \in SockType
              /\ [r EXCEPT !.need_req_close = v] \in SockType
              /\ [r EXCEPT !.need_recv_active = v] \in SockType
         /\ \A v \in Nat :
              /\ [r EXCEPT !.send_req = v] \in SockType
              /\ [r EXCEPT !.send_ack = v] \in SockType
              /\ [r EXCEPT !.data_need_send = v] \in SockType
              /\ [r EXCEPT !.data_has_send = v] \in SockType
              /\ [r EXCEPT !.data_delay_send_size = v] \in SockType
              /\ [r EXCEPT !.try_close_send_count = v] \in SockType
              /\ [r EXCEPT !.data_has_recv = v] \in SockType
              /\ [r EXCEPT !.recv_used = v] \in SockType
BY DEF SockType

(* The counters of a slot are naturals, and its state is one of the five. *)
LEMMA SockCounters ==
  ASSUME NEW r \in SockType
  PROVE  /\ {r.send_req, r.send_ack, r.data_need_send, r.data_has_send, r.data_delay_send_size,
             r.try_close_send_count, r.data_has_recv, r.recv_used} \subseteq Nat
         /\ r.state \in SocketStates
BY DEF SockType

(* The same for the kernel's record of a descriptor. *)
LEMMA KernFields ==
  ASSUME NEW r \in KernType
  PROVE  /\ \A v \in {"none", "syn", "up", "reset"} : [r EXCEPT !.conn = v] \in KernType
         /\ \A v \in BOOLEAN :
              /\ [r EXCEPT !.interest = v] \in KernType
              /\ [r EXCEPT !.ready = v] \in KernType
              /\ [r EXCEPT !.fin = v] \in KernType
              /\ [r EXCEPT !.nospace = v] \in KernType
         /\ \A v \in Nat :
              /\ [r EXCEPT !.rx = v] \in KernType
              /\ [r EXCEPT !.left = v] \in KernType
              /\ [r EXCEPT !.tx = v] \in KernType
BY DEF KernType

(* The counters of a descriptor are naturals, its flags Booleans. *)
LEMMA KernCounters ==
  ASSUME NEW r \in KernType
  PROVE  /\ {r.rx, r.left, r.tx} \subseteq Nat
         /\ {r.interest, r.ready, r.fin, r.nospace} \subseteq BOOLEAN
BY DEF KernType

(* A closed descriptor has the descriptors' type. *)
LEMMA ClosedTyped == NoDescriptor \in KernType
BY DEF NoDescriptor, KernType

(* _epoll_tcp_socket_reset gives every field a value of its type. *)
LEMMA ResetTyped == ASSUME NEW p \in Procs PROVE ResetSocket(p) \in SockType
BY DEF ResetSocket, SockType, SocketStates

(* An event has its type whatever slot it names. *)
LEMMA EventTyped ==
  ASSUME NEW t \in EventTypes, NEW s \in Sockets \cup {NoSock}, NEW n \in Nat
  PROVE  Event(t, s, n) \in EventType
BY DEF Event, EventType

(* A request too. *)
LEMMA RequestTyped ==
  ASSUME NEW t \in RequestTypes, NEW s \in Sockets \cup {NoSock}, NEW e \in {"none", "ok", "module"}
  PROVE  Request(t, s, e) \in RequestType
BY DEF Request, RequestType

(* Pushing keeps a queue's type, and ends the process with one of the known codes. *)
LEMMA PushEvtTyped ==
  ASSUME TypeOK, NEW p, NEW e \in EventType, PushEvt(p, e)
  PROVE  list_net_evt' \in EvtQueues /\ crush' \in CrushValues
<1>1. list_net_evt \in [Procs -> Seq(EventType)] /\ crush \in CrushValues
  BY DEF TypeOK, CrushValues
<1>2. CASE Len(list_net_evt[p]) < EvtCap
  <2>1. list_net_evt' = [list_net_evt EXCEPT ![p] = Append(@, e)] /\ crush' = crush
    BY <1>2 DEF PushEvt
  <2>2. p \in Procs => Append(list_net_evt[p], e) \in Seq(EventType)
    BY <1>1
  <2> QED  BY <1>1, <2>1, <2>2 DEF EvtQueues
<1>3. CASE ~(Len(list_net_evt[p]) < EvtCap)
  BY <1>1, <1>3 DEF PushEvt, EvtQueues, CrushValues
<1> QED  BY <1>2, <1>3

(* The same for the requests. *)
LEMMA PushReqTyped ==
  ASSUME TypeOK, NEW p, NEW r \in RequestType, PushReq(p, r)
  PROVE  list_net_req' \in ReqQueues /\ crush' \in CrushValues
<1>1. list_net_req \in [Procs -> Seq(RequestType)] /\ crush \in CrushValues
  BY DEF TypeOK, CrushValues
<1>2. CASE ReqUsed(p) < ReqCap
  <2>1. list_net_req' = [list_net_req EXCEPT ![p] = Append(@, r)] /\ crush' = crush
    BY <1>2 DEF PushReq
  <2>2. p \in Procs => Append(list_net_req[p], r) \in Seq(RequestType)
    BY <1>1
  <2> QED  BY <1>1, <2>1, <2>2 DEF ReqQueues
<1>3. CASE ~(ReqUsed(p) < ReqCap)
  BY <1>1, <1>3 DEF PushReq, ReqQueues, CrushValues
<1> QED  BY <1>2, <1>3

(* Taking the head of a queue leaves a queue, and the head is a message. *)
LEMMA TakeReqTyped ==
  ASSUME TypeOK, NEW p \in Procs, NEW type, TakeReq(p, type)
  PROVE  /\ list_net_req' \in ReqQueues
         /\ Head(list_net_req[p]) \in RequestType
         /\ Head(list_net_req[p]).type = type
BY DEF TypeOK, TakeReq, ReqQueues

(* The same for the events. *)
LEMMA TakeEvtTyped ==
  ASSUME TypeOK, NEW p \in Procs, NEW types, TakeEvt(p, types)
  PROVE  /\ list_net_evt' \in EvtQueues
         /\ Head(list_net_evt[p]) \in EventType
         /\ Head(list_net_evt[p]).type \in types
BY DEF TypeOK, TakeEvt, EvtQueues

(* The positions an io thread moves to are positions. *)
LEMMA LabelsTyped ==
  {"idle", "dispatch", "send", "send_loop", "send_done",
   "recv", "recv_loop", "recv_flush", "recv_end"} \subseteq IoLabels
BY DEF IoLabels

(* Moving an io thread keeps the type of io. *)
LEMMA EnterTyped ==
  ASSUME TypeOK, NEW p, NEW label \in IoLabels, NEW from \in {"none", "req", "evt"},
         NEW s \in Sockets \cup {NoSock}, NEW todo \in SUBSET {"OUT", "IN", "ERR"},
         Enter(p, label, from, s, todo)
  PROVE  io' \in [Procs -> IoType]
<1>1. [IoIdle EXCEPT !.at = label, !.from = from, !.sock = s, !.todo = todo] \in IoType
  BY DEF IoIdle, IoType
<1> QED  BY <1>1 DEF TypeOK, Enter

(* Moving on inside a handler. *)
LEMMA GoToTyped ==
  ASSUME TypeOK, NEW p \in Procs, NEW label \in IoLabels, GoTo(p, label)
  PROVE  io' \in [Procs -> IoType]
<1>1. io[p] \in IoType /\ io \in [Procs -> IoType]
  BY DEF TypeOK
<1>2. [io[p] EXCEPT !.at = label] \in IoType
  BY <1>1 DEF IoType
<1> QED  BY <1>1, <1>2 DEF GoTo

(* The io thread between two handlers. *)
LEMMA IdleTyped == IoIdle \in IoType
BY DEF IoIdle, IoType, IoLabels

(* What the io thread's position refers to. *)
LEMMA IoAtTyped ==
  ASSUME TypeOK, NEW p \in Procs
  PROVE  /\ io[p].from \in {"none", "req", "evt"}
         /\ io[p].sock \in Sockets \cup {NoSock}
         /\ io[p].todo \in SUBSET {"OUT", "IN", "ERR"}
         /\ io[p].got \in Nat
<1>1. io[p] \in IoType
  BY DEF TypeOK
<1> QED  BY <1>1 DEF IoType

(* Returning from a handler. *)
LEMMA FinishTyped ==
  ASSUME TypeOK, NEW p \in Procs, Finish(p)
  PROVE  io' \in [Procs -> IoType]
<1>2. CASE io[p].todo = {}
  BY <1>2, IdleTyped DEF Finish, TypeOK
<1>3. CASE io[p].todo # {}
  <2>1. Enter(p, "dispatch", io[p].from, io[p].sock, io[p].todo)
    BY <1>3 DEF Finish
  <2>2. /\ io[p].from \in {"none", "req", "evt"}
        /\ io[p].sock \in Sockets \cup {NoSock}
        /\ io[p].todo \in SUBSET {"OUT", "IN", "ERR"}
    BY IoAtTyped
  <2>3. "dispatch" \in IoLabels
    BY LabelsTyped
  <2> QED  BY <2>1, <2>2, <2>3, EnterTyped
<1> QED  BY <1>2, <1>3

(* The states the code stores are states. *)
LEMMA StatesTyped ==
  {"NONE", "CONNECT", "ESTABLISH", "TERMINATE", "DELETE"} \subseteq SocketStates
BY DEF SocketStates

(* Changing one slot keeps the types of sock and kern, also when the name is no slot's. *)
LEMMA SockUpdateTyped ==
  ASSUME TypeOK, NEW s, NEW r, s \in Sockets => r \in SockType, sock' = [sock EXCEPT ![s] = r]
  PROVE  sock' \in [Sockets -> SockType]
BY DEF TypeOK

(* The same for the descriptors. *)
LEMMA KernUpdateTyped ==
  ASSUME TypeOK, NEW s, NEW k, s \in Sockets => k \in KernType, kern' = [kern EXCEPT ![s] = k]
  PROVE  kern' \in [Sockets -> KernType]
BY DEF TypeOK

(* Every step keeps the types.  The requests of the io thread first. *)
LEMMA IoReqTyped ==
  ASSUME TypeOK, NEW p \in Procs, IoReq(p)
  PROVE  TypeOK'
<1> DEFINE s == Head(list_net_req[p]).sock
<1>a. sock \in [Sockets -> SockType] /\ kern \in [Sockets -> KernType]
  BY DEF TypeOK
<1>b. s \in Sockets => /\ sock[s] \in SockType /\ sock[s].send_ack + 1 \in Nat
                       /\ kern[s] \in KernType
  BY <1>a, SockCounters
<1>c. NoDescriptor \in KernType
  BY ClosedTyped
<1>d. ASSUME NEW type, TakeReq(p, type)
      PROVE  list_net_req' \in ReqQueues /\ s \in Sockets \cup {NoSock}
  BY <1>d, TakeReqTyped DEF RequestType
<1>1. CASE IoReqSend(p)
  <2>1. list_net_req' \in ReqQueues /\ s \in Sockets \cup {NoSock}
    BY ONLY <1>1, <1>d, SMTT(60) DEF IoReqSend
  <2>2. sock' \in [Sockets -> SockType]
    <3>1. sock' = [sock EXCEPT ![s] = [sock[s] EXCEPT !.send_ack = @ + 1]]
      BY <1>1 DEF IoReqSend
    <3> QED  BY <1>b, <3>1, SockFields, SockUpdateTyped
  <2>3. io' \in [Procs -> IoType]
    <3>1. Enter(p, "send", "req", s, {})
      BY <1>1 DEF IoReqSend
    <3> QED  BY <2>1, <3>1, EnterTyped, LabelsTyped
  <2> QED  BY <1>1, <2>1, <2>2, <2>3 DEF IoReqSend, TypeOK, ReqQueues
<1>2. CASE IoReqRecvActivate(p)
  <2>1. list_net_req' \in ReqQueues /\ s \in Sockets \cup {NoSock}
    BY ONLY <1>2, <1>d DEF IoReqRecvActivate
  <2>2. sock' \in [Sockets -> SockType]
    <3>1. sock' = [sock EXCEPT ![s] = [sock[s] EXCEPT !.need_recv_active = FALSE]]
      BY <1>2 DEF IoReqRecvActivate
    <3> QED  BY <1>b, <3>1, SockFields, SockUpdateTyped
  <2>3. io' \in [Procs -> IoType]
    <3>1. Enter(p, "recv", "req", s, {})
      BY <1>2 DEF IoReqRecvActivate
    <3>2. "recv" \in IoLabels
      BY LabelsTyped
    <3> HIDE DEF s
    <3> QED  BY <2>1, <3>1, <3>2, EnterTyped, SMTT(60)
  <2> QED  BY <1>2, <2>1, <2>2, <2>3 DEF IoReqRecvActivate, TypeOK, ReqQueues
<1>3. CASE IoReqAccept(p)
  <2>1. list_net_req' \in ReqQueues /\ s \in Sockets \cup {NoSock}
    BY <1>3, <1>d DEF IoReqAccept
  <2>2. CASE sock[s].proc # p
    <3>1. crush' = "wrong_proc" /\ UNCHANGED <<sock, list_net_evt, kern>>
      BY ONLY <1>3, <2>2, SMTT(60) DEF IoReqAccept
    <3> QED  BY <1>3, <2>1, <3>1 DEF IoReqAccept, TypeOK, ReqQueues
  <2>3. CASE /\ sock' = [sock EXCEPT ![s].state = "ESTABLISH"]
             /\ kern' = [kern EXCEPT ![s].interest = TRUE, ![s].ready = TRUE]
             /\ PushEvt(p, Event("ESTABLISH", s, 0))
    <3>1. Event("ESTABLISH", s, 0) \in EventType
      BY <2>1, EventTyped DEF EventTypes
    <3>2. sock' = [sock EXCEPT ![s] = [sock[s] EXCEPT !.state = "ESTABLISH"]]
      BY ONLY <2>3, SMTT(60)
    <3>3. kern' = [kern EXCEPT ![s] = [[kern[s] EXCEPT !.interest = TRUE] EXCEPT !.ready = TRUE]]
      BY <2>3
    <3>4. sock' \in [Sockets -> SockType]
      BY <1>b, <3>2, SockFields, SockUpdateTyped, StatesTyped
    <3>5. kern' \in [Sockets -> KernType]
      BY <1>b, <3>3, KernFields, KernUpdateTyped
    <3> QED  BY <1>3, <2>1, <2>3, <3>1, <3>4, <3>5, PushEvtTyped
             DEF IoReqAccept, TypeOK, ReqQueues, EvtQueues, CrushValues
  <2>4. CASE /\ sock' = [sock EXCEPT ![s].state = "DELETE", ![s].sock_fd = FALSE]
             /\ kern' = [kern EXCEPT ![s] = NoDescriptor]
             /\ PushEvt(p, Event("ACCEPT_FAIL", s, 0))
    <3>1. Event("ACCEPT_FAIL", s, 0) \in EventType
      BY <2>1, EventTyped DEF EventTypes
    <3>2. sock' = [sock EXCEPT ![s] = [[sock[s] EXCEPT !.state = "DELETE"] EXCEPT !.sock_fd = FALSE]]
      BY <2>4
    <3>4. sock' \in [Sockets -> SockType]
      BY <1>b, <3>2, SockFields, SockUpdateTyped, StatesTyped
    <3>5. kern' \in [Sockets -> KernType]
      BY <1>c, <2>4, KernUpdateTyped
    <3> QED  BY <1>3, <2>1, <2>4, <3>1, <3>4, <3>5, PushEvtTyped, SMTT(60)
             DEF IoReqAccept, TypeOK, ReqQueues, EvtQueues, CrushValues
  <2> QED  BY ONLY <1>3, <2>2, <2>3, <2>4, SMTT(60) DEF IoReqAccept
<1>4. CASE IoReqAcceptFail(p)
  <2>1. list_net_req' \in ReqQueues
    BY <1>4, <1>d DEF IoReqAcceptFail
  <2> QED  BY <1>4, <2>1 DEF IoReqAcceptFail, TypeOK, ReqQueues
<1>5. CASE IoReqConnect(p)
  <2>1. list_net_req' \in ReqQueues /\ s \in Sockets \cup {NoSock}
    BY <1>5, <1>d DEF IoReqConnect
  <2>2. CASE sock[s].proc # p
    <3>1. crush' = "wrong_proc" /\ UNCHANGED <<sock, list_net_evt, kern>>
      BY <1>5, <2>2 DEF IoReqConnect
    <3> QED  BY <1>5, <2>1, <3>1 DEF IoReqConnect, TypeOK, ReqQueues
  <2>3. CASE /\ sock' = [sock EXCEPT ![s].sock_fd = TRUE]
             /\ kern' = [kern EXCEPT ![s] = [NoDescriptor EXCEPT
                           !.conn = "syn", !.interest = TRUE, !.left = MaxPeerBytes]]
             /\ UNCHANGED <<list_net_evt, crush>>
    <3>1. sock' = [sock EXCEPT ![s] = [sock[s] EXCEPT !.sock_fd = TRUE]]
      BY ONLY <2>3
    <3>2. sock' \in [Sockets -> SockType]
      BY <1>b, <3>1, SockFields, SockUpdateTyped
    <3>3. [NoDescriptor EXCEPT !.conn = "syn", !.interest = TRUE, !.left = MaxPeerBytes] \in KernType
      BY ConstantsAssumption DEF NoDescriptor, KernType
    <3>4. kern' \in [Sockets -> KernType]
      BY <2>3, <3>3, KernUpdateTyped
    <3> QED  BY <1>5, <2>1, <2>3, <3>2, <3>4 DEF IoReqConnect, TypeOK, ReqQueues
  <2>4. CASE /\ sock' = [sock EXCEPT ![s].state = "DELETE"]
             /\ PushEvt(p, Event("CONNECT_FAIL", s, 0))
             /\ UNCHANGED kern
    <3>1. Event("CONNECT_FAIL", s, 0) \in EventType
      BY <2>1, EventTyped DEF EventTypes
    <3>2. sock' = [sock EXCEPT ![s] = [sock[s] EXCEPT !.state = "DELETE"]]
      BY <2>4
    <3>3. sock' \in [Sockets -> SockType]
      BY <1>b, <3>2, SockFields, SockUpdateTyped, StatesTyped
    <3> QED  BY <1>5, <2>1, <2>4, <3>1, <3>3, PushEvtTyped
             DEF IoReqConnect, TypeOK, ReqQueues, EvtQueues, CrushValues
  <2> QED  BY <1>5, <2>2, <2>3, <2>4 DEF IoReqConnect
<1>6. CASE IoReqTerminate(p)
  <2>1. list_net_req' \in ReqQueues /\ s \in Sockets \cup {NoSock}
    BY <1>6, <1>d DEF IoReqTerminate
  <2>2. PICK t \in {"TERMINATE", "MODULE_ERROR"} : PushEvt(p, Event(t, s, 0))
    BY <1>6 DEF IoReqTerminate
  <2>3. Event(t, s, 0) \in EventType
    BY <2>1, EventTyped DEF EventTypes
  <2> QED  BY <1>6, <2>1, <2>2, <2>3, PushEvtTyped
           DEF IoReqTerminate, TypeOK, ReqQueues, EvtQueues, CrushValues
<1>7. CASE IoReqClose(p)
  <2>1. list_net_req' \in ReqQueues
    BY ONLY <1>7, <1>d, SMTT(60) DEF IoReqClose
  <2>2. sock' = [sock EXCEPT ![s] = [[sock[s] EXCEPT !.sock_fd = FALSE]
                                     EXCEPT !.send_ack = sock[s].send_ack + 1]]
    BY <1>7 DEF IoReqClose
  <2>3. sock' \in [Sockets -> SockType]
    BY <1>b, <2>2, SockFields, SockUpdateTyped
  <2>4. kern' \in [Sockets -> KernType]
    BY <1>7, <1>c, KernUpdateTyped DEF IoReqClose
  <2> QED  BY <1>7, <2>1, <2>3, <2>4 DEF IoReqClose, TypeOK, ReqQueues
<1> QED  BY <1>1, <1>2, <1>3, <1>4, <1>5, <1>6, <1>7 DEF IoReq

(* A new connection of the listener, and an epoll event. *)
LEMMA IoArrivalTyped ==
  ASSUME TypeOK, NEW p \in Procs,
         IoListenerAccept(p) \/ \E s \in Sockets : IoEpollWait(p, s)
  PROVE  TypeOK'
<1>1. CASE IoListenerAccept(p)
  <2>1. Event("ACCEPT", NoSock, 0) \in EventType
    BY EventTyped DEF EventTypes
  <2> QED  BY <1>1, <2>1, PushEvtTyped DEF IoListenerAccept, TypeOK, EvtQueues, CrushValues
<1>2. ASSUME NEW s \in Sockets, IoEpollWait(p, s)
      PROVE  TypeOK'
  <2>1. kern' \in [Sockets -> KernType]
    <3>1. kern' = [kern EXCEPT ![s] = [kern[s] EXCEPT !.ready = FALSE]] /\ kern[s] \in KernType
      BY <1>2 DEF IoEpollWait, TypeOK
    <3> QED  BY <3>1, KernFields, KernUpdateTyped
  <2>2. ReadyMask(s) \in SUBSET {"OUT", "IN", "ERR"}
    BY DEF ReadyMask
  <2>3. io' \in [Procs -> IoType]
    <3>1. CASE ReadyMask(s) = {}
      BY <1>2, <3>1 DEF IoEpollWait, TypeOK
    <3>2. CASE ReadyMask(s) # {}
      <4>1. Enter(p, "dispatch", "evt", s, ReadyMask(s))
        BY <1>2, <3>2 DEF IoEpollWait
      <4> QED  BY <2>2, <4>1, EnterTyped, LabelsTyped
    <3> QED  BY <3>1, <3>2
  <2> QED  BY <1>2, <2>1, <2>3 DEF IoEpollWait, TypeOK
<1> QED  BY <1>1, <1>2

(* Closing keeps the types, from either thread. *)
LEMMA IoCloseTyped ==
  ASSUME TypeOK, NEW p, NEW s \in Sockets \cup {NoSock}, NEW error, IoClose(p, s, error)
  PROVE  sock' \in [Sockets -> SockType] /\ list_net_evt' \in EvtQueues /\ crush' \in CrushValues
<1>1. CASE sock[s].state = "ESTABLISH"
  <2>1. PICK st \in {"DELETE", "TERMINATE"}, t \in {"SYSTEM_ERROR", "TERMINATE"} :
          /\ sock' = [sock EXCEPT ![s] = [sock[s] EXCEPT !.state = st]]
          /\ PushEvt(p, Event(t, s, 0))
    BY <1>1 DEF IoClose
  <2>2. Event(t, s, 0) \in EventType
    BY EventTyped DEF EventTypes
  <2>3. sock \in [Sockets -> SockType]
    BY DEF TypeOK
  <2>4. sock' \in [Sockets -> SockType]
    BY <2>1, <2>3, SockFields, SockUpdateTyped, StatesTyped
  <2> QED  BY <2>1, <2>2, <2>4, PushEvtTyped
<1>2. CASE sock[s].state # "ESTABLISH"
  BY <1>2 DEF IoClose, TypeOK, EvtQueues, CrushValues
<1> QED  BY <1>1, <1>2

(* The same close by the main thread, which asks by a request. *)
LEMMA MainCloseTyped ==
  ASSUME TypeOK, NEW s \in Sockets \cup {NoSock}, NEW error \in {"ok", "module"},
         NEW f \in [Sockets -> SockType], MainClose(s, error, f)
  PROVE  sock' \in [Sockets -> SockType] /\ list_net_req' \in ReqQueues /\ crush' \in CrushValues
<1>1. CASE sock[s].state = "ESTABLISH"
  <2>1. /\ sock' = [f EXCEPT ![s] = [f[s] EXCEPT !.state = "TERMINATE"]]
        /\ PushReq(sock[s].proc, Request("TERMINATE", s, error))
    BY <1>1 DEF MainClose
  <2>2. Request("TERMINATE", s, error) \in RequestType
    BY RequestTyped DEF RequestTypes
  <2>3. s \in Sockets => [f[s] EXCEPT !.state = "TERMINATE"] \in SockType
    BY SockFields, StatesTyped
  <2> QED  BY <2>1, <2>2, <2>3, PushReqTyped
<1>2. CASE sock[s].state # "ESTABLISH"
  BY <1>2 DEF MainClose, TypeOK, ReqQueues, CrushValues
<1> QED  BY <1>1, <1>2

(* The dispatch of an epoll event. *)
LEMMA IoDispatchTyped ==
  ASSUME TypeOK, NEW p \in Procs,
         IoOnConnect(p) \/ IoOnWritable(p) \/ IoOnReadable(p) \/ IoOnError(p)
  PROVE  TypeOK'
<1> DEFINE s == io[p].sock
<1>a. sock \in [Sockets -> SockType]
  BY DEF TypeOK
<1>b. s \in Sockets \cup {NoSock} /\ io[p].todo \in SUBSET {"OUT", "IN", "ERR"}
  BY IoAtTyped
<1>c. \A x \in {"OUT", "IN", "ERR"} : io[p].todo \ {x} \in SUBSET {"OUT", "IN", "ERR"}
  BY <1>b
<1>d. ASSUME io' = [io EXCEPT ![p] = IoIdle]
      PROVE  io' \in [Procs -> IoType]
  BY <1>d, IdleTyped DEF TypeOK
<1>1. CASE IoOnConnect(p)
  <2>1. PICK st \in {"DELETE", "ESTABLISH"}, t \in {"CONNECT_FAIL", "ESTABLISH"} :
          /\ sock' = [sock EXCEPT ![s] = [sock[s] EXCEPT !.state = st]]
          /\ PushEvt(p, Event(t, s, 0))
    BY <1>1 DEF IoOnConnect
  <2>2. Event(t, s, 0) \in EventType
    BY <1>b, EventTyped DEF EventTypes
  <2>3. sock' \in [Sockets -> SockType]
    BY <1>a, <2>1, SockFields, SockUpdateTyped, StatesTyped
  <2>4. io' \in [Procs -> IoType]
    <3>1. CASE io[p].todo = {"OUT"}
      BY <1>1, <1>d, <3>1 DEF IoOnConnect
    <3>2. CASE io[p].todo # {"OUT"}
      <4>1. Enter(p, "dispatch", "evt", s, io[p].todo \ {"OUT"})
        BY <1>1, <3>2 DEF IoOnConnect
      <4> QED  BY <1>b, <1>c, <4>1, EnterTyped, LabelsTyped
    <3> QED  BY <3>1, <3>2
  <2> QED  BY <1>1, <2>1, <2>2, <2>3, <2>4, PushEvtTyped
           DEF IoOnConnect, TypeOK, EvtQueues, CrushValues
<1>2. CASE IoOnWritable(p)
  <2>1. Enter(p, "send", "evt", s, io[p].todo \ {"OUT"})
    BY <1>2 DEF IoOnWritable
  <2>2. io' \in [Procs -> IoType]
    BY <1>b, <1>c, <2>1, EnterTyped, LabelsTyped
  <2> QED  BY <1>2, <2>2 DEF IoOnWritable, TypeOK
<1>3. CASE IoOnReadable(p)
  <2>1. Enter(p, "recv", "evt", s, io[p].todo \ {"IN"})
    BY <1>3 DEF IoOnReadable
  <2>2. io' \in [Procs -> IoType]
    BY <1>b, <1>c, <2>1, EnterTyped, LabelsTyped
  <2> QED  BY <1>3, <2>2 DEF IoOnReadable, TypeOK
<1>4. CASE IoOnError(p)
  <2>1. io' \in [Procs -> IoType]
    BY <1>4, <1>d DEF IoOnError
  <2>2. CASE sock[s].state = "CONNECT"
    <3>1. /\ sock' = [sock EXCEPT ![s] = [sock[s] EXCEPT !.state = "DELETE"]]
          /\ PushEvt(p, Event("CONNECT_FAIL", s, 0))
      BY <1>4, <2>2 DEF IoOnError
    <3>2. Event("CONNECT_FAIL", s, 0) \in EventType
      BY <1>b, EventTyped DEF EventTypes
    <3>3. sock' \in [Sockets -> SockType]
      BY <1>a, <3>1, SockFields, SockUpdateTyped, StatesTyped
    <3> QED  BY <1>4, <2>1, <3>1, <3>2, <3>3, PushEvtTyped
             DEF IoOnError, TypeOK, EvtQueues, CrushValues
  <2>3. CASE sock[s].state # "CONNECT"
    <3>1. IoClose(p, s, "system")
      BY <1>4, <2>3 DEF IoOnError
    <3>2. sock' \in [Sockets -> SockType] /\ list_net_evt' \in EvtQueues /\ crush' \in CrushValues
      BY <1>b, <3>1, IoCloseTyped
    <3> QED  BY <1>4, <2>1, <3>2 DEF IoOnError, TypeOK, EvtQueues, CrushValues
  <2> QED  BY <2>2, <2>3
<1> QED  BY <1>1, <1>2, <1>3, <1>4

(* The sending handler. *)
LEMMA IoSendTyped ==
  ASSUME TypeOK, NEW p \in Procs,
         \/ IoSendEnter(p) \/ IoSendSome(p) \/ IoSendAgain(p) \/ IoSendError(p)
         \/ IoSendDrained(p) \/ IoSendDone(p)
  PROVE  TypeOK'
<1> DEFINE s == io[p].sock
<1>a. /\ sock \in [Sockets -> SockType] /\ kern \in [Sockets -> KernType]
      /\ s \in Sockets \cup {NoSock}
  BY IoAtTyped DEF TypeOK
<1>1. CASE IoSendEnter(p)
  <2>1. io' \in [Procs -> IoType]
    BY ONLY TypeOK, p \in Procs, <1>1, GoToTyped, FinishTyped, LabelsTyped, SMTT(60) DEF IoSendEnter
  <2> QED  BY <1>1, <2>1 DEF IoSendEnter, TypeOK
<1>2. CASE IoSendSome(p)
  <2>1. PICK n \in 1 .. TxCap :
          /\ sock' = [sock EXCEPT ![s] = [sock[s] EXCEPT !.data_has_send = sock[s].data_has_send + n]]
          /\ kern' = [kern EXCEPT ![s] = [kern[s] EXCEPT !.tx = kern[s].tx + n]]
    BY <1>2, Zenon DEF IoSendSome
  <2>2. n \in Nat
    BY ConstantsAssumption
  <2>3. sock' \in [Sockets -> SockType]
    <3>1. s \in Sockets => sock[s].data_has_send + n \in Nat
      BY <1>a, <2>2, SockCounters
    <3> QED  BY <1>a, <2>1, <3>1, SockFields, SockUpdateTyped
  <2>4. kern' \in [Sockets -> KernType]
    <3>1. s \in Sockets => kern[s].tx + n \in Nat
      BY <1>a, <2>2, KernCounters
    <3> QED  BY <1>a, <2>1, <3>1, KernFields, KernUpdateTyped
  <2> QED  BY <1>2, <2>3, <2>4, SMTT(60) DEF IoSendSome, TypeOK
<1>3. CASE IoSendAgain(p)
  <2>1. /\ sock' = [sock EXCEPT ![s] = [sock[s] EXCEPT !.need_send_active = FALSE]]
        /\ kern' = [kern EXCEPT ![s] = [kern[s] EXCEPT !.nospace = TRUE]]
        /\ Finish(p)
    BY <1>3 DEF IoSendAgain
  <2>2. sock' \in [Sockets -> SockType]
    BY <1>a, <2>1, SockFields, SockUpdateTyped
  <2>3. kern' \in [Sockets -> KernType]
    BY <1>a, <2>1, KernFields, KernUpdateTyped
  <2>4. io' \in [Procs -> IoType]
    BY <2>1, FinishTyped
  <2> QED  BY <1>3, <2>2, <2>3, <2>4 DEF IoSendAgain, TypeOK
<1>4. CASE IoSendError(p)
  <2>1. io' \in [Procs -> IoType]
    BY <1>4, FinishTyped DEF IoSendError
  <2>2. sock' \in [Sockets -> SockType] /\ list_net_evt' \in EvtQueues /\ crush' \in CrushValues
    BY <1>4, <1>a, IoCloseTyped DEF IoSendError
  <2> QED  BY <1>4, <2>1, <2>2 DEF IoSendError, TypeOK, EvtQueues, CrushValues
<1>5. CASE IoSendDrained(p)
  <2>1. io' \in [Procs -> IoType]
    BY <1>5, GoToTyped, LabelsTyped DEF IoSendDrained
  <2> QED  BY <1>5, <2>1 DEF IoSendDrained, TypeOK
<1>6. CASE IoSendDone(p)
  <2>1. /\ sock' = [sock EXCEPT ![s] = [sock[s] EXCEPT !.need_send_active = TRUE]]
        /\ Finish(p)
    BY <1>6 DEF IoSendDone
  <2>2. sock' \in [Sockets -> SockType]
    BY <1>a, <2>1, SockFields, SockUpdateTyped
  <2>3. io' \in [Procs -> IoType]
    BY <2>1, FinishTyped
  <2> QED  BY <1>6, <2>2, <2>3 DEF IoSendDone, TypeOK
<1> QED  BY <1>1, <1>2, <1>3, <1>4, <1>5, <1>6

(* The receiving handler. *)
LEMMA IoRecvTyped ==
  ASSUME TypeOK, NEW p \in Procs,
         \/ IoRecvEnter(p) \/ IoRecvSome(p) \/ IoRecvStop(p) \/ IoRecvFlush(p)
         \/ IoRecvAgain(p) \/ IoRecvFull(p) \/ IoRecvEof(p) \/ IoRecvError(p)
  PROVE  TypeOK'
<1> DEFINE s == io[p].sock
<1>a. /\ sock \in [Sockets -> SockType] /\ kern \in [Sockets -> KernType]
      /\ io \in [Procs -> IoType] /\ io[p] \in IoType
      /\ s \in Sockets \cup {NoSock} /\ io[p].got \in Nat
  BY IoAtTyped DEF TypeOK
<1>1. CASE IoRecvEnter(p)
  <2>1. io' \in [Procs -> IoType]
    BY <1>1, GoToTyped, FinishTyped, LabelsTyped DEF IoRecvEnter
  <2> QED  BY <1>1, <2>1 DEF IoRecvEnter, TypeOK
<1>2. CASE IoRecvSome(p)
  <2>1. PICK n \in 1 .. kern[s].rx :
          /\ sock' = [sock EXCEPT ![s] = [sock[s] EXCEPT !.recv_used = sock[s].recv_used + n]]
          /\ kern' = [kern EXCEPT ![s] = [kern[s] EXCEPT !.rx = kern[s].rx - n]]
          /\ io' = [io EXCEPT ![p] = [io[p] EXCEPT !.got = io[p].got + n]]
    BY ONLY <1>2 DEF IoRecvSome
  <2>2. s \in Sockets => n \in Nat /\ kern[s].rx - n \in Nat /\ sock[s].recv_used + n \in Nat
    <3>1. s \in Sockets => kern[s].rx \in Nat /\ sock[s].recv_used \in Nat
      BY <1>a, KernCounters, SockCounters
    <3> QED  BY <3>1
  <2>3. sock' \in [Sockets -> SockType]
    BY <1>a, <2>1, <2>2, SockFields, SockUpdateTyped
  <2>4. kern' \in [Sockets -> KernType]
    BY <1>a, <2>1, <2>2, KernFields, KernUpdateTyped
  <2>5. io' \in [Procs -> IoType]
    <3>1. io[p].got + n \in Nat
      BY <1>a
    <3>2. [io[p] EXCEPT !.got = io[p].got + n] \in IoType
      BY <1>a, <3>1 DEF IoType
    <3> QED  BY <1>a, <2>1, <3>2
  <2> QED  BY ONLY TypeOK, p \in Procs, <1>2, <2>3, <2>4, <2>5, SMTT(60) DEF IoRecvSome, TypeOK
<1>3. CASE IoRecvStop(p)
  <2>1. PICK why \in {"full", "again", "eof", "error"} :
          io' = [io EXCEPT ![p] = [[io[p] EXCEPT !.at = "recv_flush"] EXCEPT !.why = why]]
    BY <1>3, ZenonT(60) DEF IoRecvStop
  <2>2. [[io[p] EXCEPT !.at = "recv_flush"] EXCEPT !.why = why] \in IoType
    BY <1>a, LabelsTyped DEF IoType
  <2>3. io' \in [Procs -> IoType]
    BY <1>a, <2>1, <2>2
  <2> QED  BY <1>3, <2>3 DEF IoRecvStop, TypeOK
<1>4. CASE IoRecvFlush(p)
  <2>1. io' \in [Procs -> IoType]
    BY <1>4, GoToTyped, LabelsTyped DEF IoRecvFlush
  <2>2. CASE PushEvt(p, Event("DATA", s, io[p].got))
    <3>1. Event("DATA", s, io[p].got) \in EventType
      BY <1>a, EventTyped DEF EventTypes
    <3> QED  BY <1>4, <2>1, <2>2, <3>1, PushEvtTyped
             DEF IoRecvFlush, TypeOK, EvtQueues, CrushValues
  <2>3. CASE UNCHANGED <<list_net_evt, crush>>
    BY <1>4, <2>1, <2>3 DEF IoRecvFlush, TypeOK
  <2> QED  BY <1>4, <2>2, <2>3 DEF IoRecvFlush
<1>5. CASE IoRecvAgain(p)
  <2>1. io' \in [Procs -> IoType]
    BY <1>5, FinishTyped DEF IoRecvAgain
  <2> QED  BY <1>5, <2>1 DEF IoRecvAgain, TypeOK
<1>6. CASE IoRecvFull(p)
  <2>1. /\ sock' = [sock EXCEPT ![s] = [sock[s] EXCEPT !.need_recv_active = TRUE]]
        /\ PushEvt(p, Event("RECV_ACTIVATE", s, 0))
        /\ Finish(p)
    BY <1>6 DEF IoRecvFull
  <2>2. sock' \in [Sockets -> SockType]
    BY <1>a, <2>1, SockFields, SockUpdateTyped
  <2>3. io' \in [Procs -> IoType]
    BY <2>1, FinishTyped
  <2>4. Event("RECV_ACTIVATE", s, 0) \in EventType
    BY <1>a, EventTyped DEF EventTypes
  <2> QED  BY <1>6, <2>1, <2>2, <2>3, <2>4, PushEvtTyped
           DEF IoRecvFull, TypeOK, EvtQueues, CrushValues
<1>7. CASE IoRecvEof(p)
  <2>1. io' \in [Procs -> IoType]
    BY <1>7, FinishTyped DEF IoRecvEof
  <2>2. s \in Sockets => [sock[s] EXCEPT !.try_close_send_count = MaxTry] \in SockType
    BY <1>a, SockFields, ConstantsAssumption
  <2>3. CASE sock[s].state = "ESTABLISH"
    <3>1. /\ sock' = [sock EXCEPT ![s] = [[sock[s] EXCEPT !.try_close_send_count = MaxTry]
                                          EXCEPT !.state = "TERMINATE"]]
          /\ PushEvt(p, Event("TERMINATE", s, 0))
      BY <1>7, <2>3 DEF IoRecvEof
    <3>2. sock' \in [Sockets -> SockType]
      BY <2>2, <3>1, SockFields, SockUpdateTyped, StatesTyped
    <3>3. Event("TERMINATE", s, 0) \in EventType
      BY <1>a, EventTyped DEF EventTypes
    <3> QED  BY <1>7, <2>1, <3>1, <3>2, <3>3, PushEvtTyped
             DEF IoRecvEof, TypeOK, EvtQueues, CrushValues
  <2>4. CASE sock[s].state # "ESTABLISH"
    <3>1. /\ sock' = [sock EXCEPT ![s] = [sock[s] EXCEPT !.try_close_send_count = MaxTry]]
          /\ UNCHANGED <<list_net_evt, crush>>
      BY <1>7, <2>4 DEF IoRecvEof
    <3>2. sock' \in [Sockets -> SockType]
      BY <2>2, <3>1, SockUpdateTyped
    <3> QED  BY <1>7, <2>1, <3>1, <3>2 DEF IoRecvEof, TypeOK
  <2> QED  BY <2>3, <2>4
<1>8. CASE IoRecvError(p)
  <2>1. io' \in [Procs -> IoType]
    BY <1>8, FinishTyped DEF IoRecvError
  <2>2. sock' \in [Sockets -> SockType] /\ list_net_evt' \in EvtQueues /\ crush' \in CrushValues
    BY <1>8, <1>a, IoCloseTyped DEF IoRecvError
  <2> QED  BY <1>8, <2>1, <2>2 DEF IoRecvError, TypeOK, EvtQueues, CrushValues
<1> QED  BY <1>1, <1>2, <1>3, <1>4, <1>5, <1>6, <1>7, <1>8

(* The main thread takes an event. *)
LEMMA MainEvtTyped ==
  ASSUME TypeOK, NEW p \in Procs, MainEvt(p)
  PROVE  TypeOK'
<1> DEFINE e == Head(list_net_evt[p])
           s == e.sock
<1>a. sock \in [Sockets -> SockType] /\ pool \in SUBSET Sockets
  BY DEF TypeOK
<1>b. ASSUME NEW types, TakeEvt(p, types)
      PROVE  list_net_evt' \in EvtQueues /\ s \in Sockets \cup {NoSock} /\ e.len \in Nat
  BY <1>b, TakeEvtTyped DEF EventType
<1>1. CASE MainEvtAccept(p)
  <2>1. list_net_evt' \in EvtQueues
    BY <1>1, <1>b DEF MainEvtAccept
  <2>2. ASSUME NEW t \in pool, NEW q \in Procs,
               pool' = pool \ {t},
               sock' = [sock EXCEPT ![t] = [ResetSocket(q) EXCEPT !.sock_fd = TRUE]],
               kern' = [kern EXCEPT ![t] = [NoDescriptor EXCEPT !.conn = "up", !.left = MaxPeerBytes]],
               PushReq(q, Request("ACCEPT", t, "none"))
        PROVE  TypeOK'
    <3>1. Request("ACCEPT", t, "none") \in RequestType
      BY <1>a, RequestTyped DEF RequestTypes
    <3>2. list_net_req' \in ReqQueues /\ crush' \in CrushValues
      BY <2>2, <3>1, PushReqTyped
    <3>3. sock' \in [Sockets -> SockType]
      <4>1. [ResetSocket(q) EXCEPT !.sock_fd = TRUE] \in SockType
        BY ResetTyped, SockFields
      <4> QED  BY <2>2, <4>1, SockUpdateTyped
    <3>4. kern' \in [Sockets -> KernType]
      <4>1. [NoDescriptor EXCEPT !.conn = "up", !.left = MaxPeerBytes] \in KernType
        BY ConstantsAssumption DEF NoDescriptor, KernType
      <4> QED  BY <2>2, <4>1, KernUpdateTyped
    <3>5. pool' \in SUBSET Sockets
      BY <1>a, <2>2
    <3> QED  BY <1>1, <2>1, <3>2, <3>3, <3>4, <3>5
             DEF MainEvtAccept, TypeOK, ReqQueues, EvtQueues, CrushValues
  <2>3. CASE /\ PushReq(p, Request("ACCEPT_FAIL", NoSock, "none"))
             /\ UNCHANGED <<sock, pool, kern>>
    <3>1. Request("ACCEPT_FAIL", NoSock, "none") \in RequestType
      BY RequestTyped DEF RequestTypes
    <3>2. list_net_req' \in ReqQueues /\ crush' \in CrushValues
      BY <2>3, <3>1, PushReqTyped
    <3> QED  BY <1>1, <2>1, <2>3, <3>2 DEF MainEvtAccept, TypeOK, ReqQueues, EvtQueues, CrushValues
  <2> QED  BY <1>1, <2>2, <2>3 DEF MainEvtAccept
<1>2. CASE MainEvtEstablish(p)
  <2>1. list_net_evt' \in EvtQueues
    BY <1>2, <1>b DEF MainEvtEstablish
  <2>2. sock' = [sock EXCEPT ![s] = [sock[s] EXCEPT !.timer_send = TRUE]]
    BY <1>2 DEF MainEvtEstablish
  <2>3. sock' \in [Sockets -> SockType]
    BY <1>a, <2>2, SockFields, SockUpdateTyped, ZenonT(60)
  <2> QED  BY <1>2, <2>1, <2>3 DEF MainEvtEstablish, TypeOK, EvtQueues
<1>3. CASE MainEvtData(p)
  <2> DEFINE total == sock[s].data_has_recv + e.len
  <2>1. list_net_evt' \in EvtQueues /\ s \in Sockets \cup {NoSock} /\ e.len \in Nat
    BY <1>3, <1>b, Zenon DEF MainEvtData
  <2>2. CASE total > sock[s].recv_used
    <3>1. crush' = "recv_cache_short" /\ UNCHANGED <<sock, list_net_req>>
      BY <1>3, <2>2 DEF MainEvtData
    <3> QED  BY <1>3, <2>1, <3>1 DEF MainEvtData, TypeOK, EvtQueues
  <2>3. CASE ~(total > sock[s].recv_used)
    <3>1. PICK parser_len \in 0 .. total :
            LET f == [sock EXCEPT ![s] = [[sock[s] EXCEPT !.data_has_recv = total - parser_len]
                                          EXCEPT !.recv_used = sock[s].recv_used - parser_len]]
            IN \/ sock' = f /\ UNCHANGED <<list_net_req, crush>>
               \/ MainClose(s, "module", f)
      BY <1>3, <2>3, ZenonT(60) DEF MainEvtData
    <3> DEFINE g == [sock[s] EXCEPT !.data_has_recv = total - parser_len]
               h == [g EXCEPT !.recv_used = sock[s].recv_used - parser_len]
               f == [sock EXCEPT ![s] = h]
    <3>2. s \in Sockets => /\ total - parser_len \in Nat
                           /\ sock[s].recv_used - parser_len \in Nat
      <4>1. s \in Sockets => sock[s].recv_used \in Nat /\ sock[s].data_has_recv \in Nat
        BY <1>a, SockCounters
      <4> QED  BY <2>1, <2>3, <4>1
    <3>3. s \in Sockets => g \in SockType
      BY <1>a, <3>2, SockFields
    <3>4. s \in Sockets => h \in SockType
      BY <3>2, <3>3, SockFields
    <3>5. f \in [Sockets -> SockType]
      BY <1>a, <3>4, Zenon
    <3>6. CASE sock' = f /\ UNCHANGED <<list_net_req, crush>>
      BY <1>3, <2>1, <3>5, <3>6, ZenonT(60) DEF MainEvtData, TypeOK, EvtQueues
    <3>7. CASE MainClose(s, "module", f)
      <4>1. sock' \in [Sockets -> SockType] /\ list_net_req' \in ReqQueues /\ crush' \in CrushValues
        BY <2>1, <3>5, <3>7, MainCloseTyped
      <4> QED  BY ONLY TypeOK, p \in Procs, <1>3, <2>1, <4>1 DEF MainEvtData, TypeOK, EvtQueues, ReqQueues,
                       CrushValues
    <3> QED  BY <3>1, <3>6, <3>7, SMTT(60)
  <2> QED  BY <2>2, <2>3
<1>4. CASE MainEvtRecvActivate(p)
  <2>1. list_net_evt' \in EvtQueues /\ s \in Sockets \cup {NoSock}
    BY <1>4, <1>b DEF MainEvtRecvActivate
  <2>2. CASE PushReq(p, Request("RECV_ACTIVATE", s, "none")) /\ UNCHANGED sock
    <3>1. Request("RECV_ACTIVATE", s, "none") \in RequestType
      BY <2>1, RequestTyped DEF RequestTypes
    <3>2. list_net_req' \in ReqQueues /\ crush' \in CrushValues
      BY <2>2, <3>1, PushReqTyped
    <3> QED  BY <1>4, <2>1, <2>2, <3>2
             DEF MainEvtRecvActivate, TypeOK, EvtQueues, ReqQueues, CrushValues
  <2>3. CASE MainClose(s, "module", sock)
    <3>1. sock' \in [Sockets -> SockType] /\ list_net_req' \in ReqQueues /\ crush' \in CrushValues
      BY <1>a, <2>1, <2>3, MainCloseTyped
    <3> QED  BY <1>4, <2>1, <3>1
             DEF MainEvtRecvActivate, TypeOK, EvtQueues, ReqQueues, CrushValues
  <2> QED  BY <1>4, <2>2, <2>3 DEF MainEvtRecvActivate
<1>5. CASE MainEvtEnd(p)
  <2>1. list_net_evt' \in EvtQueues
    BY ONLY <1>5, <1>b DEF MainEvtEnd
  <2>2. sock' = [sock EXCEPT ![s] = [[sock[s] EXCEPT !.timer_send = FALSE] EXCEPT !.timer_close = TRUE]]
    BY <1>5 DEF MainEvtEnd, ArmTimerClose
  <2>3. sock' \in [Sockets -> SockType]
    BY <1>a, <2>2, SockFields, SockUpdateTyped
  <2>4. cb' \in [Sockets -> {"idle", "connecting", "up", "down"}]
    BY <1>5 DEF MainEvtEnd, TypeOK
  <2> QED  BY <1>5, <2>1, <2>3, <2>4 DEF MainEvtEnd, TypeOK, EvtQueues
<1> QED  BY <1>1, <1>2, <1>3, <1>4, <1>5 DEF MainEvt

(* The main thread makes a request for sending, or releases a slot. *)
LEMMA MainAtTyped ==
  ASSUME TypeOK
  PROVE  /\ main.sock \in Sockets \cup {NoSock}
         /\ \A label \in {"idle", "send_check", "active_check", "close_check"} :
              \A s \in Sockets \cup {NoSock} :
                MainGo(label, s) =>
                  main' \in [at : {"idle", "send_check", "active_check", "close_check"},
                             sock : Sockets \cup {NoSock}]
BY DEF TypeOK, MainGo

(* The main thread between two calls. *)
LEMMA MainIdleTyped ==
  MainIdle \in [at : {"idle", "send_check", "active_check", "close_check"},
                sock : Sockets \cup {NoSock}]
BY DEF MainIdle

(* Releasing a slot of the pool keeps the types. *)
LEMMA ReleaseTyped ==
  ASSUME TypeOK, NEW s \in Sockets, Release(s)
  PROVE  /\ sock' \in [Sockets -> SockType] /\ kern' \in [Sockets -> KernType]
         /\ pool' \in SUBSET Sockets
         /\ cb' \in [Sockets -> {"idle", "connecting", "up", "down"}]
<1>1. sock \in [Sockets -> SockType]
  BY DEF TypeOK
<1>2. sock' = [sock EXCEPT ![s] = [[sock[s] EXCEPT !.sock_fd = FALSE] EXCEPT !.timer_close = FALSE]]
  BY DEF Release
<1>3. sock' \in [Sockets -> SockType]
  BY <1>1, <1>2, SockFields, SockUpdateTyped
<1>4. kern' \in [Sockets -> KernType]
  BY ClosedTyped, KernUpdateTyped DEF Release
<1>5. pool' \in SUBSET Sockets /\ cb' \in [Sockets -> {"idle", "connecting", "up", "down"}]
  BY DEF Release, TypeOK
<1> QED  BY <1>3, <1>4, <1>5

(* What the main thread is in the middle of concerns a slot, never a null sock_ptr.  TypeOK is   *)
(* not inductive without it: releasing the null pointer would put it in the pool.              *)
MainHasSlot == main.at # "idle" => main.sock \in Sockets

(* The three continuations of the main thread. *)
LEMMA MainContinueTyped ==
  ASSUME TypeOK, MainHasSlot, MainContinue
  PROVE  TypeOK'
<1> DEFINE s == main.sock
<1>a. /\ sock \in [Sockets -> SockType] /\ kern \in [Sockets -> KernType]
      /\ pool \in SUBSET Sockets /\ s \in Sockets \cup {NoSock}
  BY MainAtTyped DEF TypeOK
<1>1. CASE MainSendCheck
  <2>1. MainGo("active_check", s) \/ main' = MainIdle
    BY <1>1 DEF MainSendCheck
  <2>2. main' \in [at : {"idle", "send_check", "active_check", "close_check"},
                   sock : Sockets \cup {NoSock}]
    BY <1>a, <2>1, MainAtTyped, MainIdleTyped
  <2> QED  BY <1>1, <2>2 DEF MainSendCheck, TypeOK
<1>2. CASE MainActiveCheck
  <2>1. CASE /\ sock' = [sock EXCEPT ![s].send_req = @ + 1]
             /\ PushReq(sock[s].proc, Request("SEND", s, "none"))
    <3>1. sock' = [sock EXCEPT ![s] = [sock[s] EXCEPT !.send_req = sock[s].send_req + 1]]
      BY <2>1
    <3>2. s \in Sockets => sock[s].send_req + 1 \in Nat
      BY <1>a, SockCounters
    <3>3. sock' \in [Sockets -> SockType]
      BY <1>a, <3>1, <3>2, SockFields, SockUpdateTyped
    <3>4. Request("SEND", s, "none") \in RequestType
      BY <1>a, RequestTyped DEF RequestTypes
    <3>5. list_net_req' \in ReqQueues /\ crush' \in CrushValues
      BY <2>1, <3>4, PushReqTyped
    <3> QED  BY <1>2, <3>3, <3>5, MainIdleTyped DEF MainActiveCheck, TypeOK, ReqQueues, CrushValues
  <2>2. CASE UNCHANGED <<sock, list_net_req, crush>>
    BY <1>2, <2>2, MainIdleTyped DEF MainActiveCheck, TypeOK
  <2> QED  BY <1>2, <2>1, <2>2 DEF MainActiveCheck
<1>3. CASE MainCloseCheck
  <2>1. CASE UNCHANGED <<sock, kern, pool, cb>>
    BY <1>3, <2>1, MainIdleTyped DEF MainCloseCheck, TypeOK
  <2>2. CASE Release(s)
    <3>1. s \in Sockets
      BY <1>3 DEF MainCloseCheck, MainAt, MainHasSlot
    <3>2. /\ sock' \in [Sockets -> SockType] /\ kern' \in [Sockets -> KernType]
          /\ pool' \in SUBSET Sockets
          /\ cb' \in [Sockets -> {"idle", "connecting", "up", "down"}]
      BY <2>2, <3>1, ReleaseTyped
    <3> QED  BY <1>3, <3>2, MainIdleTyped DEF MainCloseCheck, TypeOK
  <2> QED  BY <1>3, <2>1, <2>2 DEF MainCloseCheck
<1> QED  BY <1>1, <1>2, <1>3 DEF MainContinue

(* The timers. *)
LEMMA MainTimerTyped ==
  ASSUME TypeOK, NEW s \in Sockets, MainTimerSend(s) \/ MainTimerClose(s)
  PROVE  TypeOK'
<1>a. /\ sock \in [Sockets -> SockType] /\ sock[s] \in SockType
      /\ sock[s].try_close_send_count + 1 \in Nat /\ sock[s].send_req + 1 \in Nat
      /\ sock[s].try_close_send_count \in Nat
  <2>1. sock \in [Sockets -> SockType] /\ sock[s] \in SockType
    BY DEF TypeOK
  <2> QED  BY <2>1, SockCounters
<1>1. CASE MainTimerSend(s)
  <2>1. MainGo("send_check", s)
    BY <1>1 DEF MainTimerSend
  <2> QED  BY <1>1, <2>1, MainAtTyped DEF MainTimerSend, TypeOK
<1>2. CASE MainTimerCloseFlush(s)
  <2>1. MainGo("send_check", s)
    BY <1>2 DEF MainTimerCloseFlush
  <2>2. sock' = [sock EXCEPT ![s] = [sock[s] EXCEPT
                   !.try_close_send_count = sock[s].try_close_send_count + 1]]
    BY <1>2 DEF MainTimerCloseFlush
  <2>3. sock' \in [Sockets -> SockType]
    BY <1>a, <2>2, SockFields, SockUpdateTyped
  <2> QED  BY <1>2, <2>1, <2>3, MainAtTyped DEF MainTimerCloseFlush, TypeOK
<1>3. CASE MainTimerCloseGiveUp(s)
  <2>1. PICK n \in Nat :
          sock' = [sock EXCEPT ![s] = [[sock[s] EXCEPT !.state = "DELETE"]
                                       EXCEPT !.try_close_send_count = n]]
    BY <1>3, <1>a, Zenon DEF MainTimerCloseGiveUp
  <2>2. sock' \in [Sockets -> SockType]
    BY <1>a, <2>1, SockFields, SockUpdateTyped, StatesTyped
  <2> QED  BY <1>3, <2>2 DEF MainTimerCloseGiveUp, TypeOK
<1>4. CASE MainTimerCloseRequest(s)
  <2>1. /\ sock' = [sock EXCEPT ![s] = [[sock[s] EXCEPT !.need_req_close = FALSE]
                                        EXCEPT !.send_req = sock[s].send_req + 1]]
        /\ PushReq(sock[s].proc, Request("CLOSE_SOCKET", s, "none"))
        /\ MainGo("close_check", s)
    BY <1>4 DEF MainTimerCloseRequest
  <2>2. sock' \in [Sockets -> SockType]
    BY <1>a, <2>1, SockFields, SockUpdateTyped
  <2>3. Request("CLOSE_SOCKET", s, "none") \in RequestType
    BY RequestTyped DEF RequestTypes
  <2>4. list_net_req' \in ReqQueues /\ crush' \in CrushValues
    BY <2>1, <2>3, PushReqTyped
  <2> QED  BY <1>4, <2>1, <2>2, <2>4, MainAtTyped
           DEF MainTimerCloseRequest, TypeOK, ReqQueues, CrushValues
<1>5. CASE MainTimerCloseRelease(s)
  <2>1. CASE crush' = "timer_close_state" /\ UNCHANGED <<sock, pool, kern, cb>>
    BY <1>5, <2>1 DEF MainTimerCloseRelease, TypeOK
  <2>2. CASE Release(s) /\ UNCHANGED crush
    BY <1>5, <2>2, ReleaseTyped DEF MainTimerCloseRelease, TypeOK
  <2> QED  BY <1>5, <2>1, <2>2 DEF MainTimerCloseRelease
<1> QED  BY <1>1, <1>2, <1>3, <1>4, <1>5 DEF MainTimerClose

(* The application's calls. *)
LEMMA AppTyped ==
  ASSUME TypeOK, App
  PROVE  TypeOK'
<1>a. /\ sock \in [Sockets -> SockType] /\ pool \in SUBSET Sockets /\ started \in Nat
      /\ cb \in [Sockets -> {"idle", "connecting", "up", "down"}]
  BY DEF TypeOK
<1>1. CASE AppConnect
  <2>1. PICK s \in pool, p \in Procs :
          /\ pool' = pool \ {s}
          /\ sock' = [sock EXCEPT ![s] = [ResetSocket(p) EXCEPT !.state = "CONNECT"]]
          /\ cb' = [cb EXCEPT ![s] = "connecting"]
          /\ PushReq(p, Request("CONNECT", s, "none"))
    BY <1>1 DEF AppConnect
  <2>2. sock' \in [Sockets -> SockType]
    <3>1. [ResetSocket(p) EXCEPT !.state = "CONNECT"] \in SockType
      BY ResetTyped, SockFields, StatesTyped
    <3> QED  BY <2>1, <3>1, SockUpdateTyped
  <2>3. Request("CONNECT", s, "none") \in RequestType
    BY <1>a, RequestTyped DEF RequestTypes
  <2>4. list_net_req' \in ReqQueues /\ crush' \in CrushValues
    BY <2>1, <2>3, PushReqTyped
  <2>5. /\ pool' \in SUBSET Sockets /\ started' \in Nat
        /\ cb' \in [Sockets -> {"idle", "connecting", "up", "down"}]
    BY <1>1, <1>a, <2>1 DEF AppConnect
  <2> QED  BY <1>1, <2>2, <2>4, <2>5 DEF AppConnect, TypeOK, ReqQueues, CrushValues
<1>2. ASSUME NEW s \in Sockets, AppSend(s)
      PROVE  TypeOK'
  <2>1. CASE MainClose(s, "module", sock) /\ UNCHANGED main
    <3>1. sock' \in [Sockets -> SockType] /\ list_net_req' \in ReqQueues /\ crush' \in CrushValues
      BY <1>a, <2>1, MainCloseTyped
    <3> QED  BY <1>2, <2>1, <3>1 DEF AppSend, TypeOK, ReqQueues, CrushValues
  <2>2. ASSUME NEW len \in 1 .. MaxAppBytes,
               sock' = [sock EXCEPT ![s] = [sock[s] EXCEPT
                          !.data_need_send = sock[s].data_need_send + len]],
               UNCHANGED main \/ MainGo("send_check", s),
               UNCHANGED <<list_net_req, crush>>
        PROVE  TypeOK'
    <3>1. sock[s].data_need_send + len \in Nat
      BY <1>a, SockCounters, ConstantsAssumption
    <3>2. sock' \in [Sockets -> SockType]
      BY <1>a, <2>2, <3>1, SockFields, SockUpdateTyped
    <3>3. main' \in [at : {"idle", "send_check", "active_check", "close_check"},
                     sock : Sockets \cup {NoSock}]
      BY <2>2, MainAtTyped DEF TypeOK
    <3> QED  BY <1>2, <2>2, <3>2, <3>3 DEF AppSend, TypeOK
  <2> QED  BY <1>2, <2>1, <2>2 DEF AppSend
<1>3. ASSUME NEW s \in Sockets, AppClose(s)
      PROVE  TypeOK'
  <2>1. sock' \in [Sockets -> SockType] /\ list_net_req' \in ReqQueues /\ crush' \in CrushValues
    BY <1>3, <1>a, MainCloseTyped DEF AppClose
  <2> QED  BY <1>3, <2>1 DEF AppClose, TypeOK, ReqQueues, CrushValues
<1>4. ASSUME NEW s \in Sockets, AppSetSendControl(s)
      PROVE  TypeOK'
  <2>1. PICK size \in DelaySizes :
          sock' = [sock EXCEPT ![s] = [[sock[s] EXCEPT !.data_delay_send_size = size]
                                       EXCEPT !.timer_send = TRUE]]
    BY <1>4, Zenon DEF AppSetSendControl
  <2>2. size \in Nat
    BY ConstantsAssumption
  <2>3. sock' \in [Sockets -> SockType]
    BY <1>a, <2>1, <2>2, SockFields, SockUpdateTyped
  <2> QED  BY <1>4, <2>3 DEF AppSetSendControl, TypeOK
<1> QED  BY <1>1, <1>2, <1>3, <1>4 DEF App

(* The kernel and the peer. *)
LEMMA WakeTyped ==
  ASSUME TypeOK, NEW s \in Sockets, NEW k \in KernType, Wake(s, k)
  PROVE  kern' \in [Sockets -> KernType]
<1>1. kern[s] \in KernType
  BY DEF TypeOK
<1>2. [k EXCEPT !.ready = kern[s].interest] \in KernType
  BY <1>1, KernFields, KernCounters
<1> QED  BY <1>2, KernUpdateTyped DEF Wake

(* Every step of the kernel or the peer keeps the types. *)
LEMMA KernelTyped ==
  ASSUME TypeOK, NEW s \in Sockets, Kernel(s)
  PROVE  TypeOK'
<1>a. kern \in [Sockets -> KernType] /\ kern[s] \in KernType
  BY DEF TypeOK
<1>b. ASSUME KernOnly, kern' \in [Sockets -> KernType]
      PROVE  TypeOK'
  BY <1>b DEF KernOnly, TypeOK
<1>1. CASE KernConnected(s)
  <2>1. [kern[s] EXCEPT !.conn = "up"] \in KernType
    BY <1>a, KernFields
  <2> QED  BY <1>1, <1>b, <2>1, WakeTyped DEF KernConnected
<1>2. CASE KernReset(s)
  <2>1. [kern[s] EXCEPT !.conn = "reset"] \in KernType
    BY <1>a, KernFields
  <2> QED  BY <1>2, <1>b, <2>1, WakeTyped DEF KernReset
<1>3. CASE PeerSend(s)
  <2>1. kern[s].left - 1 \in Nat /\ kern[s].rx + 1 \in Nat
    <3>1. kern[s].left \in Nat /\ kern[s].rx \in Nat /\ kern[s].left > 0
      BY <1>3, <1>a, KernCounters DEF PeerSend
    <3> QED  BY <3>1
  <2>2. [[kern[s] EXCEPT !.left = kern[s].left - 1] EXCEPT !.rx = kern[s].rx + 1] \in KernType
    BY <1>a, <2>1, KernFields
  <2>3. Wake(s, [[kern[s] EXCEPT !.left = kern[s].left - 1] EXCEPT !.rx = kern[s].rx + 1])
    BY <1>3 DEF PeerSend
  <2> QED  BY <1>3, <1>b, <2>2, <2>3, WakeTyped DEF PeerSend
<1>4. CASE PeerFin(s)
  <2>1. [kern[s] EXCEPT !.fin = TRUE] \in KernType
    BY <1>a, KernFields
  <2> QED  BY <1>4, <1>b, <2>1, WakeTyped DEF PeerFin
<1>5. CASE PeerRead(s)
  <2>1. PICK b \in BOOLEAN :
          kern' = [kern EXCEPT ![s] = [[[kern[s] EXCEPT !.tx = 0] EXCEPT !.nospace = FALSE]
                                       EXCEPT !.ready = b]]
    <3>1. (kern[s].ready \/ (kern[s].nospace /\ kern[s].interest)) \in BOOLEAN
      OBVIOUS
    <3> QED  BY <1>5, <3>1, Zenon DEF PeerRead
  <2>2. [[[kern[s] EXCEPT !.tx = 0] EXCEPT !.nospace = FALSE] EXCEPT !.ready = b] \in KernType
    BY <1>a, KernFields
  <2>3. kern' \in [Sockets -> KernType]
    BY <2>1, <2>2, KernUpdateTyped
  <2> QED  BY <1>5, <1>b, <2>3 DEF PeerRead
<1> QED  BY <1>1, <1>2, <1>3, <1>4, <1>5 DEF Kernel

(* create_net_tcp leaves every field with a value of its type. *)
LEMMA InitTyped == Init => TypeOK
<1> SUFFICES ASSUME Init PROVE TypeOK
  OBVIOUS
<1>1. ResetSocket(NoProc) \in SockType
  BY DEF ResetSocket, SockType, SocketStates
<1>2. sock \in [Sockets -> SockType] /\ kern \in [Sockets -> KernType] /\ io \in [Procs -> IoType]
  BY <1>1, ClosedTyped, IdleTyped DEF Init
<1> QED  BY <1>2, MainIdleTyped DEF Init, TypeOK

(* Only the main thread's own steps move the main thread, and they leave it with the slot they  *)
(* were called with.                                                                           *)
LEMMA MainHasSlotKept ==
  ASSUME MainHasSlot, [Next]_vars
  PROVE  MainHasSlot'
<1>1. CASE UNCHANGED main
  BY <1>1 DEF MainHasSlot
<1>2. CASE main' = MainIdle
  BY <1>2 DEF MainIdle, MainHasSlot
<1>3. ASSUME NEW label, NEW s \in Sockets, MainGo(label, s)
      PROVE  MainHasSlot'
  BY <1>3 DEF MainGo, MainHasSlot
<1>4. ASSUME NEW p \in Procs, Io(p)
      PROVE  UNCHANGED main
  <2>1. CASE IoReq(p)
    BY <2>1, ZenonT(60) DEF IoReq, IoReqSend, IoReqRecvActivate, IoReqAccept, IoReqAcceptFail,
                IoReqConnect, IoReqTerminate, IoReqClose
  <2>2. CASE IoHandler(p)
    BY <2>2, Zenon DEF IoHandler, IoOnConnect, IoOnWritable, IoOnReadable, IoOnError,
                IoSendEnter, IoSendSome, IoSendAgain, IoSendError, IoSendDrained, IoSendDone,
                IoRecvEnter, IoRecvSome, IoRecvStop, IoRecvFlush, IoRecvAgain, IoRecvFull,
                IoRecvEof, IoRecvError
  <2>3. CASE IoListenerAccept(p) \/ \E s \in Sockets : IoEpollWait(p, s)
    BY <2>3, SMTT(60) DEF IoListenerAccept, IoEpollWait
  <2> QED  BY <1>4, <2>1, <2>2, <2>3, SMTT(60) DEF Io
<1>5. ASSUME NEW p \in Procs, MainEvt(p)
      PROVE  UNCHANGED main
  BY <1>5, Zenon DEF MainEvt, MainEvtAccept, MainEvtEstablish, MainEvtData, MainEvtRecvActivate, MainEvtEnd
<1>6. ASSUME NEW s \in Sockets, MainTimerSend(s) \/ MainTimerClose(s)
      PROVE  UNCHANGED main \/ \E label \in {"send_check", "close_check"} : MainGo(label, s)
  BY <1>6 DEF MainTimerSend, MainTimerClose, MainTimerCloseFlush, MainTimerCloseGiveUp,
              MainTimerCloseRequest, MainTimerCloseRelease
<1>7. CASE MainContinue
  <2>1. CASE MainSendCheck
    <3>1. main.sock \in Sockets
      BY <2>1 DEF MainSendCheck, MainAt, MainHasSlot
    <3> QED  BY <1>2, <1>3, <2>1, <3>1 DEF MainSendCheck
  <2>2. CASE MainActiveCheck \/ MainCloseCheck
    BY <1>2, <2>2 DEF MainActiveCheck, MainCloseCheck
  <2> QED  BY <1>7, <2>1, <2>2 DEF MainContinue
<1>8. CASE App
  <2>1. CASE AppConnect
    BY <1>1, <2>1 DEF AppConnect
  <2>2. ASSUME NEW s \in Sockets, AppSend(s) \/ AppClose(s) \/ AppSetSendControl(s)
        PROVE  UNCHANGED main \/ MainGo("send_check", s)
    BY <2>2 DEF AppSend, AppClose, AppSetSendControl
  <2> QED  BY <1>1, <1>3, <1>8, <2>1, <2>2 DEF App
<1>9. ASSUME NEW s \in Sockets, Kernel(s)
      PROVE  UNCHANGED main
  BY <1>9 DEF Kernel, KernConnected, KernReset, PeerSend, PeerFin, PeerRead, KernOnly
<1>10. CASE UNCHANGED vars
  BY <1>1, <1>10 DEF vars
<1> QED  BY <1>1, <1>3, <1>4, <1>5, <1>6, <1>7, <1>8, <1>9, <1>10 DEF Next

TypeInv == TypeOK /\ MainHasSlot

(* The inductive step: every action has its lemma above. *)
LEMMA NextTyped == TypeInv /\ [Next]_vars => TypeInv'
<1> SUFFICES ASSUME TypeInv, [Next]_vars PROVE TypeInv'
  OBVIOUS
<1>a. TypeOK /\ MainHasSlot
  BY DEF TypeInv
<1>b. MainHasSlot'
  BY <1>a, MainHasSlotKept
<1>c. TypeOK'
  <2>1. ASSUME NEW p \in Procs, Io(p) \/ MainEvt(p)
        PROVE  TypeOK'
    <3>1. CASE IoHandler(p)
      BY <1>a, <3>1, IoDispatchTyped, IoSendTyped, IoRecvTyped DEF IoHandler
    <3> QED  BY <2>1, <1>a, <3>1, IoReqTyped, IoArrivalTyped, MainEvtTyped DEF Io
  <2>2. ASSUME NEW s \in Sockets, MainTimerSend(s) \/ MainTimerClose(s) \/ Kernel(s)
        PROVE  TypeOK'
    BY <2>2, <1>a, MainTimerTyped, KernelTyped
  <2>3. CASE MainContinue
    BY <2>3, <1>a, MainContinueTyped
  <2>4. CASE App
    BY <2>4, <1>a, AppTyped
  <2>5. CASE UNCHANGED vars
    BY <2>5, <1>a DEF vars, TypeOK
  <2> QED  BY <2>1, <2>2, <2>3, <2>4, <2>5 DEF Next
<1> QED  BY <1>b, <1>c DEF TypeInv

(* For every number of slots, io threads and sessions and every capacity, the state keeps its   *)
(* types: no field of the shared socket structure, no queue entry and no thread position takes  *)
(* a value the code has no case for.                                                           *)
THEOREM TypeCorrect == Spec => []TypeOK
<1>1. Init => TypeInv
  BY InitTyped DEF Init, MainIdle, MainHasSlot, TypeInv
<1>2. TypeInv /\ [Next]_vars => TypeInv'
  BY NextTyped
<1>3. TypeInv => TypeOK
  BY DEF TypeInv
<1> QED  BY <1>1, <1>2, <1>3, PTL DEF Spec

-----------------------------------------------------------------------------
(* Part 2: what the threads keep true of every session, and that no step breaks it. *)

(***************************************************************************)
(* The view of one session on which the invariant rests: the types of its  *)
(* queued requests and events, and where the two threads are with it.      *)
(***************************************************************************)
ReqsOf(s) == TypesIn(list_net_req[sock[s].proc], s)
EvtsOf(s) == TypesIn(list_net_evt[sock[s].proc], s)
IoOf(s) == IF io[sock[s].proc].sock = s THEN io[sock[s].proc].at ELSE "none"
MainOf(s) == IF main.sock = s THEN main.at ELSE "none"

Receiving == {"recv_loop", "recv_flush", "recv_end"}
Counted(b) == IF b THEN 1 ELSE 0

(* A slot in the pool: r is its structure, k its descriptor, c the callback seen last. *)
FreeOK(r, k, c) ==
  ~r.timer_send /\ ~r.timer_close /\ k = NoDescriptor /\ c = "idle"

(* A session in use: R and E are the types of its requests and events, a is where its io thread *)
(* is with it and m where the main thread is.  One being accepted or connected has met no other *)
(* request, and no event.                                                                       *)
OpeningOK(r, k, c, R, E, a, m) ==
  /\ r.state = "NONE" <=> "ACCEPT" \in R
  /\ "CONNECT" \in R => r.state = "CONNECT" /\ k = NoDescriptor /\ a = "none"
  /\ "ACCEPT" \in R => ~k.interest /\ a = "none"
  /\ r.state = "NONE" => c = "idle"
  /\ r.state = "CONNECT" => c = "connecting"
  /\ r.state \in {"NONE", "CONNECT"} =>
       /\ E = {} /\ R \subseteq {"ACCEPT", "CONNECT"} /\ m = "none"
       /\ ~r.timer_close /\ r.need_req_close /\ ~r.need_recv_active

(* A session is closing exactly as long as one thing announces its end: the request of the main *)
(* thread, the terminal event, or the close timer that the event started.                       *)
ClosingOK(r, R, E, c) ==
  /\ r.state \in {"TERMINATE", "DELETE"} <=>
       "TERMINATE" \in R \/ E \cap TerminalEvents # {} \/ r.timer_close
  /\ "TERMINATE" \in R => r.state = "TERMINATE" /\ E \cap TerminalEvents = {} /\ ~r.timer_close
  /\ r.timer_close => E = {} /\ ~r.timer_send /\ c \in {"down", "idle"}
  /\ c = "down" => r.timer_close

(* What the application has heard of the session, against what is on its way. *)
HeardOK(r, R, E, c) ==
  /\ "ESTABLISH" \in E => c \in {"idle", "connecting"} /\ E \cap {"CONNECT_FAIL", "ACCEPT_FAIL"} = {}
  /\ r.state = "ESTABLISH" \/ "TERMINATE" \in R
     \/ E \cap {"TERMINATE", "MODULE_ERROR", "SYSTEM_ERROR"} # {} => c = "up" \/ "ESTABLISH" \in E
  /\ "CONNECT_FAIL" \in E => c = "connecting"
  /\ "ACCEPT_FAIL" \in E => c = "idle"

(* The request that closes the descriptor is the last one, and leaves nothing behind. *)
ClosedOK(r, k, R, a, m) ==
  /\ ~r.need_req_close =>
       /\ r.state = "DELETE" /\ r.timer_close
       /\ "CLOSE_SOCKET" \in R \/ (R = {} /\ k = NoDescriptor /\ a = "none")
  /\ "CLOSE_SOCKET" \in R => ~r.need_req_close
  /\ m = "close_check" => ~r.need_req_close
  /\ m \in {"send_check", "active_check"} => r.need_req_close

(* The two counters, and the one request for sending. *)
SendingOK(r, R, m) ==
  /\ r.send_req - r.send_ack = Counted("SEND" \in R) + Counted("CLOSE_SOCKET" \in R)
  /\ m = "active_check" => "SEND" \notin R

(* The token that resumes reading, and the io thread inside the reading loop. *)
ReadingOK(r, R, E, a) ==
  /\ "RECV_ACTIVATE" \in R => "RECV_ACTIVATE" \notin E
  /\ "RECV_ACTIVATE" \in R \cup E => r.need_recv_active
  /\ r.state = "ESTABLISH" /\ r.need_recv_active => "RECV_ACTIVATE" \in R \cup E
  /\ a \in Receiving =>
       /\ ~r.need_recv_active /\ ~r.timer_close /\ E \cap TerminalEvents = {}
       /\ r.state = "ESTABLISH" \/ "TERMINATE" \in R

UsedOK(r, k, c, R, E, a, m) ==
  /\ r.proc \in Procs
  /\ OpeningOK(r, k, c, R, E, a, m) /\ ClosingOK(r, R, E, c) /\ HeardOK(r, R, E, c)
  /\ ClosedOK(r, k, R, a, m) /\ SendingOK(r, R, m) /\ ReadingOK(r, R, E, a)

SessionOK(s) ==
  IF s \in pool THEN FreeOK(sock[s], kern[s], cb[s]) /\ main.sock # s
  ELSE UsedOK(sock[s], kern[s], cb[s], ReqsOf(s), EvtsOf(s), IoOf(s), MainOf(s))

SessionsOK == \A s \in Sockets : SessionOK(s)

(***************************************************************************)
(* What is queued belongs to the thread of a session in use, each type is  *)
(* queued once but DATA, and nothing follows CLOSE_SOCKET or an end.       *)
(***************************************************************************)
InUseBy(s, p) == s \in Sockets => s \notin pool /\ sock[s].proc = p

ReqsHome ==
  \A p \in Procs : \A i \in DOMAIN list_net_req[p] :
    /\ InUseBy(list_net_req[p][i].sock, p)
    /\ list_net_req[p][i].sock = NoSock <=> list_net_req[p][i].type = "ACCEPT_FAIL"

ReqQueueOK(q) ==
  \A i, j \in DOMAIN q :
    q[i].sock = q[j].sock /\ q[i].sock # NoSock =>
      /\ q[i].type = q[j].type => i = j
      /\ q[i].type = "CLOSE_SOCKET" => j <= i

ReqsInv == ReqsHome /\ \A p \in Procs : ReqQueueOK(list_net_req[p])

EvtsHome ==
  \A p \in Procs : \A i \in DOMAIN list_net_evt[p] :
    /\ InUseBy(list_net_evt[p][i].sock, p)
    /\ list_net_evt[p][i].sock = NoSock <=> list_net_evt[p][i].type = "ACCEPT"
    /\ list_net_evt[p][i].type # "DATA" => list_net_evt[p][i].len = 0

EvtQueueOK(q) ==
  \A i, j \in DOMAIN q :
    q[i].sock = q[j].sock /\ q[i].sock # NoSock =>
      /\ q[i].type = q[j].type /\ q[i].type # "DATA" => i = j
      /\ q[i].type \in TerminalEvents => j <= i

EvtsInv == EvtsHome /\ \A p \in Procs : EvtQueueOK(list_net_evt[p])

IoHome ==
  \A p \in Procs :
    /\ InUseBy(io[p].sock, p)
    /\ io[p].at = "idle" <=> io[p].sock = NoSock
    /\ io[p].at \notin Receiving => io[p].got = 0

MainHome == main.at = "idle" <=> main.sock = NoSock

SessInv == SessionsOK /\ ReqsInv /\ EvtsInv /\ IoHome /\ MainHome

-----------------------------------------------------------------------------
(* A request may be pushed when its type is not queued and the socket is not being closed. *)
LEMMA ReqQueueAppend ==
  ASSUME NEW q \in Seq(RequestType), NEW e \in RequestType, ReqQueueOK(q),
         e.sock # NoSock => e.type \notin TypesIn(q, e.sock) /\ "CLOSE_SOCKET" \notin TypesIn(q, e.sock)
  PROVE  ReqQueueOK(Append(q, e))
<1> DEFINE w == Append(q, e)
           n == Len(q)
<1>1. n \in Nat /\ DOMAIN q = 1 .. n /\ DOMAIN w = 1 .. n + 1 /\ w[n + 1] = e
      /\ \A i \in 1 .. n : w[i] = q[i]
  OBVIOUS
<1> HIDE DEF w, n
<1>2. \A i \in 1 .. n : q[i].type \in TypesIn(q, q[i].sock)
  BY <1>1, TypesEntry
<1> SUFFICES ASSUME NEW i \in 1 .. n + 1, NEW j \in 1 .. n + 1, w[i].sock = w[j].sock, w[i].sock # NoSock
             PROVE  /\ w[i].type = w[j].type => i = j
                    /\ w[i].type = "CLOSE_SOCKET" => j <= i
  BY <1>1 DEF ReqQueueOK, w
<1>3. CASE i \in 1 .. n /\ j \in 1 .. n
  BY <1>1, <1>3 DEF ReqQueueOK
<1>4. CASE i = n + 1 /\ j \in 1 .. n
  BY <1>1, <1>2, <1>4
<1>5. CASE i \in 1 .. n /\ j = n + 1
  BY <1>1, <1>2, <1>5
<1>6. CASE i = n + 1 /\ j = n + 1
  BY <1>1, <1>6
<1> QED  BY <1>1, <1>3, <1>4, <1>5, <1>6

(* A request that is taken was the only one of its type, the closing one the last of all. *)
LEMMA ReqQueueTail ==
  ASSUME NEW q \in Seq(RequestType), q # <<>>, ReqQueueOK(q)
  PROVE  /\ ReqQueueOK(Tail(q))
         /\ Head(q).sock # NoSock =>
              /\ Head(q).type \notin TypesIn(Tail(q), Head(q).sock)
              /\ Head(q).type = "CLOSE_SOCKET" => TypesIn(Tail(q), Head(q).sock) = {}
<1> DEFINE w == Tail(q)
           n == Len(w)
<1>1. n \in Nat /\ DOMAIN q = 1 .. n + 1 /\ DOMAIN w = 1 .. n /\ Head(q) = q[1]
      /\ \A i \in 1 .. n : w[i] = q[i + 1]
  OBVIOUS
<1> HIDE DEF w, n
<1>2. ReqQueueOK(w)
  <2> SUFFICES ASSUME NEW i \in 1 .. n, NEW j \in 1 .. n, w[i].sock = w[j].sock, w[i].sock # NoSock
               PROVE  /\ w[i].type = w[j].type => i = j
                      /\ w[i].type = "CLOSE_SOCKET" => j <= i
    BY <1>1 DEF ReqQueueOK
  <2>1. i + 1 \in 1 .. n + 1 /\ j + 1 \in 1 .. n + 1 /\ w[i] = q[i + 1] /\ w[j] = q[j + 1]
    BY <1>1
  <2>2. /\ q[i + 1].type = q[j + 1].type => i + 1 = j + 1
        /\ q[i + 1].type = "CLOSE_SOCKET" => j + 1 <= i + 1
    BY <1>1, <2>1 DEF ReqQueueOK
  <2> QED  BY <1>1, <2>1, <2>2
<1>3. ASSUME Head(q).sock # NoSock, NEW i \in 1 .. n, w[i].sock = Head(q).sock
      PROVE  w[i].type # Head(q).type /\ Head(q).type # "CLOSE_SOCKET"
  <2>1. 1 \in 1 .. n + 1 /\ i + 1 \in 1 .. n + 1 /\ w[i] = q[i + 1]
    BY <1>1
  <2>2. /\ q[1].type = q[i + 1].type => 1 = i + 1
        /\ q[1].type = "CLOSE_SOCKET" => i + 1 <= 1
    BY <1>1, <1>3, <2>1 DEF ReqQueueOK
  <2> QED  BY <1>1, <2>1, <2>2
<1> QED  BY <1>1, <1>2, <1>3 DEF TypesIn, w

(* An event may be pushed when no end is queued, and it is not queued itself. *)
LEMMA EvtQueueAppend ==
  ASSUME NEW q \in Seq(EventType), NEW e \in EventType, EvtQueueOK(q),
         e.sock # NoSock => /\ e.type = "DATA" \/ e.type \notin TypesIn(q, e.sock)
                            /\ TypesIn(q, e.sock) \cap TerminalEvents = {}
  PROVE  EvtQueueOK(Append(q, e))
<1> DEFINE w == Append(q, e)
           n == Len(q)
<1>1. n \in Nat /\ DOMAIN q = 1 .. n /\ DOMAIN w = 1 .. n + 1 /\ w[n + 1] = e
      /\ \A i \in 1 .. n : w[i] = q[i]
  OBVIOUS
<1> HIDE DEF w, n
<1>2. \A i \in 1 .. n : q[i].type \in TypesIn(q, q[i].sock)
  BY <1>1, TypesEntry
<1> SUFFICES ASSUME NEW i \in 1 .. n + 1, NEW j \in 1 .. n + 1, w[i].sock = w[j].sock, w[i].sock # NoSock
             PROVE  /\ w[i].type = w[j].type /\ w[i].type # "DATA" => i = j
                    /\ w[i].type \in TerminalEvents => j <= i
  BY <1>1 DEF EvtQueueOK, w
<1>3. CASE i \in 1 .. n /\ j \in 1 .. n
  BY <1>1, <1>3 DEF EvtQueueOK
<1>4. CASE i = n + 1 /\ j \in 1 .. n
  BY <1>1, <1>2, <1>4
<1>5. CASE i \in 1 .. n /\ j = n + 1
  BY <1>1, <1>2, <1>5
<1>6. CASE i = n + 1 /\ j = n + 1
  BY <1>1, <1>6
<1> QED  BY <1>1, <1>3, <1>4, <1>5, <1>6

(* An event that is taken was the only one of its type, unless it is data; an end was the last. *)
LEMMA EvtQueueTail ==
  ASSUME NEW q \in Seq(EventType), q # <<>>, EvtQueueOK(q)
  PROVE  /\ EvtQueueOK(Tail(q))
         /\ Head(q).sock # NoSock =>
              /\ Head(q).type # "DATA" => Head(q).type \notin TypesIn(Tail(q), Head(q).sock)
              /\ Head(q).type \in TerminalEvents => TypesIn(Tail(q), Head(q).sock) = {}
<1> DEFINE w == Tail(q)
           n == Len(w)
<1>1. n \in Nat /\ DOMAIN q = 1 .. n + 1 /\ DOMAIN w = 1 .. n /\ Head(q) = q[1]
      /\ \A i \in 1 .. n : w[i] = q[i + 1]
  OBVIOUS
<1> HIDE DEF w, n
<1>2. EvtQueueOK(w)
  <2> SUFFICES ASSUME NEW i \in 1 .. n, NEW j \in 1 .. n, w[i].sock = w[j].sock, w[i].sock # NoSock
               PROVE  /\ w[i].type = w[j].type /\ w[i].type # "DATA" => i = j
                      /\ w[i].type \in TerminalEvents => j <= i
    BY <1>1 DEF EvtQueueOK
  <2>1. i + 1 \in 1 .. n + 1 /\ j + 1 \in 1 .. n + 1 /\ w[i] = q[i + 1] /\ w[j] = q[j + 1]
    BY <1>1
  <2>2. /\ q[i + 1].type = q[j + 1].type /\ q[i + 1].type # "DATA" => i + 1 = j + 1
        /\ q[i + 1].type \in TerminalEvents => j + 1 <= i + 1
    BY <1>1, <2>1 DEF EvtQueueOK
  <2> QED  BY <1>1, <2>1, <2>2
<1>3. ASSUME Head(q).sock # NoSock, NEW i \in 1 .. n, w[i].sock = Head(q).sock
      PROVE  /\ Head(q).type # "DATA" => w[i].type # Head(q).type
             /\ Head(q).type \notin TerminalEvents
  <2>1. 1 \in 1 .. n + 1 /\ i + 1 \in 1 .. n + 1 /\ w[i] = q[i + 1]
    BY <1>1
  <2>2. /\ q[1].type = q[i + 1].type /\ q[1].type # "DATA" => 1 = i + 1
        /\ q[1].type \in TerminalEvents => i + 1 <= 1
    BY <1>1, <1>3, <2>1 DEF EvtQueueOK
  <2> QED  BY <1>1, <2>1, <2>2
<1> QED  BY <1>1, <1>2, <1>3 DEF TypesIn, w
-----------------------------------------------------------------------------
(* A step that leaves every session on its thread, and frees a slot only when nothing is queued. *)
HomesKept ==
  \A x \in Sockets \ pool :
    /\ sock'[x].proc = sock[x].proc
    /\ x \in pool' => ReqsOf(x) = {} /\ EvtsOf(x) = {} /\ IoOf(x) = "none"

InUseNext(x, p) == x \in Sockets => x \notin pool' /\ sock'[x].proc = p

(* A session something refers to stays in use. *)
LEMMA InUseKept ==
  ASSUME HomesKept, NEW x, NEW p, InUseBy(x, p),
         x \in Sockets => ReqsOf(x) # {} \/ EvtsOf(x) # {} \/ IoOf(x) # "none"
  PROVE  InUseNext(x, p)
BY DEF HomesKept, InUseBy, InUseNext

(* Nothing queued names a slot of the pool. *)
LEMMA PoolUnqueued ==
  ASSUME ReqsInv, EvtsInv, NEW p \in Procs, NEW s \in pool, s \in Sockets
  PROVE  TypesIn(list_net_req[p], s) = {} /\ TypesIn(list_net_evt[p], s) = {}
<1>1. \A i \in DOMAIN list_net_req[p] : list_net_req[p][i].sock # s
  BY DEF ReqsInv, ReqsHome, InUseBy
<1>2. \A i \in DOMAIN list_net_evt[p] : list_net_evt[p][i].sock # s
  BY DEF EvtsInv, EvtsHome, InUseBy
<1> QED  BY <1>1, <1>2 DEF TypesIn

(* The slot an entry names is in use, and the entry shows in its view. *)
LEMMA ReqEntry ==
  ASSUME ReqsInv, NEW p \in Procs, NEW i \in DOMAIN list_net_req[p], list_net_req[p][i].sock \in Sockets
  PROVE  list_net_req[p][i].type \in ReqsOf(list_net_req[p][i].sock)
<1>1. sock[list_net_req[p][i].sock].proc = p
  BY DEF ReqsInv, ReqsHome, InUseBy
<1> QED  BY <1>1, TypesEntry DEF ReqsOf

(* The same of an event: it counts among those of the session it names. *)
LEMMA EvtEntry ==
  ASSUME EvtsInv, NEW p \in Procs, NEW i \in DOMAIN list_net_evt[p], list_net_evt[p][i].sock \in Sockets
  PROVE  list_net_evt[p][i].type \in EvtsOf(list_net_evt[p][i].sock)
<1>1. sock[list_net_evt[p][i].sock].proc = p
  BY DEF EvtsInv, EvtsHome, InUseBy
<1> QED  BY <1>1, TypesEntry DEF EvtsOf

(* The requests, when the step does not touch them ... *)
LEMMA ReqsKept ==
  ASSUME ReqsInv, HomesKept, list_net_req' = list_net_req
  PROVE  /\ ReqsInv'
         /\ \A x \in Sockets \ pool : ReqsOf(x)' = ReqsOf(x)
<1>1. ASSUME NEW p \in Procs, NEW i \in DOMAIN list_net_req[p]
      PROVE  InUseNext(list_net_req[p][i].sock, p)
  <2>1. InUseBy(list_net_req[p][i].sock, p)
    BY DEF ReqsInv, ReqsHome
  <2>2. list_net_req[p][i].sock \in Sockets => ReqsOf(list_net_req[p][i].sock) # {}
    BY ReqEntry
  <2> QED  BY <2>1, <2>2, InUseKept
<1>2. ReqsInv'
  BY <1>1 DEF ReqsInv, ReqsHome, InUseNext, InUseBy
<1> QED  BY <1>2 DEF ReqsOf, HomesKept

(* ... when the io thread takes one ... *)
LEMMA ReqTaken ==
  ASSUME TypeOK, ReqsInv, HomesKept, NEW p \in Procs, NEW type, TakeReq(p, type),
         NEW s, s = Head(list_net_req[p]).sock
  PROVE  /\ ReqsInv'
         /\ s \in Sockets =>
              /\ s \notin pool /\ s \notin pool' /\ sock[s].proc = p
              /\ type \in ReqsOf(s) /\ ReqsOf(s)' = ReqsOf(s) \ {type}
              /\ type = "CLOSE_SOCKET" => ReqsOf(s)' = {}
         /\ type # "ACCEPT_FAIL" => s \in Sockets
         /\ \A x \in Sockets \ pool : sock[x].proc \in Procs /\ x # s => ReqsOf(x)' = ReqsOf(x)
<1> DEFINE q == list_net_req[p]
<1>1. q \in Seq(RequestType) /\ q # <<>> /\ Head(q).type = type /\ ReqQueueOK(q)
  BY DEF TypeOK, TakeReq, ReqsInv
<1>2. list_net_req' = [list_net_req EXCEPT ![p] = Tail(q)] /\ list_net_req \in [Procs -> Seq(RequestType)]
  BY DEF TypeOK, TakeReq
<1>3. 1 \in DOMAIN q /\ Head(q) = q[1] /\ s \in Sockets \cup {NoSock}
  <2>1. Head(q) \in RequestType /\ 1 \in DOMAIN q /\ Head(q) = q[1]
    BY <1>1
  <2> QED  BY <2>1 DEF RequestType
<1>4. InUseBy(s, p) /\ (s = NoSock <=> type = "ACCEPT_FAIL")
  BY <1>1, <1>3 DEF ReqsInv, ReqsHome
<1>5. type # "ACCEPT_FAIL" => s \in Sockets
  BY <1>3, <1>4
<1>6. ReqsInv'
  <2>1. ASSUME NEW pp \in Procs, NEW i \in DOMAIN list_net_req'[pp]
        PROVE  \E j \in DOMAIN list_net_req[pp] : list_net_req'[pp][i] = list_net_req[pp][j]
    <3>1. CASE pp = p
      <4> DEFINE w == Tail(q)
      <4>1. \A k \in DOMAIN w : k + 1 \in DOMAIN q /\ w[k] = q[k + 1]
        BY <1>1
      <4>2. list_net_req'[pp] = w
        BY <1>2, <3>1
      <4> HIDE DEF w
      <4> QED  BY <2>1, <3>1, <4>1, <4>2
    <3>2. CASE pp # p
      BY <1>2, <2>1, <3>2
    <3> QED  BY <3>1, <3>2
  <2>2. ASSUME NEW pp \in Procs, NEW j \in DOMAIN list_net_req[pp]
        PROVE  /\ InUseNext(list_net_req[pp][j].sock, pp)
               /\ list_net_req[pp][j].sock = NoSock <=> list_net_req[pp][j].type = "ACCEPT_FAIL"
    <3>1. InUseBy(list_net_req[pp][j].sock, pp)
      BY DEF ReqsInv, ReqsHome
    <3>2. list_net_req[pp][j].sock \in Sockets => ReqsOf(list_net_req[pp][j].sock) # {}
      BY ReqEntry
    <3>3. list_net_req[pp][j].sock = NoSock <=> list_net_req[pp][j].type = "ACCEPT_FAIL"
      BY DEF ReqsInv, ReqsHome
    <3> QED  BY <3>1, <3>2, <3>3, InUseKept
  <2>3. ReqsHome'
    <3>1. ASSUME NEW pp \in Procs, NEW i \in DOMAIN list_net_req'[pp]
          PROVE  /\ InUseNext(list_net_req'[pp][i].sock, pp)
                 /\ list_net_req'[pp][i].sock = NoSock <=> list_net_req'[pp][i].type = "ACCEPT_FAIL"
      <4>1. PICK j \in DOMAIN list_net_req[pp] : list_net_req'[pp][i] = list_net_req[pp][j]
        BY <2>1, <3>1
      <4> QED  BY <2>2, <4>1
    <3> QED  BY <3>1 DEF ReqsHome, InUseNext, InUseBy
  <2>4. ReqQueueOK(Tail(q))
    BY <1>1, ReqQueueTail
  <2>5. \A pp \in Procs : ReqQueueOK(list_net_req'[pp])
    BY <1>2, <2>4 DEF ReqsInv
  <2> QED  BY <2>3, <2>5 DEF ReqsInv
<1>7. ASSUME s \in Sockets
      PROVE  /\ s \notin pool /\ s \notin pool' /\ sock[s].proc = p
             /\ type \in ReqsOf(s) /\ ReqsOf(s)' = ReqsOf(s) \ {type}
             /\ type = "CLOSE_SOCKET" => ReqsOf(s)' = {}
  <2>1. s \notin pool /\ sock[s].proc = p /\ s # NoSock
    BY <1>4, <1>7, ConstantsAssumption DEF InUseBy
  <2>2. ReqsOf(s) = TypesIn(q, s)
    BY <2>1 DEF ReqsOf
  <2>3. /\ type \in TypesIn(q, s) /\ TypesIn(q, s) = TypesIn(Tail(q), s) \cup {type}
    BY <1>1, TypesTail
  <2>4. s \notin pool' /\ sock'[s].proc = p
    BY <2>1, <2>2, <2>3, <1>7 DEF HomesKept
  <2>5. ReqsOf(s)' = TypesIn(Tail(q), s)
    BY <1>2, <2>4 DEF ReqsOf
  <2>6. type \notin TypesIn(Tail(q), s) /\ (type = "CLOSE_SOCKET" => TypesIn(Tail(q), s) = {})
    BY <1>1, <2>1, ReqQueueTail
  <2> QED  BY <2>1, <2>2, <2>3, <2>4, <2>5, <2>6
<1>8. ASSUME NEW x \in Sockets \ pool, sock[x].proc \in Procs, x # s
      PROVE  ReqsOf(x)' = ReqsOf(x)
  <2>1. sock'[x].proc = sock[x].proc
    BY DEF HomesKept
  <2>2. TypesIn(Tail(q), x) = TypesIn(q, x)
    BY <1>1, <1>8, TypesTail
  <2> QED  BY <1>2, <1>8, <2>1, <2>2 DEF ReqsOf
<1> QED  BY <1>5, <1>6, <1>7, <1>8

(* ... and when the main thread pushes one, for a session in use or for none. *)
LEMMA ReqPushed ==
  ASSUME TypeOK, ReqsInv, HomesKept, NEW p \in Procs, NEW r \in RequestType,
         list_net_req' = [list_net_req EXCEPT ![p] = Append(@, r)],
         r.sock = NoSock <=> r.type = "ACCEPT_FAIL",
         r.sock \in Sockets =>
           /\ r.sock \notin pool' /\ sock'[r.sock].proc = p
           /\ r.type \notin TypesIn(list_net_req[p], r.sock)
           /\ "CLOSE_SOCKET" \notin TypesIn(list_net_req[p], r.sock)
  PROVE  /\ ReqsInv'
         /\ r.sock \in Sockets => ReqsOf(r.sock)' = TypesIn(list_net_req[p], r.sock) \cup {r.type}
         /\ \A x \in Sockets \ pool : sock[x].proc \in Procs /\ x # r.sock => ReqsOf(x)' = ReqsOf(x)
<1> DEFINE q == list_net_req[p]
           w == Append(q, r)
<1>1. q \in Seq(RequestType) /\ ReqQueueOK(q) /\ (r.sock # NoSock => r.sock \in Sockets)
  BY DEF TypeOK, ReqsInv, RequestType
<1>2. list_net_req' = [list_net_req EXCEPT ![p] = w] /\ list_net_req \in [Procs -> Seq(RequestType)]
  BY DEF TypeOK
<1>3. \A i \in DOMAIN w : w[i] = r \/ (i \in DOMAIN q /\ w[i] = q[i])
  BY <1>1
<1>4. ReqQueueOK(w)
  BY <1>1, ReqQueueAppend
<1>5. \A x : TypesIn(w, x) = TypesIn(q, x) \cup (IF r.sock = x THEN {r.type} ELSE {})
  BY <1>1, TypesAppend
<1> HIDE DEF w
<1>6. ReqsHome'
  <2>1. ASSUME NEW pp \in Procs, NEW i \in DOMAIN list_net_req[pp]
        PROVE  /\ InUseNext(list_net_req[pp][i].sock, pp)
               /\ list_net_req[pp][i].sock = NoSock <=> list_net_req[pp][i].type = "ACCEPT_FAIL"
    <3>1. InUseBy(list_net_req[pp][i].sock, pp)
      BY DEF ReqsInv, ReqsHome
    <3>2. list_net_req[pp][i].sock \in Sockets => ReqsOf(list_net_req[pp][i].sock) # {}
      BY ReqEntry
    <3>3. list_net_req[pp][i].sock = NoSock <=> list_net_req[pp][i].type = "ACCEPT_FAIL"
      BY DEF ReqsInv, ReqsHome
    <3> QED  BY <3>1, <3>2, <3>3, InUseKept
  <2>2. InUseNext(r.sock, p)
    BY DEF InUseNext
  <2>3. ASSUME NEW pp \in Procs, NEW i \in DOMAIN list_net_req'[pp]
        PROVE  /\ InUseNext(list_net_req'[pp][i].sock, pp)
               /\ list_net_req'[pp][i].sock = NoSock <=> list_net_req'[pp][i].type = "ACCEPT_FAIL"
    <3>1. CASE pp = p
      <4>1. list_net_req'[pp] = w
        BY <1>2, <3>1
      <4>2. w[i] = r \/ (i \in DOMAIN q /\ w[i] = q[i])
        BY <1>3, <2>3, <4>1
      <4> QED  BY <2>1, <2>2, <3>1, <4>1, <4>2
    <3>2. CASE pp # p
      BY <1>2, <2>1, <2>3, <3>2
    <3> QED  BY <3>1, <3>2
  <2> QED  BY <2>3 DEF ReqsHome, InUseNext, InUseBy
<1>7. ReqsInv'
  BY <1>2, <1>4, <1>6 DEF ReqsInv
<1>8. ASSUME r.sock \in Sockets
      PROVE  ReqsOf(r.sock)' = TypesIn(q, r.sock) \cup {r.type}
  <2>1. list_net_req'[sock'[r.sock].proc] = w
    BY <1>2, <1>8
  <2>2. TypesIn(w, r.sock) = TypesIn(q, r.sock) \cup {r.type}
    BY <1>5
  <2> QED  BY <2>1, <2>2 DEF ReqsOf
<1>9. ASSUME NEW x \in Sockets \ pool, sock[x].proc \in Procs, x # r.sock
      PROVE  ReqsOf(x)' = ReqsOf(x)
  <2>1. sock'[x].proc = sock[x].proc
    BY DEF HomesKept
  <2>2. TypesIn(w, x) = TypesIn(q, x)
    BY <1>5, <1>9
  <2> QED  BY <1>2, <1>9, <2>1, <2>2 DEF ReqsOf
<1> QED  BY <1>7, <1>8, <1>9
(* The same for the events, when the step does not touch them ... *)
LEMMA EvtsKept ==
  ASSUME EvtsInv, HomesKept, list_net_evt' = list_net_evt
  PROVE  /\ EvtsInv'
         /\ \A x \in Sockets \ pool : EvtsOf(x)' = EvtsOf(x)
<1>1. ASSUME NEW p \in Procs, NEW i \in DOMAIN list_net_evt[p]
      PROVE  InUseNext(list_net_evt[p][i].sock, p)
  <2>1. InUseBy(list_net_evt[p][i].sock, p)
    BY DEF EvtsInv, EvtsHome
  <2>2. list_net_evt[p][i].sock \in Sockets => EvtsOf(list_net_evt[p][i].sock) # {}
    BY EvtEntry
  <2> QED  BY <2>1, <2>2, InUseKept
<1>2. EvtsInv'
  BY <1>1 DEF EvtsInv, EvtsHome, InUseNext, InUseBy
<1> QED  BY <1>2 DEF EvtsOf, HomesKept

(* ... when the main thread takes one ... *)
LEMMA EvtTaken ==
  ASSUME TypeOK, EvtsInv, HomesKept, NEW p \in Procs, NEW types, TakeEvt(p, types),
         NEW type, type = Head(list_net_evt[p]).type,
         NEW s, s = Head(list_net_evt[p]).sock
  PROVE  /\ EvtsInv'
         /\ s \in Sockets =>
              /\ s \notin pool /\ s \notin pool' /\ sock[s].proc = p
              /\ type \in EvtsOf(s) /\ EvtsOf(s) = EvtsOf(s)' \cup {type}
              /\ type # "DATA" => EvtsOf(s)' = EvtsOf(s) \ {type}
              /\ type \in TerminalEvents => EvtsOf(s)' = {}
         /\ type # "ACCEPT" => s \in Sockets
         /\ type \in types
         /\ \A x \in Sockets \ pool : sock[x].proc \in Procs /\ x # s => EvtsOf(x)' = EvtsOf(x)
<1> DEFINE q == list_net_evt[p]
<1>1. q \in Seq(EventType) /\ q # <<>> /\ Head(q).type = type /\ EvtQueueOK(q)
  BY DEF TypeOK, TakeEvt, EvtsInv
<1>2. list_net_evt' = [list_net_evt EXCEPT ![p] = Tail(q)] /\ list_net_evt \in [Procs -> Seq(EventType)]
  BY DEF TypeOK, TakeEvt
<1>3. 1 \in DOMAIN q /\ Head(q) = q[1] /\ s \in Sockets \cup {NoSock}
  <2>1. Head(q) \in EventType /\ 1 \in DOMAIN q /\ Head(q) = q[1]
    BY <1>1
  <2> QED  BY <2>1 DEF EventType
<1>4. InUseBy(s, p) /\ (s = NoSock <=> type = "ACCEPT")
  BY <1>1, <1>3 DEF EvtsInv, EvtsHome
<1>5. type # "ACCEPT" => s \in Sockets
  BY <1>3, <1>4
<1>6. EvtsInv'
  <2>1. ASSUME NEW pp \in Procs, NEW i \in DOMAIN list_net_evt'[pp]
        PROVE  \E j \in DOMAIN list_net_evt[pp] : list_net_evt'[pp][i] = list_net_evt[pp][j]
    <3>1. CASE pp = p
      <4> DEFINE w == Tail(q)
      <4>1. \A k \in DOMAIN w : k + 1 \in DOMAIN q /\ w[k] = q[k + 1]
        BY <1>1
      <4>2. list_net_evt'[pp] = w
        BY <1>2, <3>1
      <4> HIDE DEF w
      <4> QED  BY <2>1, <3>1, <4>1, <4>2
    <3>2. CASE pp # p
      BY <1>2, <2>1, <3>2
    <3> QED  BY <3>1, <3>2
  <2>2. ASSUME NEW pp \in Procs, NEW j \in DOMAIN list_net_evt[pp]
        PROVE  /\ InUseNext(list_net_evt[pp][j].sock, pp)
               /\ list_net_evt[pp][j].sock = NoSock <=> list_net_evt[pp][j].type = "ACCEPT"
               /\ list_net_evt[pp][j].type # "DATA" => list_net_evt[pp][j].len = 0
    <3>1. InUseBy(list_net_evt[pp][j].sock, pp)
      BY DEF EvtsInv, EvtsHome
    <3>2. list_net_evt[pp][j].sock \in Sockets => EvtsOf(list_net_evt[pp][j].sock) # {}
      BY EvtEntry
    <3>3. /\ list_net_evt[pp][j].sock = NoSock <=> list_net_evt[pp][j].type = "ACCEPT"
          /\ list_net_evt[pp][j].type # "DATA" => list_net_evt[pp][j].len = 0
      BY DEF EvtsInv, EvtsHome
    <3>4. InUseNext(list_net_evt[pp][j].sock, pp)
      BY <3>1, <3>2, InUseKept
    <3> QED  BY <3>3, <3>4
  <2>3. EvtsHome'
    <3>1. ASSUME NEW pp \in Procs, NEW i \in DOMAIN list_net_evt'[pp]
          PROVE  /\ InUseNext(list_net_evt'[pp][i].sock, pp)
                 /\ list_net_evt'[pp][i].sock = NoSock <=> list_net_evt'[pp][i].type = "ACCEPT"
                 /\ list_net_evt'[pp][i].type # "DATA" => list_net_evt'[pp][i].len = 0
      <4>1. PICK j \in DOMAIN list_net_evt[pp] : list_net_evt'[pp][i] = list_net_evt[pp][j]
        BY <2>1, <3>1
      <4> QED  BY <2>2, <4>1
    <3> QED  BY <3>1 DEF EvtsHome, InUseNext, InUseBy
  <2>4. EvtQueueOK(Tail(q))
    BY <1>1, EvtQueueTail
  <2>5. \A pp \in Procs : EvtQueueOK(list_net_evt'[pp])
    BY <1>2, <2>4 DEF EvtsInv
  <2> QED  BY <2>3, <2>5 DEF EvtsInv
<1>7. ASSUME s \in Sockets
      PROVE  /\ s \notin pool /\ s \notin pool' /\ sock[s].proc = p
             /\ type \in EvtsOf(s) /\ EvtsOf(s) = EvtsOf(s)' \cup {type}
             /\ type # "DATA" => EvtsOf(s)' = EvtsOf(s) \ {type}
             /\ type \in TerminalEvents => EvtsOf(s)' = {}
  <2>1. s \notin pool /\ sock[s].proc = p /\ s # NoSock
    BY <1>4, <1>7, ConstantsAssumption DEF InUseBy
  <2>2. EvtsOf(s) = TypesIn(q, s)
    BY <2>1 DEF EvtsOf
  <2>3. /\ type \in TypesIn(q, s) /\ TypesIn(q, s) = TypesIn(Tail(q), s) \cup {type}
    BY <1>1, TypesTail, SMTT(60)
  <2>4. s \notin pool' /\ sock'[s].proc = p
    BY <2>1, <2>2, <2>3, <1>7 DEF HomesKept
  <2>5. EvtsOf(s)' = TypesIn(Tail(q), s)
    BY <1>2, <2>4 DEF EvtsOf
  <2>6. /\ type # "DATA" => type \notin TypesIn(Tail(q), s)
        /\ type \in TerminalEvents => TypesIn(Tail(q), s) = {}
    BY <1>1, <2>1, EvtQueueTail
  <2> QED  BY <2>1, <2>2, <2>3, <2>4, <2>5, <2>6
<1>8. ASSUME NEW x \in Sockets \ pool, sock[x].proc \in Procs, x # s
      PROVE  EvtsOf(x)' = EvtsOf(x)
  <2>1. sock'[x].proc = sock[x].proc
    BY DEF HomesKept
  <2>2. TypesIn(Tail(q), x) = TypesIn(q, x)
    BY <1>1, <1>8, TypesTail
  <2> QED  BY <1>2, <1>8, <2>1, <2>2 DEF EvtsOf
<1>9. type \in types
  BY DEF TakeEvt
<1> QED  BY <1>5, <1>6, <1>7, <1>8, <1>9

(* ... and when the io thread pushes one, for a session in use or for none. *)
LEMMA EvtPushed ==
  ASSUME TypeOK, EvtsInv, HomesKept, NEW p \in Procs, NEW e \in EventType,
         list_net_evt' = [list_net_evt EXCEPT ![p] = Append(@, e)],
         e.sock = NoSock <=> e.type = "ACCEPT", e.type # "DATA" => e.len = 0,
         e.sock \in Sockets =>
           /\ e.sock \notin pool' /\ sock'[e.sock].proc = p
           /\ e.type = "DATA" \/ e.type \notin TypesIn(list_net_evt[p], e.sock)
           /\ TypesIn(list_net_evt[p], e.sock) \cap TerminalEvents = {}
  PROVE  /\ EvtsInv'
         /\ e.sock \in Sockets => EvtsOf(e.sock)' = TypesIn(list_net_evt[p], e.sock) \cup {e.type}
         /\ \A x \in Sockets \ pool : sock[x].proc \in Procs /\ x # e.sock => EvtsOf(x)' = EvtsOf(x)
<1> DEFINE q == list_net_evt[p]
           w == Append(q, e)
<1>1. q \in Seq(EventType) /\ EvtQueueOK(q) /\ (e.sock # NoSock => e.sock \in Sockets)
  BY DEF TypeOK, EvtsInv, EventType
<1>2. list_net_evt' = [list_net_evt EXCEPT ![p] = w] /\ list_net_evt \in [Procs -> Seq(EventType)]
  BY DEF TypeOK
<1>3. \A i \in DOMAIN w : w[i] = e \/ (i \in DOMAIN q /\ w[i] = q[i])
  BY <1>1
<1>4. EvtQueueOK(w)
  BY <1>1, EvtQueueAppend
<1>5. \A x : TypesIn(w, x) = TypesIn(q, x) \cup (IF e.sock = x THEN {e.type} ELSE {})
  BY <1>1, TypesAppend
<1> HIDE DEF w
<1>6. EvtsHome'
  <2>1. ASSUME NEW pp \in Procs, NEW i \in DOMAIN list_net_evt[pp]
        PROVE  /\ InUseNext(list_net_evt[pp][i].sock, pp)
               /\ list_net_evt[pp][i].sock = NoSock <=> list_net_evt[pp][i].type = "ACCEPT"
               /\ list_net_evt[pp][i].type # "DATA" => list_net_evt[pp][i].len = 0
    <3>1. InUseBy(list_net_evt[pp][i].sock, pp)
      BY DEF EvtsInv, EvtsHome
    <3>2. list_net_evt[pp][i].sock \in Sockets => EvtsOf(list_net_evt[pp][i].sock) # {}
      BY EvtEntry
    <3>3. /\ list_net_evt[pp][i].sock = NoSock <=> list_net_evt[pp][i].type = "ACCEPT"
          /\ list_net_evt[pp][i].type # "DATA" => list_net_evt[pp][i].len = 0
      BY DEF EvtsInv, EvtsHome
    <3>4. InUseNext(list_net_evt[pp][i].sock, pp)
      BY <3>1, <3>2, InUseKept
    <3> QED  BY <3>3, <3>4
  <2>2. InUseNext(e.sock, p)
    BY DEF InUseNext
  <2>3. ASSUME NEW pp \in Procs, NEW i \in DOMAIN list_net_evt'[pp]
        PROVE  /\ InUseNext(list_net_evt'[pp][i].sock, pp)
               /\ list_net_evt'[pp][i].sock = NoSock <=> list_net_evt'[pp][i].type = "ACCEPT"
               /\ list_net_evt'[pp][i].type # "DATA" => list_net_evt'[pp][i].len = 0
    <3>1. CASE pp = p
      <4>1. list_net_evt'[pp] = w
        BY <1>2, <3>1
      <4>2. w[i] = e \/ (i \in DOMAIN q /\ w[i] = q[i])
        BY <1>3, <2>3, <4>1
      <4> QED  BY <2>1, <2>2, <3>1, <4>1, <4>2
    <3>2. CASE pp # p
      BY <1>2, <2>1, <2>3, <3>2
    <3> QED  BY <3>1, <3>2
  <2> QED  BY <2>3 DEF EvtsHome, InUseNext, InUseBy
<1>7. EvtsInv'
  BY <1>2, <1>4, <1>6 DEF EvtsInv
<1>8. ASSUME e.sock \in Sockets
      PROVE  EvtsOf(e.sock)' = TypesIn(q, e.sock) \cup {e.type}
  <2>1. list_net_evt'[sock'[e.sock].proc] = w
    BY <1>2, <1>8
  <2>2. TypesIn(w, e.sock) = TypesIn(q, e.sock) \cup {e.type}
    BY <1>5
  <2> QED  BY <2>1, <2>2 DEF EvtsOf
<1>9. ASSUME NEW x \in Sockets \ pool, sock[x].proc \in Procs, x # e.sock
      PROVE  EvtsOf(x)' = EvtsOf(x)
  <2>1. sock'[x].proc = sock[x].proc
    BY DEF HomesKept
  <2>2. TypesIn(w, x) = TypesIn(q, x)
    BY <1>5, <1>9
  <2> QED  BY <1>2, <1>9, <2>1, <2>2 DEF EvtsOf
<1> QED  BY <1>7, <1>8, <1>9

(* The io threads, when the step does not move one ... *)
LEMMA IoKept ==
  ASSUME TypeOK, IoHome, HomesKept, io' = io
  PROVE  /\ IoHome'
         /\ \A x \in Sockets \ pool : IoOf(x)' = IoOf(x)
<1>1. ASSUME NEW p \in Procs
      PROVE  InUseNext(io[p].sock, p)
  <2>1. InUseBy(io[p].sock, p) /\ (io[p].sock \in Sockets => io[p].at # "idle")
    BY ConstantsAssumption DEF IoHome
  <2>2. io[p].sock \in Sockets => IoOf(io[p].sock) = io[p].at
    BY <2>1 DEF IoOf, InUseBy
  <2>3. io[p].at # "none"
    <3>1. io[p] \in IoType
      BY DEF TypeOK
    <3> QED  BY <3>1 DEF IoType, IoLabels
  <2> QED  BY <2>1, <2>2, <2>3, ConstantsAssumption DEF InUseNext, InUseBy, HomesKept, IoHome
<1> QED  BY <1>1 DEF IoHome, InUseNext, InUseBy, IoOf, HomesKept

(* ... and when it moves one, within one session: into its handler, on in it, or out of it. *)
LEMMA IoMoved ==
  ASSUME TypeOK, IoHome, HomesKept, NEW p \in Procs, NEW r, io' = [io EXCEPT ![p] = r],
         NEW s \in Sockets, s \notin pool, s \notin pool', sock[s].proc = p,
         io[p].sock \in {s, NoSock}, r.sock \in {s, NoSock},
         r.at = "idle" <=> r.sock = NoSock, r.at \notin Receiving => r.got = 0
  PROVE  /\ IoHome'
         /\ IoOf(s)' = IF r.sock = s THEN r.at ELSE "none"
         /\ \A x \in Sockets \ pool : x # s /\ sock[x].proc \in Procs => IoOf(x)' = IoOf(x)
<1>1. io \in [Procs -> IoType] /\ s # NoSock /\ sock'[s].proc = p
  BY ConstantsAssumption DEF TypeOK, HomesKept
<1>2. ASSUME NEW pp \in Procs, pp # p
      PROVE  InUseNext(io[pp].sock, pp)
  <2>1. InUseBy(io[pp].sock, pp) /\ (io[pp].sock \in Sockets => io[pp].at # "idle")
    BY ConstantsAssumption DEF IoHome
  <2>2. io[pp].sock \in Sockets => IoOf(io[pp].sock) = io[pp].at
    BY <2>1 DEF IoOf, InUseBy
  <2>3. io[pp].at # "none"
    <3>1. io[pp] \in IoType
      BY <1>1
    <3> QED  BY <3>1 DEF IoType, IoLabels
  <2> QED  BY <2>1, <2>2, <2>3 DEF InUseNext, InUseBy, HomesKept
<1>3. InUseNext(r.sock, p)
  BY <1>1, ConstantsAssumption DEF InUseNext
<1>4. IoHome'
  <2>1. io'[p] = r /\ \A pp \in Procs : pp # p => io'[pp] = io[pp]
    BY <1>1
  <2> QED  BY <1>2, <1>3, <2>1 DEF IoHome, InUseNext, InUseBy
<1>5. IoOf(s)' = IF r.sock = s THEN r.at ELSE "none"
  BY <1>1 DEF IoOf
<1>6. ASSUME NEW x \in Sockets \ pool, x # s, sock[x].proc \in Procs
      PROVE  IoOf(x)' = IoOf(x)
  <2>1. sock'[x].proc = sock[x].proc /\ x # NoSock
    BY ConstantsAssumption DEF HomesKept
  <2> QED  BY <1>1, <1>6, <2>1 DEF IoOf
<1> QED  BY <1>4, <1>5, <1>6

(* The moves of an io thread inside the handler of s. *)
LEMMA IoEntered ==
  ASSUME TypeOK, IoHome, HomesKept, NEW p \in Procs, NEW label \in {"send", "recv", "dispatch"},
         NEW from, NEW todo, NEW s \in Sockets, s \notin pool, s \notin pool', sock[s].proc = p,
         io[p].sock \in {s, NoSock}, Enter(p, label, from, s, todo)
  PROVE  /\ IoHome' /\ IoOf(s)' = label
         /\ \A x \in Sockets \ pool : x # s /\ sock[x].proc \in Procs => IoOf(x)' = IoOf(x)
<1> DEFINE r == [IoIdle EXCEPT !.at = label, !.from = from, !.sock = s, !.todo = todo]
<1>1. io' = [io EXCEPT ![p] = r]
  BY DEF Enter
<1>2. r.at = label /\ r.sock = s /\ r.got = 0 /\ s # NoSock /\ label # "idle"
  BY ConstantsAssumption DEF IoIdle
<1> HIDE DEF r
<1> QED  BY <1>1, <1>2, IoMoved

(* The view when an io thread goes on to another step with the session it has. *)
LEMMA IoWent ==
  ASSUME TypeOK, IoHome, HomesKept, NEW p \in Procs,
         NEW label \in {"send_loop", "send_done", "recv_loop", "recv_end"},
         NEW s \in Sockets, s \notin pool, s \notin pool', sock[s].proc = p, io[p].sock = s,
         label \in Receiving \/ io[p].at \notin Receiving, GoTo(p, label)
  PROVE  /\ IoHome' /\ IoOf(s)' = label
         /\ \A x \in Sockets \ pool : x # s /\ sock[x].proc \in Procs => IoOf(x)' = IoOf(x)
<1> DEFINE r == [io[p] EXCEPT !.at = label]
<1>1. io' = [io EXCEPT ![p] = r]
  BY DEF GoTo
<1>2. io[p] \in IoType
  BY DEF TypeOK
<1>3. r.at = label /\ r.sock = s /\ r.got = io[p].got /\ s # NoSock /\ label # "idle"
  BY <1>2, ConstantsAssumption DEF IoType
<1>4. r.at \notin Receiving => r.got = 0
  BY <1>3 DEF IoHome
<1> HIDE DEF r
<1> QED  BY <1>1, <1>3, <1>4, IoMoved

(* ... when it lets go of the session, *)
LEMMA IoIdled ==
  ASSUME TypeOK, IoHome, HomesKept, NEW p \in Procs,
         NEW s \in Sockets, s \notin pool, s \notin pool', sock[s].proc = p, io[p].sock = s,
         io' = [io EXCEPT ![p] = IoIdle]
  PROVE  /\ IoHome' /\ IoOf(s)' = "none"
         /\ \A x \in Sockets \ pool : x # s /\ sock[x].proc \in Procs => IoOf(x)' = IoOf(x)
<1> DEFINE r == IoIdle
<1>1. r.at = "idle" /\ r.sock = NoSock /\ r.got = 0 /\ s # NoSock
  BY ConstantsAssumption DEF IoIdle
<1>2. io' = [io EXCEPT ![p] = r]
  OBVIOUS
<1>3. /\ io[p].sock \in {s, NoSock} /\ r.sock \in {s, NoSock}
      /\ r.at = "idle" <=> r.sock = NoSock
      /\ r.at \notin Receiving => r.got = 0
  BY <1>1
<1> HIDE DEF r
<1>4. /\ IoHome' /\ IoOf(s)' = IF r.sock = s THEN r.at ELSE "none"
      /\ \A x \in Sockets \ pool : x # s /\ sock[x].proc \in Procs => IoOf(x)' = IoOf(x)
  BY <1>2, <1>3, IoMoved, ZenonT(60)
<1> QED  BY <1>1, <1>4

(* ... and when it ends a handler: what epoll_wait still reported of the session comes next. *)
LEMMA IoFinished ==
  ASSUME TypeOK, IoHome, HomesKept, NEW p \in Procs,
         NEW s \in Sockets, s \notin pool, s \notin pool', sock[s].proc = p, io[p].sock = s,
         Finish(p)
  PROVE  /\ IoHome' /\ IoOf(s)' \in {"none", "dispatch"}
         /\ \A x \in Sockets \ pool : x # s /\ sock[x].proc \in Procs => IoOf(x)' = IoOf(x)
<1>1. CASE io[p].todo = {}
  <2>1. io' = [io EXCEPT ![p] = IoIdle]
    BY <1>1 DEF Finish
  <2> QED  BY <2>1, IoIdled
<1>2. CASE io[p].todo # {}
  <2>1. Enter(p, "dispatch", io[p].from, s, io[p].todo)
    BY <1>2 DEF Finish
  <2> QED  BY <2>1, IoEntered
<1> QED  BY <1>1, <1>2
-----------------------------------------------------------------------------
(* A step within one session: the slots keep their owners, the other slots their contents. *)
Only(s) ==
  /\ pool' = pool /\ sock'[s].proc = sock[s].proc
  /\ \A x \in Sockets : x # s => sock'[x] = sock[x] /\ kern'[x] = kern[x] /\ cb'[x] = cb[x]

(* What it does to the queues and the threads is about that session. *)
ReqsStep(s) == ReqsInv' /\ \A x \in Sockets \ pool : x # s => ReqsOf(x)' = ReqsOf(x)
EvtsStep(s) == EvtsInv' /\ \A x \in Sockets \ pool : x # s => EvtsOf(x)' = EvtsOf(x)
IoStep(s)   == IoHome' /\ \A x \in Sockets \ pool : x # s => IoOf(x)' = IoOf(x)
MainStep(s) == MainHome' /\ \A x \in Sockets : x # s => MainOf(x)' = MainOf(x) /\ (main'.sock = x <=> main.sock = x)

(* A step on one session moves no other from its slot or its io thread. *)
LEMMA OnlyHomes == ASSUME NEW s \in Sockets, Only(s) PROVE HomesKept
BY DEF Only, HomesKept

(* What the invariant gives to nearly every step. *)
LEMMA Parts ==
  ASSUME TypeInv, SessInv
  PROVE  /\ TypeOK /\ ReqsInv /\ EvtsInv /\ IoHome /\ MainHome
         /\ \A x \in Sockets \ pool : sock[x].proc \in Procs
         /\ sock \in [Sockets -> SockType] /\ kern \in [Sockets -> KernType]
         /\ cb \in [Sockets -> {"idle", "connecting", "up", "down"}]
         /\ NoSock \notin Sockets
BY ConstantsAssumption DEF TypeInv, TypeOK, SessInv, SessionsOK, SessionOK, UsedOK

(* The view of a session in use. *)
LEMMA UsedView ==
  ASSUME SessInv, NEW s \in Sockets, s \notin pool
  PROVE  UsedOK(sock[s], kern[s], cb[s], ReqsOf(s), EvtsOf(s), IoOf(s), MainOf(s))
BY DEF SessInv, SessionsOK, SessionOK

(* The invariant is kept when that session's part is. *)
LEMMA OneSession ==
  ASSUME TypeInv, SessInv, NEW s \in Sockets, s \notin pool, Only(s),
         ReqsStep(s), EvtsStep(s), IoStep(s), MainStep(s),
         UsedOK(sock'[s], kern'[s], cb'[s], ReqsOf(s)', EvtsOf(s)', IoOf(s)', MainOf(s)')
  PROVE  SessInv'
<1>1. ASSUME NEW x \in Sockets PROVE SessionOK(x)'
  <2>1. CASE x = s
    BY <2>1 DEF SessionOK, Only
  <2>2. CASE x # s
    <3>1. SessionOK(x)
      BY DEF SessInv, SessionsOK
    <3>2. pool' = pool /\ sock'[x] = sock[x] /\ kern'[x] = kern[x] /\ cb'[x] = cb[x]
      BY <2>2 DEF Only
    <3>3. MainOf(x)' = MainOf(x) /\ (main'.sock = x <=> main.sock = x)
      BY <2>2 DEF MainStep
    <3>4. CASE x \in pool
      BY <3>1, <3>2, <3>3, <3>4 DEF SessionOK
    <3>5. CASE x \notin pool
      <4>1. ReqsOf(x)' = ReqsOf(x) /\ EvtsOf(x)' = EvtsOf(x) /\ IoOf(x)' = IoOf(x)
        BY <2>2, <3>5 DEF ReqsStep, EvtsStep, IoStep
      <4>2. UsedOK(sock[x], kern[x], cb[x], ReqsOf(x), EvtsOf(x), IoOf(x), MainOf(x))
        BY <3>1, <3>5 DEF SessionOK
      <4>3. UsedOK(sock'[x], kern'[x], cb'[x], ReqsOf(x)', EvtsOf(x)', IoOf(x)', MainOf(x)')
        BY <3>2, <3>3, <4>1, <4>2
      <4> QED  BY <3>2, <3>5, <4>3 DEF SessionOK
    <3> QED  BY <3>4, <3>5
  <2> QED  BY <2>1, <2>2
<1> QED  BY <1>1 DEF SessInv, SessionsOK, ReqsStep, EvtsStep, IoStep, MainStep

(* What a step leaves alone stays in place. *)
LEMMA ReqsStay ==
  ASSUME TypeInv, SessInv, NEW s \in Sockets, s \notin pool, Only(s), UNCHANGED list_net_req
  PROVE  ReqsStep(s) /\ ReqsOf(s)' = ReqsOf(s)
BY Parts, OnlyHomes, ReqsKept DEF ReqsStep

(* The same of the events, *)
LEMMA EvtsStay ==
  ASSUME TypeInv, SessInv, NEW s \in Sockets, s \notin pool, Only(s), UNCHANGED list_net_evt
  PROVE  EvtsStep(s) /\ EvtsOf(s)' = EvtsOf(s)
BY Parts, OnlyHomes, EvtsKept DEF EvtsStep

(* ... of the io threads, *)
LEMMA IoStays ==
  ASSUME TypeInv, SessInv, NEW s \in Sockets, s \notin pool, Only(s), UNCHANGED io
  PROVE  IoStep(s) /\ IoOf(s)' = IoOf(s)
BY Parts, OnlyHomes, IoKept DEF IoStep

(* ... and of the main thread. *)
LEMMA MainStays ==
  ASSUME SessInv, NEW s \in Sockets, UNCHANGED main
  PROVE  MainStep(s) /\ MainOf(s)' = MainOf(s)
BY DEF MainStep, MainOf, SessInv, MainHome

(* The main thread enters the checks of s, or leaves them. *)
LEMMA MainGoes ==
  ASSUME SessInv, NEW s \in Sockets, main.sock \in {s, NoSock},
         NEW label \in {"send_check", "active_check", "close_check"}, MainGo(label, s)
  PROVE  MainStep(s) /\ MainOf(s)' = label
<1>1. main'.at = label /\ main'.sock = s
  BY DEF MainGo
<1> QED  BY <1>1, ConstantsAssumption DEF MainStep, MainOf, MainHome

(* The main thread leaves them. *)
LEMMA MainRests ==
  ASSUME SessInv, NEW s \in Sockets, main.sock \in {s, NoSock}, main' = MainIdle
  PROVE  MainStep(s) /\ MainOf(s)' = "none"
<1>1. main'.at = "idle" /\ main'.sock = NoSock
  BY DEF MainIdle
<1> QED  BY <1>1, ConstantsAssumption DEF MainStep, MainOf, MainHome

(* The io thread is between handlers when it takes a request, and the request names a slot. *)
LEMMA ReqHead ==
  ASSUME TypeInv, SessInv, NEW p \in Procs, NEW type, TakeReq(p, type), type # "ACCEPT_FAIL"
  PROVE  /\ Head(list_net_req[p]).sock \in Sockets /\ Head(list_net_req[p]).sock \notin pool
         /\ sock[Head(list_net_req[p]).sock].proc = p
         /\ io[p].sock = NoSock
<1>1. TypeOK /\ ReqsInv /\ IoHome
  BY Parts
<1>2. Head(list_net_req[p]) \in RequestType /\ 1 \in DOMAIN list_net_req[p]
      /\ Head(list_net_req[p]) = list_net_req[p][1] /\ Head(list_net_req[p]).type = type
  BY <1>1 DEF TypeOK, TakeReq
<1> QED  BY <1>1, <1>2 DEF ReqsInv, ReqsHome, InUseBy, RequestType, IoHome, TakeReq, IoAt

(* A request is taken: its type leaves the view, and the closing one leaves none. *)
LEMMA ReqTake ==
  ASSUME TypeInv, SessInv, NEW p \in Procs, NEW type, TakeReq(p, type),
         NEW s \in Sockets, s = Head(list_net_req[p]).sock, Only(s)
  PROVE  /\ ReqsStep(s) /\ type \in ReqsOf(s) /\ ReqsOf(s)' = ReqsOf(s) \ {type}
         /\ type = "CLOSE_SOCKET" => ReqsOf(s)' = {}
<1>1. HomesKept /\ TypeOK /\ ReqsInv /\ \A x \in Sockets \ pool : sock[x].proc \in Procs
  BY Parts, OnlyHomes
<1>2. /\ ReqsInv' /\ type \in ReqsOf(s) /\ ReqsOf(s)' = ReqsOf(s) \ {type}
      /\ type = "CLOSE_SOCKET" => ReqsOf(s)' = {}
      /\ \A x \in Sockets \ pool : sock[x].proc \in Procs /\ x # s => ReqsOf(x)' = ReqsOf(x)
  BY <1>1, ReqTaken
<1> QED  BY <1>1, <1>2 DEF ReqsStep

(* The main thread takes an event that names a slot. *)
LEMMA EvtHead ==
  ASSUME TypeInv, SessInv, NEW p \in Procs, NEW types, TakeEvt(p, types), "ACCEPT" \notin types
  PROVE  /\ Head(list_net_evt[p]).sock \in Sockets /\ Head(list_net_evt[p]).sock \notin pool
         /\ sock[Head(list_net_evt[p]).sock].proc = p
         /\ main.sock = NoSock
<1>1. TypeOK /\ EvtsInv /\ MainHome
  BY Parts
<1>2. Head(list_net_evt[p]) \in EventType /\ 1 \in DOMAIN list_net_evt[p]
      /\ Head(list_net_evt[p]) = list_net_evt[p][1] /\ Head(list_net_evt[p]).type \in types
  BY <1>1 DEF TypeOK, TakeEvt
<1> QED  BY <1>1, <1>2 DEF EvtsInv, EvtsHome, InUseBy, EventType, MainHome, TakeEvt, MainAt

(* An event is taken: only DATA can be left over, and nothing follows a terminal event. *)
LEMMA EvtTake ==
  ASSUME TypeInv, SessInv, NEW p \in Procs, NEW types, TakeEvt(p, types),
         NEW type, type = Head(list_net_evt[p]).type,
         NEW s \in Sockets, s = Head(list_net_evt[p]).sock, Only(s)
  PROVE  /\ EvtsStep(s) /\ type \in types /\ type \in EvtsOf(s) /\ EvtsOf(s) = EvtsOf(s)' \cup {type}
         /\ type # "DATA" => EvtsOf(s)' = EvtsOf(s) \ {type}
         /\ type \in TerminalEvents => EvtsOf(s)' = {}
BY Parts, OnlyHomes, EvtTaken DEF EvtsStep

(* A push that finds room. *)
LEMMA ReqPush ==
  ASSUME TypeInv, SessInv, NEW s \in Sockets, s \notin pool, Only(s),
         NEW t \in RequestTypes \ {"ACCEPT_FAIL"}, NEW e \in {"none", "ok", "module"},
         PushReq(sock[s].proc, Request(t, s, e)), crush' = "none",
         t \notin ReqsOf(s), "CLOSE_SOCKET" \notin ReqsOf(s)
  PROVE  ReqsStep(s) /\ ReqsOf(s)' = ReqsOf(s) \cup {t}
<1> DEFINE r == Request(t, s, e)
           p == sock[s].proc
<1>1. r \in RequestType /\ r.sock = s /\ r.type = t /\ s # NoSock
  BY RequestTyped, ConstantsAssumption DEF Request
<1>2. list_net_req' = [list_net_req EXCEPT ![p] = Append(@, r)]
  BY DEF PushReq
<1>3. ReqsOf(s) = TypesIn(list_net_req[p], s) /\ p \in Procs /\ sock'[s].proc = p /\ s \notin pool'
  BY Parts DEF ReqsOf, Only
<1>4. HomesKept /\ TypeOK /\ ReqsInv
  BY Parts, OnlyHomes
<1> HIDE DEF r
<1>5. /\ ReqsInv' /\ ReqsOf(s)' = TypesIn(list_net_req[p], s) \cup {t}
      /\ \A x \in Sockets \ pool : sock[x].proc \in Procs /\ x # s => ReqsOf(x)' = ReqsOf(x)
  <2> HIDE DEF p
  <2> QED  BY <1>1, <1>2, <1>3, <1>4, ReqPushed, ZenonT(60)
<1> QED  BY <1>3, <1>5, Parts DEF ReqsStep

(* An event is queued: its type joins the view. *)
LEMMA EvtPush ==
  ASSUME TypeInv, SessInv, NEW s \in Sockets, s \notin pool, Only(s),
         NEW p \in Procs, sock[s].proc = p,
         NEW t \in EventTypes \ {"ACCEPT"}, NEW n \in Nat, t # "DATA" => n = 0,
         PushEvt(p, Event(t, s, n)), crush' = "none",
         t = "DATA" \/ t \notin EvtsOf(s), EvtsOf(s) \cap TerminalEvents = {}
  PROVE  EvtsStep(s) /\ EvtsOf(s)' = EvtsOf(s) \cup {t}
<1> DEFINE e == Event(t, s, n)
<1>1. e \in EventType /\ e.sock = s /\ e.type = t /\ e.len = n /\ s # NoSock
  BY EventTyped, ConstantsAssumption DEF Event
<1>2. list_net_evt' = [list_net_evt EXCEPT ![p] = Append(@, e)]
  BY DEF PushEvt
<1>3. EvtsOf(s) = TypesIn(list_net_evt[p], s) /\ sock'[s].proc = p /\ s \notin pool'
  BY Parts DEF EvtsOf, Only
<1>4. HomesKept /\ TypeOK /\ EvtsInv
  BY Parts, OnlyHomes
<1> HIDE DEF e
<1>5. /\ EvtsInv' /\ EvtsOf(s)' = TypesIn(list_net_evt[p], s) \cup {t}
      /\ \A x \in Sockets \ pool : sock[x].proc \in Procs /\ x # s => EvtsOf(x)' = EvtsOf(x)
  <2>1. /\ e.sock = NoSock <=> e.type = "ACCEPT"
        /\ e.type # "DATA" => e.len = 0
        /\ e.type = "DATA" \/ e.type \notin TypesIn(list_net_evt[p], e.sock)
        /\ TypesIn(list_net_evt[p], e.sock) \cap TerminalEvents = {}
        /\ e.sock \notin pool' /\ sock'[e.sock].proc = p
    BY <1>1, <1>3
  <2> QED  BY <1>1, <1>2, <1>4, <2>1, EvtPushed
<1> QED  BY <1>3, <1>5, Parts DEF EvtsStep

(* The session an io thread is handling. *)
LEMMA Handled ==
  ASSUME TypeInv, SessInv, NEW p \in Procs, io[p].at # "idle"
  PROVE  /\ io[p].sock \in Sockets /\ io[p].sock \notin pool /\ sock[io[p].sock].proc = p
         /\ IoOf(io[p].sock) = io[p].at
<1>1. io[p] \in IoType /\ IoHome
  BY Parts DEF TypeOK
<1> QED  BY <1>1 DEF IoHome, InUseBy, IoType, IoOf

(* An io thread turns to a session, ... *)
LEMMA Entered ==
  ASSUME TypeInv, SessInv, NEW p \in Procs, NEW label \in {"send", "recv", "dispatch"},
         NEW from, NEW todo, NEW s \in Sockets, s \notin pool, sock[s].proc = p, Only(s),
         io[p].sock \in {s, NoSock}, Enter(p, label, from, s, todo)
  PROVE  IoStep(s) /\ IoOf(s)' = label
<1>1. HomesKept /\ s \notin pool'
  BY OnlyHomes DEF Only
<1> QED  BY <1>1, Parts, IoEntered DEF IoStep

(* ... goes on with it, *)
LEMMA Went ==
  ASSUME TypeInv, SessInv, NEW p \in Procs,
         NEW label \in {"send_loop", "send_done", "recv_loop", "recv_end"},
         NEW s \in Sockets, s = io[p].sock, io[p].at # "idle", Only(s),
         label \in Receiving \/ io[p].at \notin Receiving, GoTo(p, label)
  PROVE  IoStep(s) /\ IoOf(s)' = label
<1>1. HomesKept /\ s \notin pool /\ s \notin pool' /\ sock[s].proc = p
  BY OnlyHomes, Handled DEF Only
<1> QED  BY <1>1, Parts, IoWent DEF IoStep

(* ... leaves it, *)
LEMMA Idled ==
  ASSUME TypeInv, SessInv, NEW p \in Procs,
         NEW s \in Sockets, s = io[p].sock, io[p].at # "idle", Only(s), io' = [io EXCEPT ![p] = IoIdle]
  PROVE  IoStep(s) /\ IoOf(s)' = "none"
<1>1. HomesKept /\ s \notin pool /\ s \notin pool' /\ sock[s].proc = p
  BY OnlyHomes, Handled DEF Only
<1> QED  BY <1>1, Parts, IoIdled DEF IoStep

(* ... or ends one handler of it. *)
LEMMA Finished ==
  ASSUME TypeInv, SessInv, NEW p \in Procs,
         NEW s \in Sockets, s = io[p].sock, io[p].at # "idle", Only(s), Finish(p)
  PROVE  IoStep(s) /\ IoOf(s)' \in {"none", "dispatch"}
<1>1. HomesKept /\ s \notin pool /\ s \notin pool' /\ sock[s].proc = p
  BY OnlyHomes, Handled DEF Only
<1> QED  BY <1>1, Parts, IoFinished DEF IoStep
-----------------------------------------------------------------------------
(* Every action keeps the invariant, unless it finds a queue full.  The requests first. *)
LEMMA IoReqSendKeeps ==
  ASSUME TypeInv, SessInv, NEW p \in Procs, IoReqSend(p)
  PROVE  SessInv'
<1>1. TakeReq(p, "SEND") /\ UNCHANGED <<pool, list_net_evt, main, kern, cb, started, crush>>
  BY DEF IoReqSend
<1>2. PICK s \in Sockets : s = Head(list_net_req[p]).sock
  BY <1>1, ReqHead
<1>3. s \notin pool /\ sock[s].proc = p /\ io[p].sock = NoSock
  BY <1>1, <1>2, ReqHead
<1>4. Enter(p, "send", "req", s, {}) /\ sock' = [sock EXCEPT ![s].send_ack = @ + 1]
  BY <1>2 DEF IoReqSend
<1>5. sock'[s] = [sock[s] EXCEPT !.send_ack = @ + 1] /\ sock[s] \in SockType /\ Only(s)
  BY <1>1, <1>4, Parts DEF Only, SockType
<1>6. ReqsStep(s) /\ "SEND" \in ReqsOf(s) /\ ReqsOf(s)' = ReqsOf(s) \ {"SEND"}
  BY <1>1, <1>2, <1>5, ReqTake
<1>7. EvtsStep(s) /\ EvtsOf(s)' = EvtsOf(s) /\ MainStep(s) /\ MainOf(s)' = MainOf(s)
  BY <1>1, <1>3, <1>5, EvtsStay, MainStays
<1>8. IoStep(s) /\ IoOf(s)' = "send"
  BY <1>3, <1>4, <1>5, Entered
<1>9. UsedOK(sock'[s], kern'[s], cb'[s], ReqsOf(s)', EvtsOf(s)', IoOf(s)', MainOf(s)')
  BY <1>1, <1>3, <1>5, <1>6, <1>7, <1>8, UsedView
     DEF UsedOK, OpeningOK, ClosingOK, HeardOK, ClosedOK, SendingOK, ReadingOK, Counted, SockType,
         Receiving, TerminalEvents
<1> QED  BY <1>3, <1>5, <1>6, <1>7, <1>8, <1>9, OneSession

(* NET_REQ_RECV_ACTIVATE: the io thread reads on. *)
LEMMA IoReqRecvActivateKeeps ==
  ASSUME TypeInv, SessInv, NEW p \in Procs, IoReqRecvActivate(p)
  PROVE  SessInv'
<1>1. TakeReq(p, "RECV_ACTIVATE") /\ UNCHANGED <<pool, list_net_evt, main, kern, cb, started, crush>>
  BY DEF IoReqRecvActivate
<1>2. PICK s \in Sockets : s = Head(list_net_req[p]).sock
  BY <1>1, ReqHead
<1>3. s \notin pool /\ sock[s].proc = p /\ io[p].sock = NoSock
  BY <1>1, <1>2, ReqHead
<1>4. Enter(p, "recv", "req", s, {}) /\ sock' = [sock EXCEPT ![s].need_recv_active = FALSE]
  BY <1>2 DEF IoReqRecvActivate
<1>5. sock'[s] = [sock[s] EXCEPT !.need_recv_active = FALSE] /\ sock[s] \in SockType /\ Only(s)
  BY <1>1, <1>4, Parts DEF Only, SockType
<1>6. ReqsStep(s) /\ "RECV_ACTIVATE" \in ReqsOf(s) /\ ReqsOf(s)' = ReqsOf(s) \ {"RECV_ACTIVATE"}
  BY <1>1, <1>2, <1>5, ReqTake
<1>7. EvtsStep(s) /\ EvtsOf(s)' = EvtsOf(s) /\ MainStep(s) /\ MainOf(s)' = MainOf(s)
  BY <1>1, <1>3, <1>5, EvtsStay, MainStays
<1>8. IoStep(s) /\ IoOf(s)' = "recv"
  BY <1>3, <1>4, <1>5, Entered
<1>9. UsedOK(sock'[s], kern'[s], cb'[s], ReqsOf(s)', EvtsOf(s)', IoOf(s)', MainOf(s)')
  BY ONLY TypeInv, SessInv, p \in Procs, s \in Sockets, <1>1, <1>3, <1>5, <1>6, <1>7, <1>8, UsedView, SMTT(60)
     DEF UsedOK, OpeningOK, ClosingOK, HeardOK, ClosedOK, SendingOK, ReadingOK, Counted, SockType,
         Receiving, TerminalEvents
<1> QED  BY <1>3, <1>5, <1>6, <1>7, <1>8, <1>9, OneSession

(* The descriptor of an accepted connection is registered, or not. *)
LEMMA IoReqAcceptKeeps ==
  ASSUME TypeInv, SessInv, crush = "none", NEW p \in Procs, IoReqAccept(p)
  PROVE  crush' \in {"none", "evt_full"} /\ (crush' = "none" => SessInv')
<1>1. TakeReq(p, "ACCEPT") /\ UNCHANGED <<pool, io, main, cb, started>>
  BY DEF IoReqAccept
<1>2. PICK s \in Sockets : s = Head(list_net_req[p]).sock
  BY <1>1, ReqHead
<1>3. s \notin pool /\ sock[s].proc = p /\ io[p].sock = NoSock
  BY <1>1, <1>2, ReqHead
<1>4. CASE /\ sock' = [sock EXCEPT ![s].state = "ESTABLISH"]
           /\ kern' = [kern EXCEPT ![s].interest = TRUE, ![s].ready = TRUE]
           /\ PushEvt(p, Event("ESTABLISH", s, 0))
  <2>1. crush' \in {"none", "evt_full"}
    BY <1>4 DEF PushEvt
  <2> SUFFICES ASSUME crush' = "none" PROVE SessInv'
    BY <2>1
  <2>2. sock'[s] = [sock[s] EXCEPT !.state = "ESTABLISH"] /\ sock[s] \in SockType /\ Only(s)
    BY <1>1, <1>4, Parts DEF Only, SockType
  <2>3. ReqsStep(s) /\ "ACCEPT" \in ReqsOf(s) /\ ReqsOf(s)' = ReqsOf(s) \ {"ACCEPT"}
    BY <1>1, <1>2, <2>2, ReqTake
  <2>4. sock[s].state = "NONE" /\ EvtsOf(s) = {}
    BY <1>3, <2>3, UsedView DEF UsedOK, OpeningOK
  <2>5. EvtsStep(s) /\ EvtsOf(s)' = {"ESTABLISH"}
    BY <1>3, <1>4, <2>2, <2>4, EvtPush, ZenonT(60) DEF EventTypes
  <2>6. IoStep(s) /\ IoOf(s)' = IoOf(s) /\ MainStep(s) /\ MainOf(s)' = MainOf(s)
    BY <1>1, <1>3, <2>2, IoStays, MainStays
  <2>7. UsedOK(sock'[s], kern'[s], cb'[s], ReqsOf(s)', EvtsOf(s)', IoOf(s)', MainOf(s)')
    BY <1>1, <1>3, <2>2, <2>3, <2>4, <2>5, <2>6, UsedView
       DEF UsedOK, OpeningOK, ClosingOK, HeardOK, ClosedOK, SendingOK, ReadingOK, Counted, SockType,
         Receiving, TerminalEvents
  <2> QED  BY <1>3, <2>2, <2>3, <2>5, <2>6, <2>7, OneSession
<1>5. CASE /\ sock' = [sock EXCEPT ![s].state = "DELETE", ![s].sock_fd = FALSE]
           /\ kern' = [kern EXCEPT ![s] = NoDescriptor]
           /\ PushEvt(p, Event("ACCEPT_FAIL", s, 0))
  <2>1. crush' \in {"none", "evt_full"}
    BY <1>5 DEF PushEvt
  <2> SUFFICES ASSUME crush' = "none" PROVE SessInv'
    BY <2>1
  <2>2. sock'[s] = [sock[s] EXCEPT !.state = "DELETE", !.sock_fd = FALSE] /\ sock[s] \in SockType /\ Only(s)
    BY <1>1, <1>5, Parts DEF Only, SockType
  <2>3. ReqsStep(s) /\ "ACCEPT" \in ReqsOf(s) /\ ReqsOf(s)' = ReqsOf(s) \ {"ACCEPT"}
    BY <1>1, <1>2, <2>2, ReqTake
  <2>4. sock[s].state = "NONE" /\ EvtsOf(s) = {}
    BY <1>3, <2>3, UsedView DEF UsedOK, OpeningOK
  <2>5. EvtsStep(s) /\ EvtsOf(s)' = {"ACCEPT_FAIL"}
    BY <1>3, <1>5, <2>2, <2>4, EvtPush, ZenonT(60) DEF EventTypes
  <2>6. IoStep(s) /\ IoOf(s)' = IoOf(s) /\ MainStep(s) /\ MainOf(s)' = MainOf(s)
    BY <1>1, <1>3, <2>2, IoStays, MainStays
  <2>7. UsedOK(sock'[s], kern'[s], cb'[s], ReqsOf(s)', EvtsOf(s)', IoOf(s)', MainOf(s)')
    BY <1>1, <1>3, <2>2, <2>3, <2>4, <2>5, <2>6, UsedView
       DEF UsedOK, OpeningOK, ClosingOK, HeardOK, ClosedOK, SendingOK, ReadingOK, Counted, SockType,
         Receiving, TerminalEvents
  <2> QED  BY <1>3, <2>2, <2>3, <2>5, <2>6, <2>7, OneSession
<1> QED  BY <1>2, <1>3, <1>4, <1>5, SMTT(60) DEF IoReqAccept

(* A step of no session: messages that name no slot come and go. *)
LEMMA NoSession ==
  ASSUME TypeInv, SessInv, UNCHANGED <<sock, pool, kern, cb, main, io>>, ReqsInv', EvtsInv',
         \A x \in Sockets \ pool : ReqsOf(x)' = ReqsOf(x) /\ EvtsOf(x)' = EvtsOf(x)
  PROVE  SessInv'
<1>1. IoHome' /\ MainHome' /\ \A x \in Sockets : IoOf(x)' = IoOf(x) /\ MainOf(x)' = MainOf(x)
  BY Parts DEF IoHome, MainHome, IoOf, MainOf, InUseBy
<1>2. ASSUME NEW x \in Sockets PROVE SessionOK(x)'
  <2>1. SessionOK(x)
    BY DEF SessInv, SessionsOK
  <2>2. CASE x \in pool
    BY <2>1, <2>2 DEF SessionOK
  <2>3. CASE x \notin pool
    <3>1. UsedOK(sock[x], kern[x], cb[x], ReqsOf(x), EvtsOf(x), IoOf(x), MainOf(x))
      BY <2>1, <2>3 DEF SessionOK
    <3>2. UsedOK(sock'[x], kern'[x], cb'[x], ReqsOf(x)', EvtsOf(x)', IoOf(x)', MainOf(x)')
      BY <1>1, <2>3, <3>1
    <3> QED  BY <2>3, <3>2 DEF SessionOK
  <2> QED  BY <2>2, <2>3
<1> QED  BY <1>1, <1>2 DEF SessInv, SessionsOK

(* A failed accept that names no slot touches no session. *)
LEMMA IoReqAcceptFailKeeps ==
  ASSUME TypeInv, SessInv, NEW p \in Procs, IoReqAcceptFail(p)
  PROVE  SessInv'
<1>1. TakeReq(p, "ACCEPT_FAIL") /\ UNCHANGED <<sock, pool, list_net_evt, io, main, kern, cb, started, crush>>
  BY DEF IoReqAcceptFail
<1>2. HomesKept
  BY <1>1 DEF HomesKept
<1>3. Head(list_net_req[p]).sock \notin Sockets
  <2>1. Head(list_net_req[p]) = list_net_req[p][1] /\ 1 \in DOMAIN list_net_req[p]
        /\ Head(list_net_req[p]).type = "ACCEPT_FAIL"
    BY <1>1, Parts DEF TypeOK, TakeReq
  <2> QED  BY <2>1, Parts DEF ReqsInv, ReqsHome
<1>4. ReqsInv' /\ \A x \in Sockets \ pool : ReqsOf(x)' = ReqsOf(x)
  BY <1>1, <1>2, <1>3, Parts, ReqTaken
<1>5. EvtsInv' /\ \A x \in Sockets \ pool : EvtsOf(x)' = EvtsOf(x)
  BY <1>1, <1>2, Parts, EvtsKept, SMTT(60)
<1> QED  BY <1>1, <1>4, <1>5, NoSession

(* NET_REQ_CONNECT: a descriptor and CONNECT_FAIL, or neither. *)
LEMMA IoReqConnectKeeps ==
  ASSUME TypeInv, SessInv, crush = "none", NEW p \in Procs, IoReqConnect(p)
  PROVE  crush' \in {"none", "evt_full"} /\ (crush' = "none" => SessInv')
<1>1. TakeReq(p, "CONNECT") /\ UNCHANGED <<pool, io, main, cb, started>>
  BY DEF IoReqConnect
<1>2. PICK s \in Sockets : s = Head(list_net_req[p]).sock
  BY <1>1, ReqHead
<1>3. s \notin pool /\ sock[s].proc = p /\ io[p].sock = NoSock
  BY <1>1, <1>2, ReqHead
<1>4. CASE /\ sock' = [sock EXCEPT ![s].sock_fd = TRUE]
           /\ kern' = [kern EXCEPT ![s] = [NoDescriptor EXCEPT
                         !.conn = "syn", !.interest = TRUE, !.left = MaxPeerBytes]]
           /\ UNCHANGED <<list_net_evt, crush>>
  <2>1. sock'[s] = [sock[s] EXCEPT !.sock_fd = TRUE] /\ sock[s] \in SockType /\ Only(s)
    BY <1>1, <1>4, Parts DEF Only, SockType
  <2>2. ReqsStep(s) /\ "CONNECT" \in ReqsOf(s) /\ ReqsOf(s)' = ReqsOf(s) \ {"CONNECT"}
    BY <1>1, <1>2, <2>1, ReqTake
  <2>3. EvtsStep(s) /\ EvtsOf(s)' = EvtsOf(s)
    BY <1>3, <1>4, <2>1, EvtsStay
  <2>4. IoStep(s) /\ IoOf(s)' = IoOf(s) /\ MainStep(s) /\ MainOf(s)' = MainOf(s)
    BY <1>1, <1>3, <2>1, IoStays, MainStays
  <2>5. UsedOK(sock'[s], kern'[s], cb'[s], ReqsOf(s)', EvtsOf(s)', IoOf(s)', MainOf(s)')
    BY <1>1, <1>3, <2>1, <2>2, <2>3, <2>4, UsedView
       DEF UsedOK, OpeningOK, ClosingOK, HeardOK, ClosedOK, SendingOK, ReadingOK, Counted, SockType,
         Receiving, TerminalEvents
  <2> QED  BY <1>3, <1>4, <2>1, <2>2, <2>3, <2>4, <2>5, OneSession
<1>5. CASE /\ sock' = [sock EXCEPT ![s].state = "DELETE"]
           /\ PushEvt(p, Event("CONNECT_FAIL", s, 0))
           /\ UNCHANGED kern
  <2>1. crush' \in {"none", "evt_full"}
    BY <1>5 DEF PushEvt
  <2> SUFFICES ASSUME crush' = "none" PROVE SessInv'
    BY <2>1
  <2>2. sock'[s] = [sock[s] EXCEPT !.state = "DELETE"] /\ sock[s] \in SockType /\ Only(s)
    BY <1>1, <1>5, Parts DEF Only, SockType
  <2>3. ReqsStep(s) /\ "CONNECT" \in ReqsOf(s) /\ ReqsOf(s)' = ReqsOf(s) \ {"CONNECT"}
    BY <1>1, <1>2, <2>2, ReqTake
  <2>4. sock[s].state = "CONNECT" /\ EvtsOf(s) = {}
    BY <1>3, <2>3, UsedView DEF UsedOK, OpeningOK
  <2>5. EvtsStep(s) /\ EvtsOf(s)' = {"CONNECT_FAIL"}
    BY <1>3, <1>5, <2>2, <2>4, EvtPush DEF EventTypes
  <2>6. IoStep(s) /\ IoOf(s)' = IoOf(s) /\ MainStep(s) /\ MainOf(s)' = MainOf(s)
    BY <1>1, <1>3, <2>2, IoStays, MainStays
  <2>7. UsedOK(sock'[s], kern'[s], cb'[s], ReqsOf(s)', EvtsOf(s)', IoOf(s)', MainOf(s)')
    BY <1>1, <1>3, <1>5, <2>2, <2>3, <2>4, <2>5, <2>6, UsedView
       DEF UsedOK, OpeningOK, ClosingOK, HeardOK, ClosedOK, SendingOK, ReadingOK, Counted, SockType,
         Receiving, TerminalEvents
  <2> QED  BY <1>3, <2>2, <2>3, <2>5, <2>6, <2>7, OneSession
<1> QED  BY <1>2, <1>3, <1>4, <1>5 DEF IoReqConnect

(* NET_REQ_TERMINATE: its place is taken by the TERMINATE event. *)
LEMMA IoReqTerminateKeeps ==
  ASSUME TypeInv, SessInv, crush = "none", NEW p \in Procs, IoReqTerminate(p)
  PROVE  crush' \in {"none", "evt_full"} /\ (crush' = "none" => SessInv')
<1>1. TakeReq(p, "TERMINATE") /\ UNCHANGED <<sock, pool, io, main, kern, cb, started>>
  BY DEF IoReqTerminate
<1>2. PICK s \in Sockets : s = Head(list_net_req[p]).sock
  BY <1>1, ReqHead
<1>3. s \notin pool /\ sock[s].proc = p
  BY <1>1, <1>2, ReqHead
<1>4. PICK t \in {"TERMINATE", "MODULE_ERROR"} : PushEvt(p, Event(t, s, 0))
  BY <1>2 DEF IoReqTerminate
<1>5. crush' \in {"none", "evt_full"}
  BY <1>4 DEF PushEvt
<1> SUFFICES ASSUME crush' = "none" PROVE SessInv'
  BY <1>5
<1>6. sock'[s] = sock[s] /\ sock[s] \in SockType /\ Only(s)
  BY <1>1, Parts DEF Only
<1>7. ReqsStep(s) /\ "TERMINATE" \in ReqsOf(s) /\ ReqsOf(s)' = ReqsOf(s) \ {"TERMINATE"}
  BY <1>1, <1>2, <1>6, ReqTake
<1>8. EvtsOf(s) \cap TerminalEvents = {}
  BY <1>3, <1>7, UsedView DEF UsedOK, ClosingOK
<1>9. EvtsStep(s) /\ EvtsOf(s)' = EvtsOf(s) \cup {t}
  BY <1>3, <1>4, <1>6, <1>8, EvtPush DEF EventTypes, TerminalEvents
<1>10. IoStep(s) /\ IoOf(s)' = IoOf(s) /\ MainStep(s) /\ MainOf(s)' = MainOf(s)
  BY <1>1, <1>3, <1>6, IoStays, MainStays
<1>11. IoOf(s) \notin Receiving
  <2>1. io[p].at = "idle" /\ IoHome
    BY <1>1, Parts DEF TakeReq, IoAt
  <2> QED  BY <1>3, <2>1, Parts DEF IoHome, IoOf, Receiving
<1>12. UsedOK(sock'[s], kern'[s], cb'[s], ReqsOf(s)', EvtsOf(s)', IoOf(s)', MainOf(s)')
  BY <1>1, <1>3, <1>4, <1>6, <1>7, <1>8, <1>9, <1>10, <1>11, UsedView, ZenonT(60)
     DEF UsedOK, OpeningOK, ClosingOK, HeardOK, ClosedOK, SendingOK, ReadingOK, Counted, SockType,
         Receiving, TerminalEvents
<1> QED  BY <1>3, <1>6, <1>7, <1>9, <1>10, <1>12, OneSession

(* The io thread closes the descriptor: nothing of the session is left with it. *)
LEMMA IoReqCloseKeeps ==
  ASSUME TypeInv, SessInv, NEW p \in Procs, IoReqClose(p)
  PROVE  SessInv'
<1>1. TakeReq(p, "CLOSE_SOCKET") /\ UNCHANGED <<pool, list_net_evt, io, main, cb, started, crush>>
  BY DEF IoReqClose
<1>2. PICK s \in Sockets : s = Head(list_net_req[p]).sock
  BY <1>1, ReqHead
<1>3. s \notin pool /\ sock[s].proc = p /\ io[p].sock = NoSock
  BY <1>1, <1>2, ReqHead
<1>4. /\ sock' = [sock EXCEPT ![s].sock_fd = FALSE, ![s].send_ack = @ + 1]
      /\ kern' = [kern EXCEPT ![s] = NoDescriptor]
  BY <1>2 DEF IoReqClose
<1>5. /\ sock'[s] = [sock[s] EXCEPT !.sock_fd = FALSE, !.send_ack = @ + 1] /\ sock[s] \in SockType
      /\ kern'[s] = NoDescriptor /\ Only(s)
  BY <1>1, <1>4, Parts DEF Only, SockType
<1>6. ReqsStep(s) /\ "CLOSE_SOCKET" \in ReqsOf(s) /\ ReqsOf(s)' = ReqsOf(s) \ {"CLOSE_SOCKET"} /\ ReqsOf(s)' = {}
  BY <1>1, <1>2, <1>5, ReqTake
<1>7. EvtsStep(s) /\ EvtsOf(s)' = EvtsOf(s) /\ MainStep(s) /\ MainOf(s)' = MainOf(s)
  BY <1>1, <1>3, <1>5, EvtsStay, MainStays
<1>8. IoStep(s) /\ IoOf(s)' = IoOf(s) /\ IoOf(s) = "none"
  BY <1>1, <1>3, <1>5, IoStays, Parts DEF IoOf
<1>9. UsedOK(sock'[s], kern'[s], cb'[s], ReqsOf(s)', EvtsOf(s)', IoOf(s)', MainOf(s)')
  BY <1>1, <1>3, <1>5, <1>6, <1>7, <1>8, UsedView
     DEF UsedOK, OpeningOK, ClosingOK, HeardOK, ClosedOK, SendingOK, ReadingOK, Counted, SockType,
         Receiving, TerminalEvents
<1> QED  BY <1>3, <1>5, <1>6, <1>7, <1>8, <1>9, OneSession

(* A connection is announced: the event names no slot yet. *)
LEMMA IoListenerAcceptKeeps ==
  ASSUME TypeInv, SessInv, crush = "none", NEW p \in Procs, IoListenerAccept(p)
  PROVE  crush' \in {"none", "evt_full"} /\ (crush' = "none" => SessInv')
<1>1. PushEvt(p, Event("ACCEPT", NoSock, 0)) /\ UNCHANGED <<sock, pool, list_net_req, io, main, kern, cb>>
  BY DEF IoListenerAccept
<1>2. crush' \in {"none", "evt_full"}
  BY <1>1 DEF PushEvt
<1> SUFFICES ASSUME crush' = "none" PROVE SessInv'
  BY <1>2
<1>3. HomesKept
  BY <1>1 DEF HomesKept
<1> DEFINE e == Event("ACCEPT", NoSock, 0)
<1>4. e \in EventType /\ e.sock = NoSock /\ e.type = "ACCEPT" /\ e.len = 0 /\ NoSock \notin Sockets
  BY EventTyped, ConstantsAssumption DEF Event, EventTypes
<1>5. list_net_evt' = [list_net_evt EXCEPT ![p] = Append(@, e)]
  BY <1>1 DEF PushEvt
<1> HIDE DEF e
<1>6. EvtsInv' /\ \A x \in Sockets \ pool : EvtsOf(x)' = EvtsOf(x)
  <2>1. /\ e.sock = NoSock <=> e.type = "ACCEPT"
        /\ e.type # "DATA" => e.len = 0
        /\ e.sock \in Sockets =>
             /\ e.sock \notin pool' /\ sock'[e.sock].proc = p
             /\ e.type = "DATA" \/ e.type \notin TypesIn(list_net_evt[p], e.sock)
             /\ TypesIn(list_net_evt[p], e.sock) \cap TerminalEvents = {}
    BY <1>4
  <2>2. TypeOK /\ EvtsInv
    BY Parts
  <2>3. /\ EvtsInv'
        /\ \A x \in Sockets \ pool : sock[x].proc \in Procs /\ x # e.sock => EvtsOf(x)' = EvtsOf(x)
    BY <1>3, <1>4, <1>5, <2>1, <2>2, EvtPushed
  <2> QED  BY <1>4, <2>3, Parts
<1>7. ReqsInv' /\ \A x \in Sockets \ pool : ReqsOf(x)' = ReqsOf(x)
  BY <1>1, <1>3, Parts, ReqsKept
<1> QED  BY <1>1, <1>6, <1>7, NoSession

(* An edge of a registered descriptor brings the io thread to its session. *)
LEMMA IoEpollWaitKeeps ==
  ASSUME TypeInv, SessInv, NEW p \in Procs, NEW s \in Sockets, IoEpollWait(p, s)
  PROVE  SessInv'
<1>1. /\ IoAt(p, "idle") /\ sock[s].proc = p /\ kern[s].interest /\ kern[s].ready
      /\ kern' = [kern EXCEPT ![s].ready = FALSE]
      /\ UNCHANGED io \/ Enter(p, "dispatch", "evt", s, ReadyMask(s))
      /\ UNCHANGED <<sock, pool, list_net_evt, list_net_req, main, cb, started, crush>>
  BY DEF IoEpollWait
<1>2. kern[s] # NoDescriptor
  BY <1>1 DEF NoDescriptor
<1>3. s \notin pool
  BY <1>2 DEF SessInv, SessionsOK, SessionOK, FreeOK
<1>4. io[p].sock = NoSock
  BY <1>1, Parts DEF IoAt, IoHome
<1>5. kern'[s] = [kern[s] EXCEPT !.ready = FALSE] /\ kern[s] \in KernType /\ Only(s)
  BY <1>1, Parts DEF Only
<1>6. ReqsStep(s) /\ ReqsOf(s)' = ReqsOf(s) /\ EvtsStep(s) /\ EvtsOf(s)' = EvtsOf(s)
  BY <1>1, <1>3, <1>5, ReqsStay, EvtsStay
<1>7. IoStep(s) /\ IoOf(s)' \in {IoOf(s), "dispatch"}
  BY <1>1, <1>3, <1>4, <1>5, IoStays, Entered
<1>8. MainStep(s) /\ MainOf(s)' = MainOf(s)
  BY <1>1, MainStays
<1>9. UsedOK(sock'[s], kern'[s], cb'[s], ReqsOf(s)', EvtsOf(s)', IoOf(s)', MainOf(s)')
  BY <1>1, <1>2, <1>3, <1>5, <1>6, <1>7, <1>8, UsedView
     DEF UsedOK, OpeningOK, ClosingOK, HeardOK, ClosedOK, SendingOK, ReadingOK, Counted, SockType,
         Receiving, TerminalEvents, KernType
<1> QED  BY <1>3, <1>5, <1>6, <1>7, <1>8, <1>9, OneSession
-----------------------------------------------------------------------------
(* The handlers of the io thread.  A socket call of the session in its hands changes nothing the *)
(* invariant speaks of.                                                                          *)
LEMMA QuietSteps ==
  ASSUME TypeInv, SessInv, NEW s \in Sockets, s \notin pool, Only(s),
         UNCHANGED <<list_net_req, list_net_evt, main>>
  PROVE  /\ ReqsStep(s) /\ EvtsStep(s) /\ MainStep(s)
         /\ ReqsOf(s)' = ReqsOf(s) /\ EvtsOf(s)' = EvtsOf(s) /\ MainOf(s)' = MainOf(s)
BY ReqsStay, EvtsStay, MainStays

(* EPOLLOUT while connecting. *)
LEMMA IoOnConnectKeeps ==
  ASSUME TypeInv, SessInv, crush = "none", NEW p \in Procs, IoOnConnect(p)
  PROVE  crush' \in {"none", "evt_full"} /\ (crush' = "none" => SessInv')
<1>1. io[p].at = "dispatch" /\ UNCHANGED <<pool, list_net_req, main, kern, cb, started>>
  BY DEF IoOnConnect, IoAt
<1>2. PICK s \in Sockets : s = io[p].sock
  BY <1>1, Handled
<1>3. s \notin pool /\ sock[s].proc = p /\ IoOf(s) = "dispatch"
  BY <1>1, <1>2, Handled
<1>4. PICK to \in {"DELETE", "ESTABLISH"}, t \in {"CONNECT_FAIL", "ESTABLISH"} :
        /\ to = "DELETE" <=> t = "CONNECT_FAIL"
        /\ sock' = [sock EXCEPT ![s].state = to] /\ PushEvt(p, Event(t, s, 0))
  BY <1>2 DEF IoOnConnect
<1>5. /\ sock[s].state = "CONNECT"
      /\ io' = [io EXCEPT ![p] = IoIdle] \/ Enter(p, "dispatch", "evt", s, io[p].todo \ {"OUT"})
  BY <1>2 DEF IoOnConnect
<1>6. crush' \in {"none", "evt_full"}
  BY <1>4 DEF PushEvt
<1> SUFFICES ASSUME crush' = "none" PROVE SessInv'
  BY <1>6
<1>7. sock'[s] = [sock[s] EXCEPT !.state = to] /\ sock[s] \in SockType /\ Only(s)
  BY <1>1, <1>4, Parts DEF Only, SockType
<1>8. EvtsOf(s) = {} /\ ReqsOf(s) = {} /\ MainOf(s) = "none" /\ cb[s] = "connecting"
  BY <1>3, <1>5, UsedView DEF UsedOK, OpeningOK
<1>9. EvtsStep(s) /\ EvtsOf(s)' = {t}
  <2>1. t \in EventTypes \ {"ACCEPT"} /\ t # "DATA" /\ t \notin EvtsOf(s) /\ EvtsOf(s) \cap TerminalEvents = {}
    BY <1>8 DEF EventTypes
  <2> QED  BY <1>3, <1>4, <1>7, <1>8, <2>1, EvtPush
<1>10. IoStep(s) /\ IoOf(s)' \in {"none", "dispatch"}
  BY <1>1, <1>2, <1>3, <1>5, <1>7, Idled, Entered
<1>11. ReqsStep(s) /\ ReqsOf(s)' = ReqsOf(s) /\ MainStep(s) /\ MainOf(s)' = MainOf(s)
  BY <1>1, <1>3, <1>7, ReqsStay, MainStays
<1>12. UsedOK(sock'[s], kern'[s], cb'[s], ReqsOf(s)', EvtsOf(s)', IoOf(s)', MainOf(s)')
  <2>1. UsedOK(sock[s], kern[s], cb[s], ReqsOf(s), EvtsOf(s), IoOf(s), MainOf(s))
        /\ kern'[s] = kern[s] /\ cb'[s] = cb[s]
    BY <1>1, <1>3, UsedView
  <2>2. CASE t = "CONNECT_FAIL"
    BY <1>4, <1>5, <1>7, <1>8, <1>9, <1>10, <1>11, <2>1, <2>2
       DEF UsedOK, OpeningOK, ClosingOK, HeardOK, ClosedOK, SendingOK, ReadingOK, Counted, SockType,
         Receiving, TerminalEvents
  <2>3. CASE t = "ESTABLISH"
    BY ONLY <1>4, <1>5, <1>7, <1>8, <1>9, <1>10, <1>11, <2>1, <2>3, SMTT(60)
       DEF UsedOK, OpeningOK, ClosingOK, HeardOK, ClosedOK, SendingOK, ReadingOK, Counted, SockType,
         Receiving, TerminalEvents
  <2> QED  BY <2>2, <2>3
<1> QED  BY <1>3, <1>7, <1>9, <1>10, <1>11, <1>12, OneSession

(* A handler that moves on, or returns, without touching a queue or what the invariant reads of *)
(* the session.                                                                                 *)
LEMMA IoGoesOn ==
  ASSUME TypeInv, SessInv, NEW p \in Procs, NEW s \in Sockets, s = io[p].sock, io[p].at # "idle",
         s \notin pool, Only(s), UNCHANGED <<list_net_req, list_net_evt, main>>,
         IoStep(s), IoOf(s)' \notin Receiving \/ IoOf(s) \in Receiving,
         IoOf(s)' # "none" \/ IoOf(s) # "none",
         NEW r, r = sock[s], NEW k, k = kern[s],
         sock'[s] \in {r, [r EXCEPT !.need_send_active = TRUE], [r EXCEPT !.need_send_active = FALSE],
                       [r EXCEPT !.data_has_send = sock'[s].data_has_send],
                       [r EXCEPT !.recv_used = sock'[s].recv_used]},
         kern'[s] \in {k, [k EXCEPT !.nospace = TRUE], [k EXCEPT !.tx = kern'[s].tx],
                       [k EXCEPT !.rx = kern'[s].rx]},
         cb'[s] = cb[s]
  PROVE  SessInv'
<1>1. /\ ReqsStep(s) /\ EvtsStep(s) /\ MainStep(s)
      /\ ReqsOf(s)' = ReqsOf(s) /\ EvtsOf(s)' = EvtsOf(s) /\ MainOf(s)' = MainOf(s)
  BY QuietSteps
<1>2. IoOf(s) = io[p].at /\ IoOf(s) # "none" /\ sock[s] \in SockType /\ kern[s] \in KernType
  <2>1. IoOf(s) = io[p].at /\ io[p].at \in IoLabels
    BY Handled, Parts DEF TypeOK, IoType
  <2> QED  BY <2>1, Parts DEF IoLabels
<1>3. UsedOK(sock[s], kern[s], cb[s], ReqsOf(s), EvtsOf(s), IoOf(s), MainOf(s))
  BY UsedView, SMTT(60)
<1>4. /\ sock'[s].state = r.state /\ sock'[s].proc = r.proc
      /\ sock'[s].timer_close = r.timer_close /\ sock'[s].timer_send = r.timer_send
      /\ sock'[s].need_req_close = r.need_req_close /\ sock'[s].need_recv_active = r.need_recv_active
      /\ sock'[s].send_req = r.send_req /\ sock'[s].send_ack = r.send_ack
  BY <1>2, SMTT(60) DEF SockType
<1>5. kern'[s].interest = k.interest
  BY <1>2, SMTT(60) DEF KernType
<1>6. UsedOK(sock'[s], kern'[s], cb'[s], ReqsOf(s)', EvtsOf(s)', IoOf(s)', MainOf(s)')
  <2>1. OpeningOK(sock'[s], kern'[s], cb'[s], ReqsOf(s)', EvtsOf(s)', IoOf(s)', MainOf(s)')
    BY <1>1, <1>2, <1>3, <1>4, <1>5, ZenonT(60) DEF UsedOK, OpeningOK
  <2>2. ClosingOK(sock'[s], ReqsOf(s)', EvtsOf(s)', cb'[s])
    BY <1>1, <1>3, <1>4, ZenonT(60) DEF UsedOK, ClosingOK
  <2>3. HeardOK(sock'[s], ReqsOf(s)', EvtsOf(s)', cb'[s])
    BY <1>1, <1>3, <1>4, ZenonT(60) DEF UsedOK, HeardOK
  <2>4. ClosedOK(sock'[s], kern'[s], ReqsOf(s)', IoOf(s)', MainOf(s)')
    BY <1>1, <1>2, <1>3, <1>4, ZenonT(60) DEF UsedOK, ClosedOK
  <2>5. SendingOK(sock'[s], ReqsOf(s)', MainOf(s)')
    BY <1>1, <1>3, <1>4, ZenonT(60) DEF UsedOK, SendingOK
  <2>6. ReadingOK(sock'[s], ReqsOf(s)', EvtsOf(s)', IoOf(s)')
    BY <1>1, <1>3, <1>4, ZenonT(60) DEF UsedOK, ReadingOK
  <2> QED  BY <1>3, <1>4, <2>1, <2>2, <2>3, <2>4, <2>5, <2>6, ZenonT(60) DEF UsedOK
<1> QED  BY <1>1, <1>6, OneSession
(* A handler that stays in the reading loop. *)
LEMMA Reads ==
  ASSUME TypeInv, SessInv, NEW p \in Procs, NEW s \in Sockets, s = io[p].sock, io[p].at # "idle", Only(s),
         NEW r, io' = [io EXCEPT ![p] = r], r.sock = s, r.at \in Receiving
  PROVE  IoStep(s) /\ IoOf(s)' = r.at
<1>1. HomesKept /\ s \notin pool /\ s \notin pool' /\ sock[s].proc = p
  BY OnlyHomes, Handled DEF Only
<1>2. TypeOK /\ IoHome /\ io[p].sock \in {s, NoSock} /\ r.sock \in {s, NoSock}
      /\ (r.at = "idle" <=> r.sock = NoSock) /\ (r.at \notin Receiving => r.got = 0)
  BY Parts DEF Receiving
<1>3. /\ IoHome' /\ IoOf(s)' = IF r.sock = s THEN r.at ELSE "none"
      /\ \A x \in Sockets \ pool : x # s /\ sock[x].proc \in Procs => IoOf(x)' = IoOf(x)
  BY <1>1, <1>2, IoMoved
<1> QED  BY <1>3, Parts DEF IoStep

(* The session a handler works for, and what a step that keeps all but its fields touches. *)
LEMMA Working ==
  ASSUME TypeInv, SessInv, NEW p \in Procs, NEW label \in IoLabels \ {"idle"}, IoAt(p, label)
  PROVE  \E s \in Sockets : /\ s = io[p].sock /\ s \notin pool /\ sock[s].proc = p /\ IoOf(s) = label
                            /\ io[p].at = label /\ io[p].at # "idle"
BY Handled DEF IoAt

(* EPOLLOUT: the io thread turns to sending. *)
LEMMA IoOnWritableKeeps ==
  ASSUME TypeInv, SessInv, NEW p \in Procs, IoOnWritable(p)
  PROVE  SessInv'
<1>1. IoAt(p, "dispatch") /\ Enter(p, "send", "evt", io[p].sock, io[p].todo \ {"OUT"})
      /\ UNCHANGED <<sock, pool, list_net_evt, list_net_req, main, kern, cb, started, crush>>
  BY DEF IoOnWritable
<1>2. PICK s \in Sockets : /\ s = io[p].sock /\ s \notin pool /\ sock[s].proc = p /\ IoOf(s) = "dispatch"
                           /\ io[p].at = "dispatch" /\ io[p].at # "idle"
  BY <1>1, Working DEF IoLabels
<1>3. Only(s)
  BY <1>1 DEF Only
<1>4. IoStep(s) /\ IoOf(s)' = "send"
  BY <1>1, <1>2, <1>3, Entered
<1>5. IoOf(s)' \notin Receiving /\ IoOf(s)' # "none"
  BY <1>4 DEF Receiving
<1> QED  BY <1>1, <1>2, <1>3, <1>4, <1>5, IoGoesOn

(* EPOLLIN: the io thread turns to reading. *)
LEMMA IoOnReadableKeeps ==
  ASSUME TypeInv, SessInv, NEW p \in Procs, IoOnReadable(p)
  PROVE  SessInv'
<1>1. IoAt(p, "dispatch") /\ Enter(p, "recv", "evt", io[p].sock, io[p].todo \ {"IN"})
      /\ UNCHANGED <<sock, pool, list_net_evt, list_net_req, main, kern, cb, started, crush>>
  BY DEF IoOnReadable
<1>2. PICK s \in Sockets : /\ s = io[p].sock /\ s \notin pool /\ sock[s].proc = p /\ IoOf(s) = "dispatch"
                           /\ io[p].at = "dispatch" /\ io[p].at # "idle"
  BY <1>1, Working DEF IoLabels
<1>3. Only(s)
  BY <1>1 DEF Only
<1>4. IoStep(s) /\ IoOf(s)' = "recv"
  BY <1>1, <1>2, <1>3, Entered
<1>5. IoOf(s)' \notin Receiving /\ IoOf(s)' # "none"
  BY <1>4 DEF Receiving
<1> QED  BY <1>1, <1>2, <1>3, <1>4, <1>5, IoGoesOn

(* Sending. *)
LEMMA IoSendEnterKeeps ==
  ASSUME TypeInv, SessInv, NEW p \in Procs, IoSendEnter(p)
  PROVE  SessInv'
<1>1. IoAt(p, "send") /\ (GoTo(p, "send_loop") \/ Finish(p))
      /\ UNCHANGED <<sock, pool, list_net_evt, list_net_req, main, kern, cb, started, crush>>
  BY DEF IoSendEnter
<1>2. PICK s \in Sockets : /\ s = io[p].sock /\ s \notin pool /\ sock[s].proc = p /\ IoOf(s) = "send"
                           /\ io[p].at = "send" /\ io[p].at # "idle"
  BY <1>1, Working DEF IoLabels
<1>3. Only(s)
  BY <1>1 DEF Only
<1>4. IoStep(s) /\ IoOf(s)' \in {"send_loop", "none", "dispatch"}
  BY <1>1, <1>2, <1>3, Went, Finished DEF Receiving
<1>5. IoOf(s)' \notin Receiving /\ IoOf(s) # "none"
  BY <1>2, <1>4 DEF Receiving
<1> QED  BY <1>1, <1>2, <1>3, <1>4, <1>5, IoGoesOn

(* send() took some of the bytes. *)
LEMMA IoSendSomeKeeps ==
  ASSUME TypeInv, SessInv, NEW p \in Procs, IoSendSome(p)
  PROVE  SessInv'
<1>1. IoAt(p, "send_loop") /\ UNCHANGED <<pool, list_net_evt, list_net_req, io, main, cb, started, crush>>
  BY DEF IoSendSome
<1>2. PICK s \in Sockets : /\ s = io[p].sock /\ s \notin pool /\ sock[s].proc = p /\ IoOf(s) = "send_loop"
                           /\ io[p].at = "send_loop" /\ io[p].at # "idle"
  BY <1>1, Working DEF IoLabels
<1>3. PICK n \in 1 .. TxCap : /\ sock' = [sock EXCEPT ![s].data_has_send = @ + n]
                              /\ kern' = [kern EXCEPT ![s].tx = @ + n]
  BY <1>2 DEF IoSendSome
<1>4. /\ sock'[s] = [sock[s] EXCEPT !.data_has_send = sock'[s].data_has_send]
      /\ kern'[s] = [kern[s] EXCEPT !.tx = kern'[s].tx] /\ Only(s)
  BY <1>1, <1>3, Parts DEF Only, SockType, KernType
<1>5. IoStep(s) /\ IoOf(s)' \notin Receiving /\ IoOf(s) # "none" /\ cb'[s] = cb[s]
  BY <1>1, <1>2, <1>4, IoStays DEF Receiving
<1> QED  BY <1>1, <1>2, <1>4, <1>5, IoGoesOn

(* send() would block: EPOLLOUT is armed and the handler ends. *)
LEMMA IoSendAgainKeeps ==
  ASSUME TypeInv, SessInv, NEW p \in Procs, IoSendAgain(p)
  PROVE  SessInv'
<1>1. IoAt(p, "send_loop") /\ Finish(p) /\ UNCHANGED <<pool, list_net_evt, list_net_req, main, cb, started, crush>>
  BY DEF IoSendAgain
<1>2. PICK s \in Sockets : /\ s = io[p].sock /\ s \notin pool /\ sock[s].proc = p /\ IoOf(s) = "send_loop"
                           /\ io[p].at = "send_loop" /\ io[p].at # "idle"
  BY <1>1, Working DEF IoLabels
<1>3. sock' = [sock EXCEPT ![s].need_send_active = FALSE] /\ kern' = [kern EXCEPT ![s].nospace = TRUE]
  BY <1>2 DEF IoSendAgain
<1>4. /\ sock'[s] = [sock[s] EXCEPT !.need_send_active = FALSE]
      /\ kern'[s] = [kern[s] EXCEPT !.nospace = TRUE] /\ Only(s)
  BY <1>1, <1>3, Parts DEF Only, SockType
<1>5. IoStep(s) /\ IoOf(s)' \in {"none", "dispatch"}
  BY <1>1, <1>2, <1>4, Finished
<1>6. IoOf(s)' \notin Receiving /\ IoOf(s) # "none" /\ cb'[s] = cb[s]
  BY <1>1, <1>2, <1>5 DEF Receiving
<1> QED  BY <1>1, <1>2, <1>4, <1>5, <1>6, IoGoesOn

(* The send cache is empty: its end is examined once more. *)
LEMMA IoSendDrainedKeeps ==
  ASSUME TypeInv, SessInv, NEW p \in Procs, IoSendDrained(p)
  PROVE  SessInv'
<1>1. IoAt(p, "send_loop") /\ GoTo(p, "send_done")
      /\ UNCHANGED <<sock, pool, list_net_evt, list_net_req, main, kern, cb, started, crush>>
  BY DEF IoSendDrained
<1>2. PICK s \in Sockets : /\ s = io[p].sock /\ s \notin pool /\ sock[s].proc = p /\ IoOf(s) = "send_loop"
                           /\ io[p].at = "send_loop" /\ io[p].at # "idle"
  BY <1>1, Working DEF IoLabels
<1>3. Only(s)
  BY <1>1 DEF Only
<1>4. IoStep(s) /\ IoOf(s)' = "send_done"
  BY <1>1, <1>2, <1>3, Went DEF Receiving
<1>5. IoOf(s)' \notin Receiving /\ IoOf(s) # "none"
  BY <1>2, <1>4 DEF Receiving
<1> QED  BY <1>1, <1>2, <1>3, <1>4, <1>5, IoGoesOn

(* Nothing is left to send: the handler ends. *)
LEMMA IoSendDoneKeeps ==
  ASSUME TypeInv, SessInv, NEW p \in Procs, IoSendDone(p)
  PROVE  SessInv'
<1>1. IoAt(p, "send_done") /\ Finish(p)
      /\ UNCHANGED <<pool, list_net_evt, list_net_req, main, kern, cb, started, crush>>
  BY DEF IoSendDone
<1>2. PICK s \in Sockets : /\ s = io[p].sock /\ s \notin pool /\ sock[s].proc = p /\ IoOf(s) = "send_done"
                           /\ io[p].at = "send_done" /\ io[p].at # "idle"
  BY <1>1, Working DEF IoLabels
<1>3. sock' = [sock EXCEPT ![s].need_send_active = TRUE]
  BY <1>2 DEF IoSendDone
<1>4. sock'[s] = [sock[s] EXCEPT !.need_send_active = TRUE] /\ Only(s)
  BY <1>1, <1>3, Parts DEF Only, SockType
<1>5. IoStep(s) /\ IoOf(s)' \in {"none", "dispatch"}
  BY <1>1, <1>2, <1>4, Finished
<1>6. IoOf(s)' \notin Receiving /\ IoOf(s) # "none" /\ cb'[s] = cb[s] /\ kern'[s] = kern[s]
  BY <1>1, <1>2, <1>5 DEF Receiving
<1> QED  BY <1>1, <1>2, <1>4, <1>5, <1>6, IoGoesOn
(* _epoll_tcp_socket_close by the io thread: the end of an established session is announced, and *)
(* the handler leaves.                                                                           *)
LEMMA IoEndKeeps ==
  ASSUME TypeInv, SessInv, crush = "none", NEW p \in Procs, NEW s \in Sockets, s = io[p].sock,
         io[p].at # "idle", sock[s].state = "ESTABLISH",
         NEW to \in {"TERMINATE", "DELETE"}, NEW t \in {"TERMINATE", "SYSTEM_ERROR"},
         Only(s), sock'[s] \in {[sock[s] EXCEPT !.state = to],
                                [sock[s] EXCEPT !.try_close_send_count = MaxTry, !.state = to]},
         PushEvt(p, Event(t, s, 0)), Finish(p) \/ io' = [io EXCEPT ![p] = IoIdle],
         UNCHANGED <<list_net_req, main, kern, cb>>
  PROVE  crush' \in {"none", "evt_full"} /\ (crush' = "none" => SessInv')
<1>1. crush' \in {"none", "evt_full"}
  BY DEF PushEvt
<1> SUFFICES ASSUME crush' = "none" PROVE SessInv'
  BY <1>1
<1>2. s \notin pool /\ sock[s].proc = p /\ IoOf(s) = io[p].at
  BY Handled
<1>3. IoOf(s) # "none" /\ sock[s] \in SockType
  BY <1>2, Parts, ZenonT(60) DEF TypeOK, IoType, IoLabels
<1>4. UsedOK(sock[s], kern[s], cb[s], ReqsOf(s), EvtsOf(s), IoOf(s), MainOf(s))
  BY <1>2, UsedView
<1>5. /\ sock'[s].state = to /\ sock'[s].proc = sock[s].proc
      /\ sock'[s].timer_close = sock[s].timer_close /\ sock'[s].timer_send = sock[s].timer_send
      /\ sock'[s].need_req_close = sock[s].need_req_close
      /\ sock'[s].need_recv_active = sock[s].need_recv_active
      /\ sock'[s].send_req = sock[s].send_req /\ sock'[s].send_ack = sock[s].send_ack
  BY <1>3 DEF SockType
<1>6. EvtsOf(s) \cap TerminalEvents = {} /\ "TERMINATE" \notin ReqsOf(s) /\ ~sock[s].timer_close
  BY <1>4 DEF UsedOK, ClosingOK
<1>7. EvtsStep(s) /\ EvtsOf(s)' = EvtsOf(s) \cup {t}
  <2>1. t \in EventTypes \ {"ACCEPT"} /\ t # "DATA" /\ t \notin EvtsOf(s)
    BY <1>6 DEF EventTypes, TerminalEvents
  <2> QED  BY <1>2, <1>6, <2>1, EvtPush
<1>8. IoStep(s) /\ IoOf(s)' \in {"none", "dispatch"}
  BY <1>2, Finished, Idled
<1>9. ReqsStep(s) /\ ReqsOf(s)' = ReqsOf(s) /\ MainStep(s) /\ MainOf(s)' = MainOf(s)
  BY <1>2, ReqsStay, MainStays, SMTT(60)
<1>10. UsedOK(sock'[s], kern'[s], cb'[s], ReqsOf(s)', EvtsOf(s)', IoOf(s)', MainOf(s)')
  <2>1. OpeningOK(sock'[s], kern'[s], cb'[s], ReqsOf(s)', EvtsOf(s)', IoOf(s)', MainOf(s)')
    BY <1>3, <1>4, <1>5, <1>8, <1>9, SMTT(60) DEF UsedOK, OpeningOK
  <2>2. ClosingOK(sock'[s], ReqsOf(s)', EvtsOf(s)', cb'[s])
    BY <1>4, <1>5, <1>6, <1>7, <1>9, ZenonT(60) DEF UsedOK, ClosingOK, TerminalEvents
  <2>3. HeardOK(sock'[s], ReqsOf(s)', EvtsOf(s)', cb'[s])
    <3>1. HeardOK(sock[s], ReqsOf(s), EvtsOf(s), cb[s]) /\ sock[s].state = "ESTABLISH" /\ cb'[s] = cb[s]
      BY <1>4 DEF UsedOK
    <3>2. t \notin {"ESTABLISH", "CONNECT_FAIL", "ACCEPT_FAIL"}
      OBVIOUS
    <3>3. HeardOK(sock'[s], ReqsOf(s), EvtsOf(s) \cup {t}, cb[s])
      BY ONLY <3>1, <3>2 DEF HeardOK
    <3> QED  BY <1>7, <1>9, <3>1, <3>3
  <2>4. ClosedOK(sock'[s], kern'[s], ReqsOf(s)', IoOf(s)', MainOf(s)')
    <3>1. /\ ClosedOK(sock[s], kern[s], ReqsOf(s), IoOf(s), MainOf(s))
          /\ sock[s].state = "ESTABLISH" /\ kern'[s] = kern[s]
      BY <1>4 DEF UsedOK
    <3>2. sock[s].need_req_close
      BY ONLY <3>1 DEF ClosedOK
    <3> QED  BY ONLY <1>5, <1>9, <3>1, <3>2 DEF ClosedOK
  <2>5. SendingOK(sock'[s], ReqsOf(s)', MainOf(s)')
    BY <1>4, <1>5, <1>9, SMTT(60) DEF UsedOK, SendingOK
  <2>6. ReadingOK(sock'[s], ReqsOf(s)', EvtsOf(s)', IoOf(s)')
    BY <1>4, <1>5, <1>7, <1>8, <1>9, Zenon DEF UsedOK, ReadingOK, Receiving
  <2> QED  BY <1>4, <1>5, <2>1, <2>2, <2>3, <2>4, <2>5, <2>6, ZenonT(60) DEF UsedOK
<1> QED  BY <1>2, <1>7, <1>8, <1>9, <1>10, OneSession

(* The io thread's use of _epoll_tcp_socket_close: the end, or nothing when it has come already. *)
LEMMA IoCloses ==
  ASSUME TypeInv, SessInv, crush = "none", NEW p \in Procs, NEW s \in Sockets, s = io[p].sock,
         io[p].at # "idle", IoClose(p, s, "system"), Finish(p) \/ io' = [io EXCEPT ![p] = IoIdle],
         UNCHANGED <<pool, list_net_req, main, kern, cb>>
  PROVE  crush' \in {"none", "evt_full"} /\ (crush' = "none" => SessInv')
<1>1. s \notin pool /\ sock[s].proc = p /\ IoOf(s) = io[p].at
  BY Handled
<1>2. CASE sock[s].state = "ESTABLISH"
  <2>1. sock' = [sock EXCEPT ![s].state = "DELETE"] /\ PushEvt(p, Event("SYSTEM_ERROR", s, 0))
    BY <1>2 DEF IoClose
  <2>2. sock'[s] = [sock[s] EXCEPT !.state = "DELETE"] /\ Only(s)
    BY <2>1, Parts DEF Only, SockType
  <2> QED  BY <1>2, <2>1, <2>2, IoEndKeeps, Zenon
<1>3. CASE sock[s].state # "ESTABLISH"
  <2>1. UNCHANGED <<sock, list_net_evt, crush>>
    BY <1>3 DEF IoClose
  <2>2. Only(s)
    BY <2>1 DEF Only
  <2>3. IoStep(s) /\ IoOf(s)' \in {"none", "dispatch"}
    BY <2>2, Finished, Idled
  <2>4. IoOf(s) # "none" /\ IoOf(s)' \notin Receiving
    BY <1>1, <2>3, Parts DEF TypeOK, IoType, IoLabels, Receiving
  <2>5. SessInv'
    BY <1>1, <2>1, <2>2, <2>3, <2>4, IoGoesOn
  <2> QED  BY <2>1, <2>5
<1> QED  BY <1>2, <1>3

(* send() failed: the session is closed from the io thread. *)
LEMMA IoSendErrorKeeps ==
  ASSUME TypeInv, SessInv, crush = "none", NEW p \in Procs, IoSendError(p)
  PROVE  crush' \in {"none", "evt_full"} /\ (crush' = "none" => SessInv')
<1>1. IoAt(p, "send_loop") /\ Finish(p) /\ UNCHANGED <<pool, list_net_req, main, kern, cb, started>>
  BY DEF IoSendError
<1>2. PICK s \in Sockets : /\ s = io[p].sock /\ s \notin pool /\ sock[s].proc = p /\ IoOf(s) = "send_loop"
                           /\ io[p].at = "send_loop" /\ io[p].at # "idle"
  BY <1>1, Working DEF IoLabels
<1>3. IoClose(p, s, "system")
  BY <1>2 DEF IoSendError
<1> QED  BY <1>1, <1>2, <1>3, IoCloses

(* EPOLLERR: a connection attempt fails, or an established session ends. *)
LEMMA IoOnErrorKeeps ==
  ASSUME TypeInv, SessInv, crush = "none", NEW p \in Procs, IoOnError(p)
  PROVE  crush' \in {"none", "evt_full"} /\ (crush' = "none" => SessInv')
<1>1. IoAt(p, "dispatch") /\ io' = [io EXCEPT ![p] = IoIdle]
      /\ UNCHANGED <<pool, list_net_req, main, kern, cb, started>>
  BY DEF IoOnError
<1>2. PICK s \in Sockets : /\ s = io[p].sock /\ s \notin pool /\ sock[s].proc = p /\ IoOf(s) = "dispatch"
                           /\ io[p].at = "dispatch" /\ io[p].at # "idle"
  BY <1>1, Working DEF IoLabels
<1>3. CASE sock[s].state # "CONNECT"
  <2>1. IoClose(p, s, "system")
    BY <1>2, <1>3 DEF IoOnError
  <2> QED  BY <1>1, <1>2, <2>1, IoCloses
<1>4. CASE sock[s].state = "CONNECT"
  <2>1. sock' = [sock EXCEPT ![s].state = "DELETE"] /\ PushEvt(p, Event("CONNECT_FAIL", s, 0))
    BY <1>2, <1>4 DEF IoOnError
  <2>2. crush' \in {"none", "evt_full"}
    BY <2>1 DEF PushEvt
  <2> SUFFICES ASSUME crush' = "none" PROVE SessInv'
    BY <2>2
  <2>3. sock'[s] = [sock[s] EXCEPT !.state = "DELETE"] /\ sock[s] \in SockType /\ Only(s)
    BY <1>1, <2>1, Parts DEF Only, SockType
  <2>4. EvtsOf(s) = {} /\ ReqsOf(s) = {} /\ MainOf(s) = "none" /\ cb[s] = "connecting"
    BY <1>2, <1>4, UsedView DEF UsedOK, OpeningOK
  <2>5. EvtsStep(s) /\ EvtsOf(s)' = {"CONNECT_FAIL"}
    <3>1. "CONNECT_FAIL" \in EventTypes \ {"ACCEPT"} /\ "CONNECT_FAIL" # "DATA"
      BY DEF EventTypes
    <3> QED  BY <1>2, <2>1, <2>3, <2>4, <3>1, EvtPush
  <2>6. IoStep(s) /\ IoOf(s)' = "none"
    BY <1>1, <1>2, <2>3, Idled
  <2>7. ReqsStep(s) /\ ReqsOf(s)' = ReqsOf(s) /\ MainStep(s) /\ MainOf(s)' = MainOf(s)
    BY <1>1, <1>2, <2>3, ReqsStay, MainStays
  <2>8. UsedOK(sock'[s], kern'[s], cb'[s], ReqsOf(s)', EvtsOf(s)', IoOf(s)', MainOf(s)')
    <3>1. UsedOK(sock[s], kern[s], cb[s], ReqsOf(s), EvtsOf(s), IoOf(s), MainOf(s))
          /\ kern'[s] = kern[s] /\ cb'[s] = cb[s]
      BY <1>1, <1>2, UsedView
    <3> QED  BY <1>4, <2>3, <2>4, <2>5, <2>6, <2>7, <3>1
         DEF UsedOK, OpeningOK, ClosingOK, HeardOK, ClosedOK, SendingOK, ReadingOK, Counted, SockType,
         Receiving, TerminalEvents
  <2> QED  BY <1>2, <2>3, <2>5, <2>6, <2>7, <2>8, OneSession
<1> QED  BY <1>3, <1>4
-----------------------------------------------------------------------------
(* Receiving. *)
LEMMA IoRecvEnterKeeps ==
  ASSUME TypeInv, SessInv, NEW p \in Procs, IoRecvEnter(p)
  PROVE  SessInv'
<1>1. IoAt(p, "recv") /\ UNCHANGED <<sock, pool, list_net_evt, list_net_req, main, kern, cb, started, crush>>
  BY DEF IoRecvEnter
<1>2. PICK s \in Sockets : /\ s = io[p].sock /\ s \notin pool /\ sock[s].proc = p /\ IoOf(s) = "recv"
                           /\ io[p].at = "recv" /\ io[p].at # "idle"
  BY <1>1, Working DEF IoLabels
<1>3. Only(s) /\ sock'[s] = sock[s] /\ kern'[s] = kern[s] /\ cb'[s] = cb[s]
  BY <1>1 DEF Only
<1>4. CASE Finish(p)
  <2>1. IoStep(s) /\ IoOf(s)' \in {"none", "dispatch"}
    BY <1>2, <1>3, <1>4, Finished
  <2>2. IoOf(s)' \notin Receiving /\ IoOf(s) # "none"
    BY <1>2, <2>1 DEF Receiving
  <2> QED  BY <1>1, <1>2, <1>3, <2>1, <2>2, IoGoesOn
<1>5. CASE GoTo(p, "recv_loop") /\ sock[s].state = "ESTABLISH" /\ ~sock[s].need_recv_active
  <2>1. IoStep(s) /\ IoOf(s)' = "recv_loop"
    BY <1>2, <1>3, <1>5, Went DEF Receiving
  <2>2. /\ ReqsStep(s) /\ EvtsStep(s) /\ MainStep(s)
        /\ ReqsOf(s)' = ReqsOf(s) /\ EvtsOf(s)' = EvtsOf(s) /\ MainOf(s)' = MainOf(s)
    BY <1>1, <1>2, <1>3, QuietSteps
  <2>3. UsedOK(sock'[s], kern'[s], cb'[s], ReqsOf(s)', EvtsOf(s)', IoOf(s)', MainOf(s)')
    <3>1. UsedOK(sock[s], kern[s], cb[s], ReqsOf(s), EvtsOf(s), IoOf(s), MainOf(s))
      BY <1>2, UsedView
    <3> QED  BY <1>2, <1>3, <1>5, <2>1, <2>2, <3>1
         DEF UsedOK, OpeningOK, ClosingOK, HeardOK, ClosedOK, SendingOK, ReadingOK, Counted, SockType,
         Receiving, TerminalEvents
  <2> QED  BY <1>2, <1>3, <2>1, <2>2, <2>3, OneSession
<1> QED  BY <1>2, <1>4, <1>5 DEF IoRecvEnter

(* recv() gave some bytes. *)
LEMMA IoRecvSomeKeeps ==
  ASSUME TypeInv, SessInv, NEW p \in Procs, IoRecvSome(p)
  PROVE  SessInv'
<1>1. IoAt(p, "recv_loop") /\ UNCHANGED <<pool, list_net_evt, list_net_req, main, cb, started, crush>>
  BY DEF IoRecvSome
<1>2. PICK s \in Sockets : /\ s = io[p].sock /\ s \notin pool /\ sock[s].proc = p /\ IoOf(s) = "recv_loop"
                           /\ io[p].at = "recv_loop" /\ io[p].at # "idle"
  BY <1>1, Working DEF IoLabels
<1>3. PICK n \in 1 .. kern[s].rx : /\ sock' = [sock EXCEPT ![s].recv_used = @ + n]
                                   /\ kern' = [kern EXCEPT ![s].rx = @ - n]
                                   /\ io' = [io EXCEPT ![p].got = @ + n]
  BY <1>2 DEF IoRecvSome
<1>4. /\ sock'[s] = [sock[s] EXCEPT !.recv_used = sock'[s].recv_used]
      /\ kern'[s] = [kern[s] EXCEPT !.rx = kern'[s].rx] /\ Only(s)
  BY <1>1, <1>3, Parts DEF Only, SockType, KernType
<1>5. PICK r : io' = [io EXCEPT ![p] = r] /\ r.sock = s /\ r.at = "recv_loop"
  <2>1. io \in [Procs -> IoType]
    BY Parts DEF TypeOK
  <2> DEFINE r == [io[p] EXCEPT !.got = @ + n]
  <2>2. io' = [io EXCEPT ![p] = r] /\ r.sock = s /\ r.at = "recv_loop"
    BY <1>2, <1>3, <2>1 DEF IoType
  <2> QED  BY <2>2
<1>6. IoStep(s) /\ IoOf(s)' = "recv_loop"
  <2>1. r.at \in Receiving /\ Only(s) /\ s = io[p].sock /\ io[p].at # "idle"
        /\ io' = [io EXCEPT ![p] = r] /\ r.sock = s
    BY <1>2, <1>4, <1>5 DEF Receiving
  <2>2. IoStep(s) /\ IoOf(s)' = r.at
    BY <2>1, Reads
  <2> QED  BY <1>5, <2>2
<1>7. IoOf(s) \in Receiving /\ IoOf(s) # "none" /\ cb'[s] = cb[s]
  BY <1>1, <1>2 DEF Receiving
<1> QED  BY <1>1, <1>2, <1>4, <1>6, <1>7, IoGoesOn

(* recv() gives no more: what was read is to be announced. *)
LEMMA IoRecvStopKeeps ==
  ASSUME TypeInv, SessInv, NEW p \in Procs, IoRecvStop(p)
  PROVE  SessInv'
<1>1. IoAt(p, "recv_loop")
      /\ UNCHANGED <<sock, pool, list_net_evt, list_net_req, main, kern, cb, started, crush>>
  BY DEF IoRecvStop
<1>2. PICK s \in Sockets : /\ s = io[p].sock /\ s \notin pool /\ sock[s].proc = p /\ IoOf(s) = "recv_loop"
                           /\ io[p].at = "recv_loop" /\ io[p].at # "idle"
  BY <1>1, Working DEF IoLabels
<1>3. PICK why : io' = [io EXCEPT ![p].at = "recv_flush", ![p].why = why]
  BY DEF IoRecvStop
<1>4. PICK r : io' = [io EXCEPT ![p] = r] /\ r.sock = s /\ r.at = "recv_flush"
  <2>1. io \in [Procs -> IoType]
    BY Parts DEF TypeOK
  <2> DEFINE r == [io[p] EXCEPT !.at = "recv_flush", !.why = why]
  <2>2. io' = [io EXCEPT ![p] = r] /\ r.sock = s /\ r.at = "recv_flush"
    BY <1>2, <1>3, <2>1, ZenonT(60) DEF IoType
  <2> QED  BY <2>2
<1>5. Only(s)
  BY <1>1 DEF Only
<1>6. IoStep(s) /\ IoOf(s)' = "recv_flush"
  BY <1>2, <1>4, <1>5, Reads DEF Receiving
<1>7. IoOf(s) \in Receiving /\ IoOf(s) # "none"
  BY <1>2 DEF Receiving
<1> QED  BY <1>1, <1>2, <1>5, <1>6, <1>7, IoGoesOn

(* Announcing what was read. *)
LEMMA IoRecvFlushKeeps ==
  ASSUME TypeInv, SessInv, crush = "none", NEW p \in Procs, IoRecvFlush(p)
  PROVE  crush' \in {"none", "evt_full"} /\ (crush' = "none" => SessInv')
<1>1. IoAt(p, "recv_flush") /\ GoTo(p, "recv_end")
      /\ UNCHANGED <<sock, pool, list_net_req, main, kern, cb, started>>
  BY DEF IoRecvFlush
<1>2. PICK s \in Sockets : /\ s = io[p].sock /\ s \notin pool /\ sock[s].proc = p /\ IoOf(s) = "recv_flush"
                           /\ io[p].at = "recv_flush" /\ io[p].at # "idle"
  BY <1>1, Working DEF IoLabels
<1>3. Only(s) /\ sock'[s] = sock[s] /\ kern'[s] = kern[s] /\ cb'[s] = cb[s]
  BY <1>1 DEF Only
<1>4. IoStep(s) /\ IoOf(s)' = "recv_end"
  BY <1>1, <1>2, <1>3, Went DEF Receiving
<1>5. IoOf(s) \in Receiving /\ IoOf(s) # "none" /\ IoOf(s)' \in Receiving /\ IoOf(s)' # "none"
  BY <1>2, <1>4 DEF Receiving
<1>6. CASE UNCHANGED <<list_net_evt, crush>>
  <2>1. SessInv'
    BY <1>1, <1>2, <1>3, <1>4, <1>5, <1>6, IoGoesOn
  <2> QED  BY <1>6, <2>1
<1>7. CASE sock[s].state = "ESTABLISH" /\ PushEvt(p, Event("DATA", s, io[p].got))
  <2>1. crush' \in {"none", "evt_full"}
    BY <1>7 DEF PushEvt
  <2> SUFFICES ASSUME crush' = "none" PROVE SessInv'
    BY <2>1
  <2>2. UsedOK(sock[s], kern[s], cb[s], ReqsOf(s), EvtsOf(s), IoOf(s), MainOf(s))
    BY <1>2, UsedView
  <2>3. EvtsOf(s) \cap TerminalEvents = {} /\ ~sock[s].timer_close
    BY <1>7, <2>2 DEF UsedOK, ClosingOK
  <2>4. EvtsStep(s) /\ EvtsOf(s)' = EvtsOf(s) \cup {"DATA"}
    <3>1. "DATA" \in EventTypes \ {"ACCEPT"} /\ io[p].got \in Nat
      BY Parts DEF EventTypes, TypeOK, IoType
    <3> HIDE DEF EventTypes
    <3>2. PICK n \in Nat : n = io[p].got
      BY <3>1
    <3>3. PushEvt(p, Event("DATA", s, n))
      BY <1>7, <3>2
    <3> QED  BY <1>2, <1>3, <2>3, <3>1, <3>3, EvtPush
  <2>5. ReqsStep(s) /\ ReqsOf(s)' = ReqsOf(s) /\ MainStep(s) /\ MainOf(s)' = MainOf(s)
    BY <1>1, <1>2, <1>3, ReqsStay, MainStays
  <2>6. UsedOK(sock'[s], kern'[s], cb'[s], ReqsOf(s)', EvtsOf(s)', IoOf(s)', MainOf(s)')
    BY <1>2, <1>3, <1>4, <1>5, <1>7, <2>2, <2>3, <2>4, <2>5
       DEF UsedOK, OpeningOK, ClosingOK, HeardOK, ClosedOK, SendingOK, ReadingOK, Counted, SockType,
         Receiving, TerminalEvents
  <2> QED  BY <1>2, <1>3, <1>4, <2>4, <2>5, <2>6, OneSession
<1> QED  BY <1>2, <1>6, <1>7 DEF IoRecvFlush

(* recv() would block: the handler ends. *)
LEMMA IoRecvAgainKeeps ==
  ASSUME TypeInv, SessInv, NEW p \in Procs, IoRecvAgain(p)
  PROVE  SessInv'
<1>1. IoAt(p, "recv_end") /\ Finish(p)
      /\ UNCHANGED <<sock, pool, list_net_evt, list_net_req, main, kern, cb, started, crush>>
  BY DEF IoRecvAgain
<1>2. PICK s \in Sockets : /\ s = io[p].sock /\ s \notin pool /\ sock[s].proc = p /\ IoOf(s) = "recv_end"
                           /\ io[p].at = "recv_end" /\ io[p].at # "idle"
  BY <1>1, Working DEF IoLabels
<1>3. Only(s)
  BY <1>1 DEF Only
<1>4. IoStep(s) /\ IoOf(s)' \in {"none", "dispatch"}
  BY <1>1, <1>2, <1>3, Finished
<1>5. IoOf(s)' \notin Receiving /\ IoOf(s) # "none"
  BY <1>2, <1>4 DEF Receiving
<1> QED  BY <1>1, <1>2, <1>3, <1>4, <1>5, IoGoesOn

(* The cache is full: reading is suspended, and the token that resumes it is pushed. *)
LEMMA IoRecvFullKeeps ==
  ASSUME TypeInv, SessInv, crush = "none", NEW p \in Procs, IoRecvFull(p)
  PROVE  crush' \in {"none", "evt_full"} /\ (crush' = "none" => SessInv')
<1>1. IoAt(p, "recv_end") /\ Finish(p) /\ UNCHANGED <<pool, list_net_req, main, kern, cb, started>>
  BY DEF IoRecvFull
<1>2. PICK s \in Sockets : /\ s = io[p].sock /\ s \notin pool /\ sock[s].proc = p /\ IoOf(s) = "recv_end"
                           /\ io[p].at = "recv_end" /\ io[p].at # "idle"
  BY <1>1, Working DEF IoLabels
<1>3. PushEvt(p, Event("RECV_ACTIVATE", s, 0)) /\ sock' = [sock EXCEPT ![s].need_recv_active = TRUE]
  BY <1>2 DEF IoRecvFull
<1>4. crush' \in {"none", "evt_full"}
  BY <1>3 DEF PushEvt
<1> SUFFICES ASSUME crush' = "none" PROVE SessInv'
  BY <1>4
<1>5. sock'[s] = [sock[s] EXCEPT !.need_recv_active = TRUE] /\ sock[s] \in SockType /\ Only(s)
      /\ kern'[s] = kern[s] /\ cb'[s] = cb[s]
  BY <1>1, <1>3, Parts DEF Only, SockType
<1>6. UsedOK(sock[s], kern[s], cb[s], ReqsOf(s), EvtsOf(s), IoOf(s), MainOf(s))
  BY <1>2, UsedView
<1>7. /\ EvtsOf(s) \cap TerminalEvents = {} /\ ~sock[s].timer_close
      /\ "RECV_ACTIVATE" \notin EvtsOf(s) /\ "RECV_ACTIVATE" \notin ReqsOf(s)
  BY <1>2, <1>6 DEF UsedOK, ReadingOK, Receiving
<1>8. EvtsStep(s) /\ EvtsOf(s)' = EvtsOf(s) \cup {"RECV_ACTIVATE"}
  <2>1. "RECV_ACTIVATE" \in EventTypes \ {"ACCEPT"} /\ "RECV_ACTIVATE" # "DATA"
    BY DEF EventTypes
  <2> QED  BY <1>2, <1>3, <1>5, <1>7, <2>1, EvtPush
<1>9. IoStep(s) /\ IoOf(s)' \in {"none", "dispatch"}
  BY <1>1, <1>2, <1>5, Finished
<1>10. ReqsStep(s) /\ ReqsOf(s)' = ReqsOf(s) /\ MainStep(s) /\ MainOf(s)' = MainOf(s)
  BY <1>1, <1>2, <1>5, ReqsStay, MainStays, SMTT(60)
<1>11. UsedOK(sock'[s], kern'[s], cb'[s], ReqsOf(s)', EvtsOf(s)', IoOf(s)', MainOf(s)')
  BY <1>2, <1>5, <1>6, <1>7, <1>8, <1>9, <1>10
     DEF UsedOK, OpeningOK, ClosingOK, HeardOK, ClosedOK, SendingOK, ReadingOK, Counted, SockType,
         Receiving, TerminalEvents
<1> QED  BY <1>2, <1>5, <1>8, <1>9, <1>10, <1>11, OneSession

(* The peer has shut down. *)
LEMMA IoRecvEofKeeps ==
  ASSUME TypeInv, SessInv, crush = "none", NEW p \in Procs, IoRecvEof(p)
  PROVE  crush' \in {"none", "evt_full"} /\ (crush' = "none" => SessInv')
<1>1. IoAt(p, "recv_end") /\ Finish(p) /\ UNCHANGED <<pool, list_net_req, main, kern, cb, started>>
  BY SMTT(60) DEF IoRecvEof
<1>2. PICK s \in Sockets : /\ s = io[p].sock /\ s \notin pool /\ sock[s].proc = p /\ IoOf(s) = "recv_end"
                           /\ io[p].at = "recv_end" /\ io[p].at # "idle"
  BY <1>1, Working DEF IoLabels
<1>3. CASE sock[s].state = "ESTABLISH"
  <2>1. sock' = [sock EXCEPT ![s].try_close_send_count = MaxTry, ![s].state = "TERMINATE"]
        /\ PushEvt(p, Event("TERMINATE", s, 0))
    BY <1>2, <1>3 DEF IoRecvEof
  <2>2. sock'[s] = [sock[s] EXCEPT !.try_close_send_count = MaxTry, !.state = "TERMINATE"] /\ Only(s)
    BY <1>1, <2>1, Parts DEF Only, SockType
  <2> QED  BY <1>1, <1>2, <1>3, <2>1, <2>2, IoEndKeeps, Zenon
<1>4. CASE sock[s].state # "ESTABLISH"
  <2>1. sock' = [sock EXCEPT ![s].try_close_send_count = MaxTry] /\ UNCHANGED <<list_net_evt, crush>>
    BY <1>2, <1>4 DEF IoRecvEof
  <2>2. sock'[s] = [sock[s] EXCEPT !.try_close_send_count = MaxTry] /\ sock[s] \in SockType /\ Only(s)
    BY <1>1, <2>1, Parts DEF Only, SockType
  <2>3. IoStep(s) /\ IoOf(s)' \in {"none", "dispatch"}
    BY <1>1, <1>2, <2>2, Finished
  <2>4. IoOf(s) # "none" /\ IoOf(s)' \notin Receiving
    BY <1>2, <2>3 DEF Receiving
  <2>5. /\ ReqsStep(s) /\ EvtsStep(s) /\ MainStep(s)
        /\ ReqsOf(s)' = ReqsOf(s) /\ EvtsOf(s)' = EvtsOf(s) /\ MainOf(s)' = MainOf(s)
    BY ONLY TypeInv, SessInv, crush = "none", p \in Procs, s \in Sockets, <1>1, <1>2, <2>1, <2>2, QuietSteps, SMTT(60)
  <2>6. UsedOK(sock'[s], kern'[s], cb'[s], ReqsOf(s)', EvtsOf(s)', IoOf(s)', MainOf(s)')
    <3>1. UsedOK(sock[s], kern[s], cb[s], ReqsOf(s), EvtsOf(s), IoOf(s), MainOf(s))
          /\ kern'[s] = kern[s] /\ cb'[s] = cb[s]
      BY <1>1, <1>2, UsedView
    <3> QED  BY <1>2, <2>2, <2>3, <2>4, <2>5, <3>1
         DEF UsedOK, OpeningOK, ClosingOK, HeardOK, ClosedOK, SendingOK, ReadingOK, Counted, SockType,
         Receiving, TerminalEvents
  <2>7. SessInv'
    BY <1>2, <2>2, <2>3, <2>5, <2>6, OneSession
  <2> QED  BY <2>1, <2>7
<1> QED  BY <1>3, <1>4

(* recv() failed: the session is closed from the io thread. *)
LEMMA IoRecvErrorKeeps ==
  ASSUME TypeInv, SessInv, crush = "none", NEW p \in Procs, IoRecvError(p)
  PROVE  crush' \in {"none", "evt_full"} /\ (crush' = "none" => SessInv')
<1>1. IoAt(p, "recv_end") /\ Finish(p) /\ UNCHANGED <<pool, list_net_req, main, kern, cb, started>>
  BY DEF IoRecvError
<1>2. PICK s \in Sockets : /\ s = io[p].sock /\ s \notin pool /\ sock[s].proc = p /\ IoOf(s) = "recv_end"
                           /\ io[p].at = "recv_end" /\ io[p].at # "idle"
  BY <1>1, Working DEF IoLabels
<1>3. IoClose(p, s, "system")
  BY <1>2 DEF IoRecvError
<1> QED  BY <1>1, <1>2, <1>3, IoCloses
-----------------------------------------------------------------------------
(* The main thread.  Between two handlers it is with no session. *)
LEMMA MainFree ==
  ASSUME TypeInv, SessInv, MainAt("idle")
  PROVE  main.sock = NoSock /\ \A x \in Sockets : MainOf(x) = "none"
BY Parts DEF MainHome, MainAt, MainOf

(* Inside one of the checks it is with a session in use. *)
LEMMA MainWith ==
  ASSUME TypeInv, SessInv, NEW label \in {"send_check", "active_check", "close_check"}, MainAt(label)
  PROVE  \E s \in Sockets : s = main.sock /\ s \notin pool /\ MainOf(s) = label
<1>1. main.sock # NoSock /\ main.sock \in Sockets \cup {NoSock}
  BY Parts DEF MainHome, MainAt, TypeOK
<1>2. main.sock \notin pool
  BY <1>1 DEF SessInv, SessionsOK, SessionOK
<1> QED  BY <1>1, <1>2 DEF MainOf, MainAt

(* on_establish *)
LEMMA MainEvtEstablishKeeps ==
  ASSUME TypeInv, SessInv, NEW p \in Procs, MainEvtEstablish(p)
  PROVE  SessInv'
<1>1. TakeEvt(p, {"ESTABLISH"}) /\ UNCHANGED <<pool, list_net_req, io, main, kern, started, crush>>
  BY DEF MainEvtEstablish
<1>2. PICK s \in Sockets : s = Head(list_net_evt[p]).sock
  BY <1>1, EvtHead
<1>3. s \notin pool /\ sock[s].proc = p
  BY <1>1, <1>2, EvtHead
<1>4. sock' = [sock EXCEPT ![s].timer_send = TRUE] /\ cb' = [cb EXCEPT ![s] = "up"]
  BY <1>2 DEF MainEvtEstablish
<1>5. /\ sock'[s] = [sock[s] EXCEPT !.timer_send = TRUE] /\ sock[s] \in SockType /\ Only(s)
      /\ cb'[s] = "up" /\ kern'[s] = kern[s]
  BY <1>1, <1>4, Parts DEF Only, SockType
<1>6. PICK type : type = Head(list_net_evt[p]).type
  OBVIOUS
<1>7. EvtsStep(s) /\ type = "ESTABLISH" /\ "ESTABLISH" \in EvtsOf(s) /\ EvtsOf(s)' = EvtsOf(s) \ {"ESTABLISH"}
  BY <1>1, <1>2, <1>5, <1>6, EvtTake
<1>8. ReqsStep(s) /\ ReqsOf(s)' = ReqsOf(s) /\ MainStep(s) /\ MainOf(s)' = MainOf(s)
      /\ IoStep(s) /\ IoOf(s)' = IoOf(s)
  BY <1>1, <1>3, <1>5, ReqsStay, MainStays, IoStays
<1>9. UsedOK(sock'[s], kern'[s], cb'[s], ReqsOf(s)', EvtsOf(s)', IoOf(s)', MainOf(s)')
  <2>1. UsedOK(sock[s], kern[s], cb[s], ReqsOf(s), EvtsOf(s), IoOf(s), MainOf(s))
    BY <1>3, UsedView
  <2> QED  BY <1>5, <1>7, <1>8, <2>1
       DEF UsedOK, OpeningOK, ClosingOK, HeardOK, ClosedOK, SendingOK, ReadingOK, Counted, SockType,
         Receiving, TerminalEvents
<1> QED  BY <1>3, <1>5, <1>7, <1>8, <1>9, OneSession

(* The end of a session is heard, and the close timer started. *)
LEMMA MainEvtEndKeeps ==
  ASSUME TypeInv, SessInv, NEW p \in Procs, MainEvtEnd(p)
  PROVE  SessInv'
<1>1. TakeEvt(p, TerminalEvents) /\ UNCHANGED <<pool, list_net_req, io, main, kern, started, crush>>
  BY DEF MainEvtEnd
<1>2. PICK s \in Sockets : s = Head(list_net_evt[p]).sock
  BY <1>1, EvtHead DEF TerminalEvents
<1>3. s \notin pool /\ sock[s].proc = p
  BY <1>1, <1>2, EvtHead DEF TerminalEvents
<1>4. PICK type : type = Head(list_net_evt[p]).type
  OBVIOUS
<1>5. /\ sock' = [sock EXCEPT ![s].timer_send = FALSE, ![s].timer_close = TRUE]
      /\ cb' = IF type = "ACCEPT_FAIL" THEN cb ELSE [cb EXCEPT ![s] = "down"]
  BY <1>2, <1>4 DEF MainEvtEnd, ArmTimerClose
<1>6. /\ sock'[s] = [sock[s] EXCEPT !.timer_send = FALSE, !.timer_close = TRUE] /\ sock[s] \in SockType
      /\ Only(s) /\ cb'[s] = (IF type = "ACCEPT_FAIL" THEN cb[s] ELSE "down") /\ kern'[s] = kern[s]
  BY <1>1, <1>5, Parts DEF Only, SockType
<1>7. EvtsStep(s) /\ type \in TerminalEvents /\ type \in EvtsOf(s) /\ EvtsOf(s)' = {}
  BY <1>1, <1>2, <1>4, <1>6, EvtTake
<1>8. ReqsStep(s) /\ ReqsOf(s)' = ReqsOf(s) /\ MainStep(s) /\ MainOf(s)' = MainOf(s)
      /\ IoStep(s) /\ IoOf(s)' = IoOf(s)
  BY <1>1, <1>3, <1>6, ReqsStay, MainStays, IoStays
<1>9. UsedOK(sock'[s], kern'[s], cb'[s], ReqsOf(s)', EvtsOf(s)', IoOf(s)', MainOf(s)')
  <2>1. UsedOK(sock[s], kern[s], cb[s], ReqsOf(s), EvtsOf(s), IoOf(s), MainOf(s))
    BY <1>3, UsedView
  <2> QED  BY <1>6, <1>7, <1>8, <2>1
       DEF UsedOK, OpeningOK, ClosingOK, HeardOK, ClosedOK, SendingOK, ReadingOK, Counted, SockType,
         Receiving, TerminalEvents
<1> QED  BY <1>3, <1>6, <1>7, <1>8, <1>9, OneSession

(* _epoll_tcp_socket_close by the main thread: the session ends with the request, however many *)
(* of its events are still on their way.                                                       *)
LEMMA MainClosesKeeps ==
  ASSUME TypeInv, SessInv, crush = "none", NEW s \in Sockets, s \notin pool, sock[s].state = "ESTABLISH",
         Only(s), sock'[s] \in {[sock[s] EXCEPT !.state = "TERMINATE"],
                                [sock[s] EXCEPT !.data_has_recv = sock'[s].data_has_recv,
                                   !.recv_used = sock'[s].recv_used, !.state = "TERMINATE"]},
         NEW error \in {"ok", "module"}, PushReq(sock[s].proc, Request("TERMINATE", s, error)),
         EvtsStep(s), EvtsOf(s)' \subseteq EvtsOf(s), EvtsOf(s) \subseteq EvtsOf(s)' \cup {"DATA", "RECV_ACTIVATE"},
         UNCHANGED <<io, main, kern, cb>>
  PROVE  crush' \in {"none", "req_full"} /\ (crush' = "none" => SessInv')
<1>1. crush' \in {"none", "req_full"}
  BY DEF PushReq
<1> SUFFICES ASSUME crush' = "none" PROVE SessInv'
  BY <1>1
<1>2. UsedOK(sock[s], kern[s], cb[s], ReqsOf(s), EvtsOf(s), IoOf(s), MainOf(s)) /\ sock[s] \in SockType
  BY UsedView, Parts
<1>3. /\ sock'[s].state = "TERMINATE" /\ sock'[s].proc = sock[s].proc
      /\ sock'[s].timer_close = sock[s].timer_close /\ sock'[s].timer_send = sock[s].timer_send
      /\ sock'[s].need_req_close = sock[s].need_req_close
      /\ sock'[s].need_recv_active = sock[s].need_recv_active
      /\ sock'[s].send_req = sock[s].send_req /\ sock'[s].send_ack = sock[s].send_ack
  BY <1>2, ZenonT(60) DEF SockType
<1>4. /\ "TERMINATE" \notin ReqsOf(s) /\ "CLOSE_SOCKET" \notin ReqsOf(s) /\ EvtsOf(s) \cap TerminalEvents = {}
      /\ ~sock[s].timer_close
  BY <1>2 DEF UsedOK, ClosingOK, ClosedOK
<1>5. ReqsStep(s) /\ ReqsOf(s)' = ReqsOf(s) \cup {"TERMINATE"}
  <2>1. "TERMINATE" \in RequestTypes \ {"ACCEPT_FAIL"} /\ error \in {"none", "ok", "module"}
    BY DEF RequestTypes
  <2> QED  BY <1>4, <2>1, ReqPush
<1>6. MainStep(s) /\ MainOf(s)' = MainOf(s) /\ IoStep(s) /\ IoOf(s)' = IoOf(s)
  BY MainStays, IoStays
<1>7. UsedOK(sock'[s], kern'[s], cb'[s], ReqsOf(s)', EvtsOf(s)', IoOf(s)', MainOf(s)')
  <2>1. OpeningOK(sock'[s], kern'[s], cb'[s], ReqsOf(s)', EvtsOf(s)', IoOf(s)', MainOf(s)')
    BY <1>2, <1>3, <1>5, <1>6 DEF UsedOK, OpeningOK
  <2>2. ClosingOK(sock'[s], ReqsOf(s)', EvtsOf(s)', cb'[s])
    BY <1>2, <1>3, <1>4, <1>5 DEF UsedOK, ClosingOK, TerminalEvents
  <2>3. HeardOK(sock'[s], ReqsOf(s)', EvtsOf(s)', cb'[s])
    BY <1>2, <1>3, <1>4 DEF UsedOK, HeardOK, TerminalEvents
  <2>4. ClosedOK(sock'[s], kern'[s], ReqsOf(s)', IoOf(s)', MainOf(s)')
    BY <1>2, <1>3, <1>4, <1>5, <1>6 DEF UsedOK, ClosedOK
  <2>5. SendingOK(sock'[s], ReqsOf(s)', MainOf(s)')
    BY <1>2, <1>3, <1>5, <1>6 DEF UsedOK, SendingOK, Counted
  <2>6. ReadingOK(sock'[s], ReqsOf(s)', EvtsOf(s)', IoOf(s)')
    BY <1>2, <1>3, <1>4, <1>5, <1>6 DEF UsedOK, ReadingOK
  <2> QED  BY <1>2, <1>3, <2>1, <2>2, <2>3, <2>4, <2>5, <2>6 DEF UsedOK
<1> QED  BY <1>5, <1>6, <1>7, OneSession

(* A packet is parsed out of what the DATA events announced, or found to be malformed. *)
LEMMA MainEvtDataKeeps ==
  ASSUME TypeInv, SessInv, crush = "none", NEW p \in Procs, MainEvtData(p), crush' # "recv_cache_short"
  PROVE  crush' \in {"none", "req_full"} /\ (crush' = "none" => SessInv')
<1>1. TakeEvt(p, {"DATA"}) /\ UNCHANGED <<pool, io, main, kern, cb, started>>
  BY DEF MainEvtData
<1>2. PICK s \in Sockets : s = Head(list_net_evt[p]).sock
  BY <1>1, EvtHead
<1>3. s \notin pool /\ sock[s].proc = p
  BY <1>1, <1>2, EvtHead, SMTT(60)
<1>4. PICK m, n : LET f == [sock EXCEPT ![s].data_has_recv = m, ![s].recv_used = n]
                  IN (sock' = f /\ UNCHANGED <<list_net_req, crush>>) \/ MainClose(s, "module", f)
  BY <1>2, Zenon DEF MainEvtData
<1>5. PICK type : type = Head(list_net_evt[p]).type
  OBVIOUS
<1> DEFINE f == [sock EXCEPT ![s].data_has_recv = m, ![s].recv_used = n]
<1>6. CASE sock[s].state = "ESTABLISH" /\ sock' = [f EXCEPT ![s].state = "TERMINATE"]
           /\ PushReq(p, Request("TERMINATE", s, "module"))
  <2>1. sock[s] \in SockType /\ sock \in [Sockets -> SockType]
    BY Parts
  <2>2. sock'[s] = [sock[s] EXCEPT !.data_has_recv = m, !.recv_used = n, !.state = "TERMINATE"]
    BY <1>6, <2>1 DEF SockType
  <2>3. sock'[s].data_has_recv = m /\ sock'[s].recv_used = n /\ Only(s)
    BY <1>1, <1>6, <2>1, <2>2 DEF SockType, Only
  <2>4. EvtsStep(s) /\ EvtsOf(s) = EvtsOf(s)' \cup {"DATA"}
    BY <1>1, <1>2, <1>5, <2>3, EvtTake
  <2> QED  BY <1>1, <1>3, <1>6, <2>2, <2>3, <2>4, MainClosesKeeps, Zenon
<1>7. CASE sock' = f /\ UNCHANGED <<list_net_req, crush>>
  <2>1. sock[s] \in SockType /\ sock \in [Sockets -> SockType]
    BY Parts
  <2>2. sock'[s] = [sock[s] EXCEPT !.data_has_recv = m, !.recv_used = n] /\ Only(s)
        /\ kern'[s] = kern[s] /\ cb'[s] = cb[s]
    BY <1>1, <1>7, <2>1 DEF SockType, Only
  <2>3. EvtsStep(s) /\ EvtsOf(s) = EvtsOf(s)' \cup {"DATA"}
    BY <1>1, <1>2, <1>5, <2>2, EvtTake
  <2>4. ReqsStep(s) /\ ReqsOf(s)' = ReqsOf(s) /\ MainStep(s) /\ MainOf(s)' = MainOf(s)
        /\ IoStep(s) /\ IoOf(s)' = IoOf(s)
    BY <1>1, <1>3, <1>7, <2>2, ReqsStay, MainStays, IoStays
  <2>5. UsedOK(sock'[s], kern'[s], cb'[s], ReqsOf(s)', EvtsOf(s)', IoOf(s)', MainOf(s)')
    <3>1. UsedOK(sock[s], kern[s], cb[s], ReqsOf(s), EvtsOf(s), IoOf(s), MainOf(s))
      BY <1>3, UsedView
    <3> QED  BY <2>1, <2>2, <2>3, <2>4, <3>1
         DEF UsedOK, OpeningOK, ClosingOK, HeardOK, ClosedOK, SendingOK, ReadingOK, Counted, SockType,
         Receiving, TerminalEvents
  <2>6. SessInv'
    BY <1>3, <2>2, <2>3, <2>4, <2>5, OneSession
  <2> QED  BY <1>7, <2>6
<1> QED  BY <1>3, <1>4, <1>6, <1>7, SMTT(60) DEF MainClose

(* The token comes back: reading resumes, or the session ends. *)
LEMMA MainEvtRecvActivateKeeps ==
  ASSUME TypeInv, SessInv, crush = "none", NEW p \in Procs, MainEvtRecvActivate(p)
  PROVE  crush' \in {"none", "req_full"} /\ (crush' = "none" => SessInv')
<1>1. TakeEvt(p, {"RECV_ACTIVATE"}) /\ UNCHANGED <<pool, io, main, kern, cb, started>>
  BY DEF MainEvtRecvActivate
<1>2. PICK s \in Sockets : s = Head(list_net_evt[p]).sock
  BY <1>1, EvtHead
<1>3. s \notin pool /\ sock[s].proc = p
  BY <1>1, <1>2, EvtHead
<1>4. PICK type : type = Head(list_net_evt[p]).type
  OBVIOUS
<1>5. CASE sock[s].state = "ESTABLISH" /\ sock' = [sock EXCEPT ![s].state = "TERMINATE"]
           /\ PushReq(p, Request("TERMINATE", s, "module"))
  <2>1. sock'[s] = [sock[s] EXCEPT !.state = "TERMINATE"] /\ Only(s)
    BY <1>1, <1>5, Parts DEF SockType, Only
  <2>2. EvtsStep(s) /\ EvtsOf(s) = EvtsOf(s)' \cup {"RECV_ACTIVATE"}
    BY <1>1, <1>2, <1>4, <2>1, EvtTake
  <2> QED  BY <1>1, <1>3, <1>5, <2>1, <2>2, MainClosesKeeps, Zenon
<1>6. CASE UNCHANGED sock
  <2>1. sock'[s] = sock[s] /\ Only(s) /\ kern'[s] = kern[s] /\ cb'[s] = cb[s]
    BY <1>1, <1>6 DEF Only
  <2>2. /\ EvtsStep(s) /\ type = "RECV_ACTIVATE" /\ "RECV_ACTIVATE" \in EvtsOf(s)
        /\ EvtsOf(s)' = EvtsOf(s) \ {"RECV_ACTIVATE"}
    BY <1>1, <1>2, <1>4, <2>1, EvtTake
  <2>3. UsedOK(sock[s], kern[s], cb[s], ReqsOf(s), EvtsOf(s), IoOf(s), MainOf(s))
    BY <1>3, UsedView
  <2>4. MainStep(s) /\ MainOf(s)' = MainOf(s) /\ IoStep(s) /\ IoOf(s)' = IoOf(s)
    BY <1>1, <1>3, <2>1, MainStays, IoStays
  <2>5. CASE UNCHANGED <<list_net_req, crush>> /\ sock[s].state # "ESTABLISH"
    <3>1. ReqsStep(s) /\ ReqsOf(s)' = ReqsOf(s)
      BY <1>3, <2>1, <2>5, ReqsStay
    <3>2. UsedOK(sock'[s], kern'[s], cb'[s], ReqsOf(s)', EvtsOf(s)', IoOf(s)', MainOf(s)')
      BY <2>1, <2>2, <2>3, <2>4, <2>5, <3>1
         DEF UsedOK, OpeningOK, ClosingOK, HeardOK, ClosedOK, SendingOK, ReadingOK, Counted, SockType,
         Receiving, TerminalEvents
    <3>3. SessInv'
      BY <1>3, <2>1, <2>2, <2>4, <3>1, <3>2, OneSession
    <3> QED  BY <2>5, <3>3
  <2>6. CASE sock[s].state = "ESTABLISH" /\ PushReq(p, Request("RECV_ACTIVATE", s, "none"))
    <3>1. crush' \in {"none", "req_full"}
      BY <2>6 DEF PushReq
    <3> SUFFICES ASSUME crush' = "none" PROVE SessInv'
      BY <3>1
    <3>2. "RECV_ACTIVATE" \notin ReqsOf(s) /\ "CLOSE_SOCKET" \notin ReqsOf(s)
      BY <2>2, <2>3, <2>6 DEF UsedOK, ReadingOK, ClosedOK
    <3>3. ReqsStep(s) /\ ReqsOf(s)' = ReqsOf(s) \cup {"RECV_ACTIVATE"}
      <4>1. "RECV_ACTIVATE" \in RequestTypes \ {"ACCEPT_FAIL"}
        BY DEF RequestTypes
      <4> QED  BY <1>3, <2>1, <2>6, <3>2, <4>1, ReqPush
    <3>4. UsedOK(sock'[s], kern'[s], cb'[s], ReqsOf(s)', EvtsOf(s)', IoOf(s)', MainOf(s)')
      BY <2>1, <2>2, <2>3, <2>4, <2>6, <3>2, <3>3
         DEF UsedOK, OpeningOK, ClosingOK, HeardOK, ClosedOK, SendingOK, ReadingOK, Counted, SockType,
         Receiving, TerminalEvents
    <3> QED  BY <1>3, <2>1, <2>2, <2>4, <3>3, <3>4, OneSession
  <2> QED
    <3>1. \/ PushReq(p, Request("RECV_ACTIVATE", s, "none")) /\ sock[s].state = "ESTABLISH"
          \/ MainClose(s, "module", sock)
      BY <1>2 DEF MainEvtRecvActivate
    <3>2. CASE MainClose(s, "module", sock)
      <4>1. CASE sock[s].state = "ESTABLISH"
        <5>1. sock'[s].state = "TERMINATE"
          BY <3>2, <4>1, Parts DEF MainClose, SockType
        <5> QED  BY <1>6, <4>1, <5>1
      <4> QED  BY <2>5, <3>2, <4>1 DEF MainClose
    <3> QED  BY <2>6, <3>1, <3>2
<1> QED
  <2>1. \/ UNCHANGED sock
        \/ MainClose(s, "module", sock)
    BY <1>2 DEF MainEvtRecvActivate
  <2> QED  BY <1>3, <1>5, <1>6, <2>1 DEF MainClose
-----------------------------------------------------------------------------
(* The three tests before a SEND request. *)
LEMMA MainSendCheckKeeps ==
  ASSUME TypeInv, SessInv, MainSendCheck
  PROVE  SessInv'
<1>1. MainAt("send_check")
      /\ UNCHANGED <<sock, pool, list_net_evt, list_net_req, io, kern, cb, started, crush>>
  BY DEF MainSendCheck
<1>2. PICK s \in Sockets : s = main.sock /\ s \notin pool /\ MainOf(s) = "send_check"
  BY <1>1, MainWith
<1>3. \/ sock[s].send_req = sock[s].send_ack /\ MainGo("active_check", s)
      \/ main' = MainIdle
  BY <1>2 DEF MainSendCheck
<1>4. Only(s) /\ sock'[s] = sock[s] /\ kern'[s] = kern[s] /\ cb'[s] = cb[s] /\ sock[s] \in SockType
  BY <1>1, Parts DEF Only
<1>5. ReqsStep(s) /\ ReqsOf(s)' = ReqsOf(s) /\ EvtsStep(s) /\ EvtsOf(s)' = EvtsOf(s)
      /\ IoStep(s) /\ IoOf(s)' = IoOf(s)
  BY <1>1, <1>2, <1>4, ReqsStay, EvtsStay, IoStays
<1>6. MainStep(s) /\ (MainOf(s)' = "none" \/ (MainOf(s)' = "active_check" /\ sock[s].send_req = sock[s].send_ack))
  BY <1>2, <1>3, MainGoes, MainRests
<1>7. UsedOK(sock'[s], kern'[s], cb'[s], ReqsOf(s)', EvtsOf(s)', IoOf(s)', MainOf(s)')
  <2>1. UsedOK(sock[s], kern[s], cb[s], ReqsOf(s), EvtsOf(s), IoOf(s), MainOf(s))
    BY <1>2, UsedView
  <2> QED  BY <1>2, <1>4, <1>5, <1>6, <2>1
       DEF UsedOK, OpeningOK, ClosingOK, HeardOK, ClosedOK, SendingOK, ReadingOK, Counted, SockType,
         Receiving, TerminalEvents
<1> QED  BY <1>2, <1>4, <1>5, <1>6, <1>7, OneSession

(* The second look at the full receive cache: reading is resumed by a request. *)
LEMMA MainActiveCheckKeeps ==
  ASSUME TypeInv, SessInv, crush = "none", MainActiveCheck
  PROVE  crush' \in {"none", "req_full"} /\ (crush' = "none" => SessInv')
<1>1. MainAt("active_check") /\ main' = MainIdle /\ UNCHANGED <<pool, list_net_evt, io, kern, cb, started>>
  BY DEF MainActiveCheck
<1>2. PICK s \in Sockets : s = main.sock /\ s \notin pool /\ MainOf(s) = "active_check"
  BY <1>1, MainWith
<1>3. UsedOK(sock[s], kern[s], cb[s], ReqsOf(s), EvtsOf(s), IoOf(s), MainOf(s)) /\ sock[s] \in SockType
  BY <1>2, UsedView, Parts
<1>4. CASE sock' = [sock EXCEPT ![s].send_req = @ + 1] /\ PushReq(sock[s].proc, Request("SEND", s, "none"))
  <2>1. crush' \in {"none", "req_full"}
    BY <1>4 DEF PushReq
  <2> SUFFICES ASSUME crush' = "none" PROVE SessInv'
    BY <2>1
  <2>2. sock'[s] = [sock[s] EXCEPT !.send_req = @ + 1] /\ Only(s) /\ kern'[s] = kern[s] /\ cb'[s] = cb[s]
    BY <1>1, <1>4, Parts DEF Only, SockType
  <2>3. "SEND" \notin ReqsOf(s) /\ "CLOSE_SOCKET" \notin ReqsOf(s)
    BY <1>2, <1>3 DEF UsedOK, SendingOK, ClosedOK
  <2>4. ReqsStep(s) /\ ReqsOf(s)' = ReqsOf(s) \cup {"SEND"}
    <3>1. "SEND" \in RequestTypes \ {"ACCEPT_FAIL"}
      BY DEF RequestTypes
    <3> QED  BY <1>2, <1>4, <2>2, <2>3, <3>1, ReqPush
  <2>5. EvtsStep(s) /\ EvtsOf(s)' = EvtsOf(s) /\ IoStep(s) /\ IoOf(s)' = IoOf(s)
    BY <1>1, <1>2, <2>2, EvtsStay, IoStays
  <2>6. MainStep(s) /\ MainOf(s)' = "none"
    BY <1>1, <1>2, MainRests
  <2>7. UsedOK(sock'[s], kern'[s], cb'[s], ReqsOf(s)', EvtsOf(s)', IoOf(s)', MainOf(s)')
    BY <1>2, <1>3, <2>2, <2>3, <2>4, <2>5, <2>6
       DEF UsedOK, OpeningOK, ClosingOK, HeardOK, ClosedOK, SendingOK, ReadingOK, Counted, SockType,
         Receiving, TerminalEvents
  <2> QED  BY <1>2, <2>2, <2>4, <2>5, <2>6, <2>7, OneSession
<1>5. CASE UNCHANGED <<sock, list_net_req, crush>>
  <2>1. Only(s) /\ sock'[s] = sock[s] /\ kern'[s] = kern[s] /\ cb'[s] = cb[s]
    BY <1>1, <1>5 DEF Only
  <2>2. ReqsStep(s) /\ ReqsOf(s)' = ReqsOf(s) /\ EvtsStep(s) /\ EvtsOf(s)' = EvtsOf(s)
        /\ IoStep(s) /\ IoOf(s)' = IoOf(s)
    BY <1>1, <1>2, <1>5, <2>1, ReqsStay, EvtsStay, IoStays
  <2>3. MainStep(s) /\ MainOf(s)' = "none"
    BY <1>1, <1>2, MainRests
  <2>4. UsedOK(sock'[s], kern'[s], cb'[s], ReqsOf(s)', EvtsOf(s)', IoOf(s)', MainOf(s)')
    BY <1>2, <1>3, <2>1, <2>2, <2>3
       DEF UsedOK, OpeningOK, ClosingOK, HeardOK, ClosedOK, SendingOK, ReadingOK, Counted, SockType,
         Receiving, TerminalEvents
  <2>5. SessInv'
    BY <1>2, <2>1, <2>2, <2>3, <2>4, OneSession
  <2> QED  BY <1>5, <2>5
<1> QED  BY <1>2, <1>4, <1>5 DEF MainActiveCheck

(* The main thread enters the send checks, after what it did to fields of no account. *)
LEMMA MainChecks ==
  ASSUME TypeInv, SessInv, MainAt("idle"), NEW s \in Sockets, s \notin pool, Only(s),
         sock[s].state = "ESTABLISH" \/ sock[s].state = "TERMINATE",
         sock'[s] \in {sock[s], [sock[s] EXCEPT !.try_close_send_count = @ + 1],
                       [sock[s] EXCEPT !.data_need_send = sock'[s].data_need_send]},
         UNCHANGED main \/ MainGo("send_check", s),
         UNCHANGED <<list_net_req, list_net_evt, io, kern, cb>>
  PROVE  SessInv'
<1>1. UsedOK(sock[s], kern[s], cb[s], ReqsOf(s), EvtsOf(s), IoOf(s), MainOf(s)) /\ sock[s] \in SockType
  BY UsedView, Parts
<1>2. /\ sock'[s].state = sock[s].state /\ sock'[s].proc = sock[s].proc
      /\ sock'[s].timer_close = sock[s].timer_close /\ sock'[s].timer_send = sock[s].timer_send
      /\ sock'[s].need_req_close = sock[s].need_req_close
      /\ sock'[s].need_recv_active = sock[s].need_recv_active
      /\ sock'[s].send_req = sock[s].send_req /\ sock'[s].send_ack = sock[s].send_ack
  BY <1>1 DEF SockType
<1>3. main.sock = NoSock /\ MainOf(s) = "none"
  BY MainFree
<1>4. MainStep(s) /\ MainOf(s)' \in {"none", "send_check"}
  BY <1>3, MainGoes, MainStays
<1>5. ReqsStep(s) /\ ReqsOf(s)' = ReqsOf(s) /\ EvtsStep(s) /\ EvtsOf(s)' = EvtsOf(s)
      /\ IoStep(s) /\ IoOf(s)' = IoOf(s)
  BY ReqsStay, EvtsStay, IoStays
<1>6. UsedOK(sock'[s], kern'[s], cb'[s], ReqsOf(s)', EvtsOf(s)', IoOf(s)', MainOf(s)')
  <2>1. OpeningOK(sock'[s], kern'[s], cb'[s], ReqsOf(s)', EvtsOf(s)', IoOf(s)', MainOf(s)')
    BY <1>1, <1>2, <1>5 DEF UsedOK, OpeningOK
  <2>2. ClosingOK(sock'[s], ReqsOf(s)', EvtsOf(s)', cb'[s])
    BY <1>1, <1>2, <1>5 DEF UsedOK, ClosingOK
  <2>3. HeardOK(sock'[s], ReqsOf(s)', EvtsOf(s)', cb'[s])
    BY <1>1, <1>2, <1>5 DEF UsedOK, HeardOK
  <2>4. ClosedOK(sock'[s], kern'[s], ReqsOf(s)', IoOf(s)', MainOf(s)')
    BY <1>1, <1>2, <1>4, <1>5 DEF UsedOK, ClosedOK
  <2>5. SendingOK(sock'[s], ReqsOf(s)', MainOf(s)')
    BY <1>1, <1>2, <1>4, <1>5 DEF UsedOK, SendingOK
  <2>6. ReadingOK(sock'[s], ReqsOf(s)', EvtsOf(s)', IoOf(s)')
    BY <1>1, <1>2, <1>5 DEF UsedOK, ReadingOK
  <2> QED  BY <1>1, <1>2, <2>1, <2>2, <2>3, <2>4, <2>5, <2>6 DEF UsedOK
<1> QED  BY <1>4, <1>5, <1>6, OneSession

(* A slot whose timers run is not in the pool. *)
LEMMA Timed ==
  ASSUME SessInv, NEW s \in Sockets, sock[s].timer_send \/ sock[s].timer_close
  PROVE  s \notin pool
BY DEF SessInv, SessionsOK, SessionOK, FreeOK

(* The send timer starts the checks before a send. *)
LEMMA MainTimerSendKeeps ==
  ASSUME TypeInv, SessInv, NEW s \in Sockets, MainTimerSend(s)
  PROVE  SessInv'
<1>1. /\ MainAt("idle") /\ sock[s].timer_send /\ sock[s].state = "ESTABLISH" /\ MainGo("send_check", s)
      /\ UNCHANGED <<sock, pool, list_net_evt, list_net_req, io, kern, cb, started, crush>>
  BY DEF MainTimerSend
<1>2. s \notin pool /\ Only(s)
  BY <1>1, Timed DEF Only
<1> QED  BY <1>1, <1>2, MainChecks

(* The close timer tries once more to send what is left. *)
LEMMA MainTimerCloseFlushKeeps ==
  ASSUME TypeInv, SessInv, NEW s \in Sockets, MainTimerCloseFlush(s)
  PROVE  SessInv'
<1>1. /\ MainAt("idle") /\ sock[s].timer_close /\ sock[s].state = "TERMINATE" /\ MainGo("send_check", s)
      /\ sock' = [sock EXCEPT ![s].try_close_send_count = @ + 1]
      /\ UNCHANGED <<pool, list_net_evt, list_net_req, io, kern, cb, started, crush>>
  BY DEF MainTimerCloseFlush, TimerCloseDue
<1>2. s \notin pool /\ Only(s) /\ sock'[s] = [sock[s] EXCEPT !.try_close_send_count = @ + 1]
  BY <1>1, Timed, Parts DEF Only, SockType
<1> QED  BY <1>1, <1>2, MainChecks

(* The close timer gives up, and the session goes to DELETE. *)
LEMMA MainTimerCloseGiveUpKeeps ==
  ASSUME TypeInv, SessInv, NEW s \in Sockets, MainTimerCloseGiveUp(s)
  PROVE  SessInv'
<1>1. /\ MainAt("idle") /\ sock[s].timer_close /\ sock[s].state = "TERMINATE"
      /\ UNCHANGED <<pool, list_net_evt, list_net_req, io, main, kern, cb, started, crush>>
  BY DEF MainTimerCloseGiveUp, TimerCloseDue
<1>2. PICK n : sock' = [sock EXCEPT ![s].state = "DELETE", ![s].try_close_send_count = n]
  <2>1. sock' = [sock EXCEPT ![s].state = "DELETE",
                   ![s].try_close_send_count = IF @ < MaxTry THEN @ + 1 ELSE @]
    BY DEF MainTimerCloseGiveUp
  <2> DEFINE c == sock[s].try_close_send_count
  <2>2. sock' = [sock EXCEPT ![s].state = "DELETE", ![s].try_close_send_count = IF c < MaxTry THEN c + 1 ELSE c]
    BY <2>1, Parts DEF SockType
  <2> QED  BY <2>2
<1>3. /\ s \notin pool /\ Only(s) /\ kern'[s] = kern[s] /\ cb'[s] = cb[s] /\ sock[s] \in SockType
      /\ sock'[s] = [sock[s] EXCEPT !.state = "DELETE", !.try_close_send_count = n]
  BY <1>1, <1>2, Timed, Parts DEF Only, SockType
<1>4. ReqsStep(s) /\ ReqsOf(s)' = ReqsOf(s) /\ EvtsStep(s) /\ EvtsOf(s)' = EvtsOf(s)
      /\ IoStep(s) /\ IoOf(s)' = IoOf(s) /\ MainStep(s) /\ MainOf(s)' = MainOf(s)
  BY <1>1, <1>3, ReqsStay, EvtsStay, IoStays, MainStays
<1>5. UsedOK(sock'[s], kern'[s], cb'[s], ReqsOf(s)', EvtsOf(s)', IoOf(s)', MainOf(s)')
  <2>1. UsedOK(sock[s], kern[s], cb[s], ReqsOf(s), EvtsOf(s), IoOf(s), MainOf(s))
    BY <1>3, UsedView
  <2> QED  BY <1>1, <1>3, <1>4, <2>1
       DEF UsedOK, OpeningOK, ClosingOK, HeardOK, ClosedOK, SendingOK, ReadingOK, Counted, SockType,
         Receiving, TerminalEvents
<1> QED  BY <1>3, <1>4, <1>5, OneSession

(* The one request that closes. *)
LEMMA MainTimerCloseRequestKeeps ==
  ASSUME TypeInv, SessInv, crush = "none", NEW s \in Sockets, MainTimerCloseRequest(s)
  PROVE  crush' \in {"none", "req_full"} /\ (crush' = "none" => SessInv')
<1>1. /\ MainAt("idle") /\ sock[s].timer_close /\ sock[s].state = "DELETE" /\ sock[s].need_req_close
      /\ sock' = [sock EXCEPT ![s].need_req_close = FALSE, ![s].send_req = @ + 1]
      /\ PushReq(sock[s].proc, Request("CLOSE_SOCKET", s, "none")) /\ MainGo("close_check", s)
      /\ UNCHANGED <<pool, list_net_evt, io, kern, cb, started>>
  BY DEF MainTimerCloseRequest, TimerCloseDue
<1>2. crush' \in {"none", "req_full"}
  BY <1>1 DEF PushReq
<1> SUFFICES ASSUME crush' = "none" PROVE SessInv'
  BY <1>2
<1>3. /\ s \notin pool /\ Only(s) /\ kern'[s] = kern[s] /\ cb'[s] = cb[s] /\ sock[s] \in SockType
      /\ sock'[s] = [sock[s] EXCEPT !.need_req_close = FALSE, !.send_req = @ + 1]
  BY <1>1, Timed, Parts DEF Only, SockType
<1>4. UsedOK(sock[s], kern[s], cb[s], ReqsOf(s), EvtsOf(s), IoOf(s), MainOf(s))
  BY <1>3, UsedView
<1>5. "CLOSE_SOCKET" \notin ReqsOf(s)
  BY <1>1, <1>4 DEF UsedOK, ClosedOK
<1>6. ReqsStep(s) /\ ReqsOf(s)' = ReqsOf(s) \cup {"CLOSE_SOCKET"}
  <2>1. "CLOSE_SOCKET" \in RequestTypes \ {"ACCEPT_FAIL"}
    BY DEF RequestTypes
  <2> QED  BY <1>1, <1>3, <1>5, <2>1, ReqPush
<1>7. EvtsStep(s) /\ EvtsOf(s)' = EvtsOf(s) /\ IoStep(s) /\ IoOf(s)' = IoOf(s)
  BY <1>1, <1>3, EvtsStay, IoStays
<1>8. MainStep(s) /\ MainOf(s)' = "close_check" /\ MainOf(s) = "none"
  BY <1>1, MainGoes, MainFree
<1>9. UsedOK(sock'[s], kern'[s], cb'[s], ReqsOf(s)', EvtsOf(s)', IoOf(s)', MainOf(s)')
  <2>1. /\ sock'[s].state = "DELETE" /\ sock'[s].proc = sock[s].proc
        /\ sock'[s].timer_close /\ sock'[s].timer_send = sock[s].timer_send
        /\ ~sock'[s].need_req_close
        /\ sock'[s].need_recv_active = sock[s].need_recv_active
        /\ sock'[s].send_req = sock[s].send_req + 1 /\ sock'[s].send_ack = sock[s].send_ack
        /\ sock[s].send_req \in Nat /\ sock[s].send_ack \in Nat
    <3>1. /\ sock'[s].state = sock[s].state /\ sock'[s].proc = sock[s].proc
          /\ sock'[s].timer_close = sock[s].timer_close /\ sock'[s].timer_send = sock[s].timer_send
          /\ sock'[s].need_recv_active = sock[s].need_recv_active
      BY <1>3 DEF SockType
    <3>2. sock'[s].need_req_close = FALSE
      BY <1>3 DEF SockType
    <3>3. /\ sock'[s].send_req = sock[s].send_req + 1 /\ sock'[s].send_ack = sock[s].send_ack
          /\ sock[s].send_req \in Nat /\ sock[s].send_ack \in Nat
      BY <1>3 DEF SockType
    <3> QED  BY <1>1, <3>1, <3>2, <3>3
  <2>2. OpeningOK(sock'[s], kern'[s], cb'[s], ReqsOf(s)', EvtsOf(s)', IoOf(s)', MainOf(s)')
    BY <1>1, <1>3, <1>4, <1>6, <1>7, <2>1 DEF UsedOK, OpeningOK
  <2>3. ClosingOK(sock'[s], ReqsOf(s)', EvtsOf(s)', cb'[s])
    BY <1>1, <1>3, <1>4, <1>6, <1>7, <2>1 DEF UsedOK, ClosingOK
  <2>4. HeardOK(sock'[s], ReqsOf(s)', EvtsOf(s)', cb'[s])
    BY <1>1, <1>3, <1>4, <1>6, <1>7, <2>1 DEF UsedOK, HeardOK
  <2>5. ClosedOK(sock'[s], kern'[s], ReqsOf(s)', IoOf(s)', MainOf(s)')
    BY <1>6, <1>8, <2>1 DEF ClosedOK
  <2>6. SendingOK(sock'[s], ReqsOf(s)', MainOf(s)')
    <3>1. /\ sock[s].send_req - sock[s].send_ack
             = Counted("SEND" \in ReqsOf(s)) + Counted("CLOSE_SOCKET" \in ReqsOf(s))
      BY <1>4 DEF UsedOK, SendingOK
    <3>2. sock[s].send_req - sock[s].send_ack = Counted("SEND" \in ReqsOf(s))
      BY <1>5, <3>1 DEF Counted
    <3>3. CASE "SEND" \in ReqsOf(s)
      <4>1. "SEND" \in ReqsOf(s)' /\ "CLOSE_SOCKET" \in ReqsOf(s)'
        BY <1>6, <3>3
      <4> QED  BY <1>8, <2>1, <3>2, <3>3, <4>1 DEF SendingOK, Counted
    <3>4. CASE "SEND" \notin ReqsOf(s)
      <4>1. "SEND" \notin ReqsOf(s)' /\ "CLOSE_SOCKET" \in ReqsOf(s)'
        BY <1>6, <3>4
      <4> QED  BY <1>8, <2>1, <3>2, <3>4, <4>1 DEF SendingOK, Counted
    <3> QED  BY <3>3, <3>4
  <2>7. ReadingOK(sock'[s], ReqsOf(s)', EvtsOf(s)', IoOf(s)')
    BY <1>1, <1>3, <1>4, <1>6, <1>7, <2>1 DEF UsedOK, ReadingOK
  <2> QED  BY <1>4, <2>1, <2>2, <2>3, <2>4, <2>5, <2>6, <2>7 DEF UsedOK
<1> QED  BY <1>3, <1>6, <1>7, <1>8, <1>9, OneSession

(* A slot returns to the pool: its counters say that its io thread is done with it, and the end *)
(* it announced was its last event.                                                             *)
LEMMA ReleaseKeeps ==
  ASSUME TypeInv, SessInv, NEW s \in Sockets, s \notin pool, Release(s),
         ~sock[s].need_req_close, main' = MainIdle, main.sock \in {s, NoSock},
         UNCHANGED <<list_net_evt, list_net_req, io>>
  PROVE  SessInv'
<1>1. UsedOK(sock[s], kern[s], cb[s], ReqsOf(s), EvtsOf(s), IoOf(s), MainOf(s)) /\ sock[s] \in SockType
  BY UsedView, Parts
<1>2. ReqsOf(s) = {} /\ EvtsOf(s) = {} /\ IoOf(s) = "none" /\ ~sock[s].timer_send
  BY <1>1 DEF UsedOK, SendingOK, ClosedOK, ClosingOK, Counted, Release, SockType
<1>3. /\ sock' = [sock EXCEPT ![s].sock_fd = FALSE, ![s].timer_close = FALSE]
      /\ kern' = [kern EXCEPT ![s] = NoDescriptor] /\ cb' = [cb EXCEPT ![s] = "idle"]
      /\ pool' = pool \cup {s}
  BY DEF Release
<1>4. /\ sock'[s] = [sock[s] EXCEPT !.sock_fd = FALSE, !.timer_close = FALSE]
      /\ kern'[s] = NoDescriptor /\ cb'[s] = "idle"
      /\ \A x \in Sockets : x # s => sock'[x] = sock[x] /\ kern'[x] = kern[x] /\ cb'[x] = cb[x]
  BY <1>3, Parts DEF SockType
<1>5. HomesKept
  <2> SUFFICES ASSUME NEW x \in Sockets \ pool
               PROVE  sock'[x].proc = sock[x].proc
                      /\ (x \in pool' => ReqsOf(x) = {} /\ EvtsOf(x) = {} /\ IoOf(x) = "none")
    BY DEF HomesKept
  <2>1. sock'[s].proc = sock[s].proc
    BY <1>1, <1>4 DEF SockType
  <2> QED  BY <1>2, <1>3, <1>4, <2>1
<1>6. /\ ReqsInv' /\ EvtsInv' /\ IoHome'
      /\ \A x \in Sockets \ pool : ReqsOf(x)' = ReqsOf(x) /\ EvtsOf(x)' = EvtsOf(x) /\ IoOf(x)' = IoOf(x)
  BY <1>5, Parts, ReqsKept, EvtsKept, IoKept
<1>7. MainHome' /\ \A x \in Sockets : main'.sock # x /\ (x # s => MainOf(x)' = MainOf(x))
  <2>1. main'.at = "idle" /\ main'.sock = NoSock
    BY DEF MainIdle
  <2> QED  BY <2>1, Parts DEF MainHome, MainOf
<1>8. ASSUME NEW x \in Sockets PROVE SessionOK(x)'
  <2>1. CASE x = s
    <3>1. FreeOK(sock'[s], kern'[s], cb'[s])
      BY <1>1, <1>2, <1>4 DEF FreeOK, SockType
    <3> QED  BY <1>3, <1>7, <2>1, <3>1 DEF SessionOK
  <2>2. CASE x # s /\ x \in pool
    BY <1>3, <1>4, <1>7, <2>2 DEF SessInv, SessionsOK, SessionOK
  <2>3. CASE x # s /\ x \notin pool
    <3>1. UsedOK(sock[x], kern[x], cb[x], ReqsOf(x), EvtsOf(x), IoOf(x), MainOf(x))
      BY <2>3, UsedView
    <3>2. /\ sock'[x] = sock[x] /\ kern'[x] = kern[x] /\ cb'[x] = cb[x] /\ MainOf(x)' = MainOf(x)
          /\ ReqsOf(x)' = ReqsOf(x) /\ EvtsOf(x)' = EvtsOf(x) /\ IoOf(x)' = IoOf(x)
      BY <1>4, <1>6, <1>7, <2>3
    <3>3. UsedOK(sock'[x], kern'[x], cb'[x], ReqsOf(x)', EvtsOf(x)', IoOf(x)', MainOf(x)')
      BY <3>1, <3>2
    <3> QED  BY <1>3, <2>3, <3>3 DEF SessionOK
  <2> QED  BY <2>1, <2>2, <2>3
<1> QED  BY <1>6, <1>7, <1>8 DEF SessInv, SessionsOK

(* The last check before the slot goes back to the pool. *)
LEMMA MainCloseCheckKeeps ==
  ASSUME TypeInv, SessInv, MainCloseCheck
  PROVE  SessInv'
<1>1. MainAt("close_check") /\ main' = MainIdle /\ UNCHANGED <<list_net_evt, list_net_req, io, started, crush>>
  BY DEF MainCloseCheck
<1>2. PICK s \in Sockets : s = main.sock /\ s \notin pool /\ MainOf(s) = "close_check"
  BY <1>1, MainWith
<1>3. UsedOK(sock[s], kern[s], cb[s], ReqsOf(s), EvtsOf(s), IoOf(s), MainOf(s)) /\ sock[s] \in SockType
  BY <1>2, UsedView, Parts
<1>4. CASE Release(s)
  <2>1. ~sock[s].need_req_close
    BY <1>2, <1>3 DEF UsedOK, ClosedOK
  <2> QED  BY <1>1, <1>2, <1>4, <2>1, ReleaseKeeps
<1>5. CASE UNCHANGED <<sock, kern, pool, cb>>
  <2>1. Only(s) /\ sock'[s] = sock[s] /\ kern'[s] = kern[s] /\ cb'[s] = cb[s]
    BY <1>5 DEF Only
  <2>2. ReqsStep(s) /\ ReqsOf(s)' = ReqsOf(s) /\ EvtsStep(s) /\ EvtsOf(s)' = EvtsOf(s)
        /\ IoStep(s) /\ IoOf(s)' = IoOf(s)
    BY <1>1, <1>2, <2>1, ReqsStay, EvtsStay, IoStays
  <2>3. MainStep(s) /\ MainOf(s)' = "none"
    BY <1>1, <1>2, MainRests
  <2>4. UsedOK(sock'[s], kern'[s], cb'[s], ReqsOf(s)', EvtsOf(s)', IoOf(s)', MainOf(s)')
    BY <1>2, <1>3, <2>1, <2>2, <2>3
       DEF UsedOK, OpeningOK, ClosingOK, HeardOK, ClosedOK, SendingOK, ReadingOK, Counted, SockType,
         Receiving, TerminalEvents
  <2> QED  BY <1>2, <2>1, <2>2, <2>3, <2>4, OneSession
<1> QED  BY <1>2, <1>4, <1>5 DEF MainCloseCheck

(* The close timer only finds a session that is closing. *)
LEMMA MainTimerCloseReleaseKeeps ==
  ASSUME TypeInv, SessInv, crush = "none", NEW s \in Sockets, MainTimerCloseRelease(s)
  PROVE  crush' = "none" /\ SessInv'
<1>1. /\ MainAt("idle") /\ sock[s].timer_close /\ sock[s].state # "TERMINATE"
      /\ UNCHANGED <<list_net_evt, list_net_req, io, main, started>>
  BY DEF MainTimerCloseRelease
<1>2. s \notin pool
  BY <1>1, Timed
<1>3. sock[s].state = "DELETE"
  BY <1>1, <1>2, UsedView DEF UsedOK, ClosingOK
<1>4. ~sock[s].need_req_close /\ Release(s) /\ crush' = "none"
  BY <1>3 DEF MainTimerCloseRelease
<1>5. main.sock = NoSock /\ main' = MainIdle
  <2>1. main.sock = NoSock /\ main.at = "idle" /\ main \in [at : {"idle", "send_check", "active_check", "close_check"}, sock : Sockets \cup {NoSock}]
    BY <1>1, MainFree, Parts DEF MainAt, TypeOK
  <2> QED  BY <1>1, <2>1 DEF MainIdle
<1> QED  BY <1>1, <1>2, <1>4, <1>5, ReleaseKeeps
-----------------------------------------------------------------------------
(* A slot leaves the pool with the request that opens its session: nothing refers to it yet. *)
LEMMA SessionOpens ==
  ASSUME TypeInv, SessInv, NEW s \in Sockets, s \in pool, NEW q \in Procs, pool' = pool \ {s},
         NEW r, r \in SockType, sock' = [sock EXCEPT ![s] = r], r.proc = q,
         ~r.timer_close /\ r.need_req_close = TRUE /\ r.need_recv_active = FALSE,
         r.send_req = 0 /\ r.send_ack = 0,
         \A x \in Sockets : x # s => kern'[x] = kern[x] /\ cb'[x] = cb[x],
         NEW t, \/ t = "CONNECT" /\ r.state = "CONNECT" /\ kern'[s] = NoDescriptor /\ cb'[s] = "connecting"
                \/ t = "ACCEPT" /\ r.state = "NONE" /\ ~kern'[s].interest /\ cb'[s] = "idle",
         PushReq(q, Request(t, s, "none")), crush' = "none", UNCHANGED <<io, main>>,
         EvtsInv', TypesIn(list_net_evt'[q], s) = {},
         \A x \in Sockets \ pool : EvtsOf(x)' = EvtsOf(x)
  PROVE  SessInv'
<1>1. sock'[s] = r /\ \A x \in Sockets : x # s => sock'[x] = sock[x]
  BY Parts
<1>2. HomesKept
  BY <1>1 DEF HomesKept
<1>3. TypeOK /\ ReqsInv /\ EvtsInv /\ IoHome /\ MainHome /\ NoSock \notin Sockets
  BY Parts
<1>4. ReqsInv' /\ ReqsOf(s)' = {t} /\ \A x \in Sockets \ pool : ReqsOf(x)' = ReqsOf(x)
  <2> DEFINE e == Request(t, s, "none")
  <2>1. e \in RequestType /\ e.sock = s /\ e.type = t /\ t # "ACCEPT_FAIL"
    <3>1. t \in RequestTypes
      BY DEF RequestTypes
    <3> QED  BY <3>1, RequestTyped DEF Request
  <2>2. list_net_req' = [list_net_req EXCEPT ![q] = Append(@, e)]
    BY DEF PushReq
  <2> HIDE DEF e
  <2>3. TypesIn(list_net_req[q], s) = {}
    BY <1>3, PoolUnqueued
  <2>4. /\ e.sock = NoSock <=> e.type = "ACCEPT_FAIL"
        /\ e.sock \in Sockets =>
           /\ e.sock \notin pool' /\ sock'[e.sock].proc = q
           /\ e.type \notin TypesIn(list_net_req[q], e.sock)
           /\ "CLOSE_SOCKET" \notin TypesIn(list_net_req[q], e.sock)
    BY <1>1, <1>3, <2>1, <2>3
  <2>5. /\ ReqsInv'
        /\ e.sock \in Sockets => ReqsOf(e.sock)' = TypesIn(list_net_req[q], e.sock) \cup {e.type}
        /\ \A x \in Sockets \ pool : sock[x].proc \in Procs /\ x # e.sock => ReqsOf(x)' = ReqsOf(x)
    BY <1>2, <1>3, <2>1, <2>2, <2>4, ReqPushed
  <2>6. ReqsOf(s)' = {t}
    BY <2>1, <2>3, <2>5
  <2> QED  BY <2>1, <2>5, <2>6, Parts
<1>5. EvtsOf(s)' = {}
  BY <1>1 DEF EvtsOf
<1>6. IoHome' /\ (\A x \in Sockets \ pool : IoOf(x)' = IoOf(x)) /\ IoOf(s)' = "none"
  <2>1. io[q].sock # s
    BY <1>3 DEF IoHome, InUseBy
  <2>2. IoOf(s)' = "none"
    BY <1>1, <2>1 DEF IoOf
  <2> QED  BY <1>2, <1>3, <2>2, IoKept
<1>7. main.sock # s /\ FreeOK(sock[s], kern[s], cb[s])
  BY DEF SessInv, SessionsOK, SessionOK
<1>8. MainHome' /\ MainOf(s)' = "none" /\ \A x \in Sockets : MainOf(x)' = MainOf(x)
  BY <1>3, <1>7 DEF MainHome, MainOf
<1>9. UsedOK(sock'[s], kern'[s], cb'[s], ReqsOf(s)', EvtsOf(s)', IoOf(s)', MainOf(s)')
  <2>1. CASE t = "CONNECT"
    BY <1>1, <1>4, <1>5, <1>6, <1>8, <2>1
       DEF UsedOK, OpeningOK, ClosingOK, HeardOK, ClosedOK, SendingOK, ReadingOK, Counted, SockType,
         Receiving, TerminalEvents
  <2>2. CASE t = "ACCEPT"
    BY <1>1, <1>4, <1>5, <1>6, <1>8, <2>2
       DEF UsedOK, OpeningOK, ClosingOK, HeardOK, ClosedOK, SendingOK, ReadingOK, Counted, SockType,
         Receiving, TerminalEvents
  <2> QED  BY <2>1, <2>2
<1>10. ASSUME NEW x \in Sockets PROVE SessionOK(x)'
  <2>1. CASE x = s
    BY <1>9, <2>1 DEF SessionOK
  <2>2. CASE x # s /\ x \in pool
    BY <1>1, <2>2 DEF SessInv, SessionsOK, SessionOK
  <2>3. CASE x # s /\ x \notin pool
    <3>1. UsedOK(sock[x], kern[x], cb[x], ReqsOf(x), EvtsOf(x), IoOf(x), MainOf(x))
      BY <2>3, UsedView
    <3>2. /\ sock'[x] = sock[x] /\ kern'[x] = kern[x] /\ cb'[x] = cb[x] /\ MainOf(x)' = MainOf(x)
          /\ ReqsOf(x)' = ReqsOf(x) /\ EvtsOf(x)' = EvtsOf(x) /\ IoOf(x)' = IoOf(x)
      BY <1>1, <1>4, <1>6, <1>8, <2>3
    <3>3. UsedOK(sock'[x], kern'[x], cb'[x], ReqsOf(x)', EvtsOf(x)', IoOf(x)', MainOf(x)')
      BY <3>1, <3>2
    <3> QED  BY <2>3, <3>3 DEF SessionOK
  <2> QED  BY <2>1, <2>2, <2>3
<1> QED  BY <1>4, <1>6, <1>8, <1>10 DEF SessInv, SessionsOK

(* net_tcp_connect *)
LEMMA AppConnectKeeps ==
  ASSUME TypeInv, SessInv, crush = "none", AppConnect
  PROVE  crush' \in {"none", "req_full"} /\ (crush' = "none" => SessInv')
<1>1. UNCHANGED <<list_net_evt, io, main, kern>>
  BY DEF AppConnect
<1>2. PICK s \in pool, p \in Procs :
        /\ pool' = pool \ {s}
        /\ sock' = [sock EXCEPT ![s] = [ResetSocket(p) EXCEPT !.state = "CONNECT"]]
        /\ cb' = [cb EXCEPT ![s] = "connecting"]
        /\ PushReq(p, Request("CONNECT", s, "none"))
  BY DEF AppConnect
<1>3. crush' \in {"none", "req_full"}
  BY <1>2 DEF PushReq
<1> SUFFICES ASSUME crush' = "none" PROVE SessInv'
  BY <1>3
<1>4. s \in Sockets /\ TypeOK /\ EvtsInv /\ ReqsInv
  BY Parts DEF TypeOK
<1>5. FreeOK(sock[s], kern[s], cb[s])
  BY <1>4 DEF SessInv, SessionsOK, SessionOK
<1>6. PICK r : r = [ResetSocket(p) EXCEPT !.state = "CONNECT"]
  OBVIOUS
<1>7. /\ r \in SockType /\ r.proc = p /\ ~r.timer_close /\ r.need_req_close = TRUE
      /\ r.need_recv_active = FALSE /\ r.send_req = 0 /\ r.send_ack = 0 /\ r.state = "CONNECT"
  <2>1. r \in SockType
    BY <1>6, ResetTyped DEF SockType, SocketStates
  <2> QED  BY <1>6, <2>1 DEF ResetSocket
<1>8. /\ kern'[s] = NoDescriptor /\ cb'[s] = "connecting"
      /\ \A x \in Sockets : x # s => kern'[x] = kern[x] /\ cb'[x] = cb[x]
  BY <1>1, <1>2, <1>4, <1>5, Parts DEF FreeOK
<1>9. HomesKept
  BY <1>2, <1>4, Parts DEF HomesKept
<1>10. EvtsInv' /\ \A x \in Sockets \ pool : EvtsOf(x)' = EvtsOf(x)
  BY <1>1, <1>4, <1>9, EvtsKept
<1>11. TypesIn(list_net_evt'[p], s) = {}
  BY <1>1, <1>4, PoolUnqueued
<1> QED  BY <1>1, <1>2, <1>4, <1>6, <1>7, <1>8, <1>10, <1>11, SessionOpens

(* NET_EVENT_ACCEPT *)
LEMMA MainEvtAcceptKeeps ==
  ASSUME TypeInv, SessInv, crush = "none", NEW p \in Procs, MainEvtAccept(p)
  PROVE  crush' \in {"none", "req_full"} /\ (crush' = "none" => SessInv')
<1>1. TakeEvt(p, {"ACCEPT"}) /\ UNCHANGED <<io, main, cb, started>>
  BY DEF MainEvtAccept
<1>2. TypeOK /\ EvtsInv /\ ReqsInv /\ NoSock \notin Sockets /\ list_net_evt \in [Procs -> Seq(EventType)]
  BY Parts DEF TypeOK
<1>3. /\ list_net_evt[p] \in Seq(EventType) /\ list_net_evt[p] # <<>>
      /\ list_net_evt' = [list_net_evt EXCEPT ![p] = Tail(@)]
      /\ Head(list_net_evt[p]).type = "ACCEPT" /\ Head(list_net_evt[p]).sock = NoSock
  <2>1. Head(list_net_evt[p]) = list_net_evt[p][1] /\ 1 \in DOMAIN list_net_evt[p]
        /\ Head(list_net_evt[p]).type = "ACCEPT"
    BY <1>1, <1>2 DEF TakeEvt
  <2> QED  BY <1>1, <1>2, <2>1 DEF TakeEvt, EvtsInv, EvtsHome
<1>4. ASSUME HomesKept PROVE EvtsInv' /\ \A x \in Sockets \ pool : EvtsOf(x)' = EvtsOf(x)
  <2>1. PICK type, e : type = Head(list_net_evt[p]).type /\ e = Head(list_net_evt[p]).sock
    OBVIOUS
  <2>2. EvtsInv' /\ \A x \in Sockets \ pool : sock[x].proc \in Procs /\ x # e => EvtsOf(x)' = EvtsOf(x)
    BY <1>1, <1>2, <1>4, <2>1, EvtTaken
  <2> QED  BY <1>2, <1>3, <2>1, <2>2, Parts
<1>5. ASSUME NEW s \in pool, NEW q \in Procs,
             pool' = pool \ {s}, sock' = [sock EXCEPT ![s] = [ResetSocket(q) EXCEPT !.sock_fd = TRUE]],
             kern' = [kern EXCEPT ![s] = [NoDescriptor EXCEPT !.conn = "up", !.left = MaxPeerBytes]],
             PushReq(q, Request("ACCEPT", s, "none"))
      PROVE  crush' \in {"none", "req_full"} /\ (crush' = "none" => SessInv')
  <2>1. crush' \in {"none", "req_full"}
    BY <1>5 DEF PushReq
  <2> SUFFICES ASSUME crush' = "none" PROVE SessInv'
    BY <2>1
  <2>2. s \in Sockets
    BY <1>2 DEF TypeOK
  <2>3. FreeOK(sock[s], kern[s], cb[s])
    BY <2>2 DEF SessInv, SessionsOK, SessionOK
  <2>4. PICK r : r = [ResetSocket(q) EXCEPT !.sock_fd = TRUE]
    OBVIOUS
  <2>5. /\ r \in SockType /\ r.proc = q /\ ~r.timer_close /\ r.need_req_close = TRUE
        /\ r.need_recv_active = FALSE /\ r.send_req = 0 /\ r.send_ack = 0 /\ r.state = "NONE"
    <3>1. r \in SockType
      BY <2>4, ResetTyped DEF SockType
    <3> QED  BY <2>4, <3>1 DEF ResetSocket
  <2>6. /\ ~kern'[s].interest /\ cb'[s] = "idle"
        /\ \A x \in Sockets : x # s => kern'[x] = kern[x] /\ cb'[x] = cb[x]
    <3>1. kern'[s] = [NoDescriptor EXCEPT !.conn = "up", !.left = MaxPeerBytes]
      BY <1>5, <2>2, Parts
    <3>2. kern'[s].interest = FALSE
      BY <3>1 DEF NoDescriptor
    <3> QED  BY <1>1, <1>5, <2>2, <2>3, <3>2, Parts DEF FreeOK
  <2>7. HomesKept
    BY <1>5, <2>2, Parts DEF HomesKept
  <2>8. EvtsInv' /\ \A x \in Sockets \ pool : EvtsOf(x)' = EvtsOf(x)
    BY <1>4, <2>7
  <2>9. TypesIn(list_net_evt'[q], s) = {}
    <3>1. TypesIn(list_net_evt[q], s) = {}
      BY <1>2, <2>2, PoolUnqueued
    <3>2. CASE q = p
      BY <1>2, <1>3, <3>1, <3>2, TypesTail
    <3>3. CASE q # p
      BY <1>2, <1>3, <3>1, <3>3
    <3> QED  BY <3>2, <3>3
  <2> QED  BY <1>1, <1>5, <2>2, <2>4, <2>5, <2>6, <2>8, <2>9, SessionOpens
<1>6. ASSUME PushReq(p, Request("ACCEPT_FAIL", NoSock, "none")), UNCHANGED <<sock, pool, kern>>
      PROVE  crush' \in {"none", "req_full"} /\ (crush' = "none" => SessInv')
  <2>1. crush' \in {"none", "req_full"}
    BY <1>6 DEF PushReq
  <2> SUFFICES ASSUME crush' = "none" PROVE SessInv'
    BY <2>1
  <2>2. HomesKept
    BY <1>6 DEF HomesKept
  <2> DEFINE e == Request("ACCEPT_FAIL", NoSock, "none")
  <2>3. e \in RequestType /\ e.sock = NoSock /\ e.type = "ACCEPT_FAIL"
    BY RequestTyped DEF Request, RequestTypes
  <2>4. list_net_req' = [list_net_req EXCEPT ![p] = Append(@, e)]
    BY <1>6 DEF PushReq
  <2> HIDE DEF e
  <2>5. /\ e.sock = NoSock <=> e.type = "ACCEPT_FAIL"
        /\ e.sock \in Sockets =>
           /\ e.sock \notin pool' /\ sock'[e.sock].proc = p
           /\ e.type \notin TypesIn(list_net_req[p], e.sock)
           /\ "CLOSE_SOCKET" \notin TypesIn(list_net_req[p], e.sock)
    BY <1>2, <2>3
  <2>6. /\ ReqsInv'
        /\ \A x \in Sockets \ pool : sock[x].proc \in Procs /\ x # e.sock => ReqsOf(x)' = ReqsOf(x)
    BY <1>2, <2>2, <2>3, <2>4, <2>5, ReqPushed
  <2>7. \A x \in Sockets \ pool : ReqsOf(x)' = ReqsOf(x)
    BY <1>2, <2>3, <2>6, Parts
  <2>8. EvtsInv' /\ \A x \in Sockets \ pool : EvtsOf(x)' = EvtsOf(x)
    BY <1>4, <2>2
  <2> QED  BY <1>1, <1>6, <2>6, <2>7, <2>8, NoSession
<1> QED  BY <1>5, <1>6 DEF MainEvtAccept
-----------------------------------------------------------------------------
(* The application has no use of a slot in the pool, nor of a session whose end it has heard. *)
LEMMA Usable ==
  ASSUME TypeInv, SessInv, NEW s \in Sockets, MayUse(s)
  PROVE  MainAt("idle") /\ s \notin pool /\ ~sock[s].timer_close
<1>1. MainAt("idle") /\ cb[s] \in {"connecting", "up"}
  BY DEF MayUse
<1>2. s \notin pool
  BY <1>1 DEF SessInv, SessionsOK, SessionOK, FreeOK
<1> QED  BY <1>1, <1>2, UsedView DEF UsedOK, ClosingOK

(* The application's thread closes an established session. *)
LEMMA AppCloses ==
  ASSUME TypeInv, SessInv, crush = "none", NEW s \in Sockets, MayUse(s), sock[s].state = "ESTABLISH",
         NEW error \in {"ok", "module"}, MainClose(s, error, sock),
         UNCHANGED <<pool, list_net_evt, io, main, kern, cb>>
  PROVE  crush' \in {"none", "req_full"} /\ (crush' = "none" => SessInv')
<1>1. s \notin pool
  BY Usable
<1>2. sock' = [sock EXCEPT ![s].state = "TERMINATE"] /\ PushReq(sock[s].proc, Request("TERMINATE", s, error))
  BY DEF MainClose
<1>3. sock'[s] = [sock[s] EXCEPT !.state = "TERMINATE"] /\ Only(s)
  BY <1>2, Parts DEF Only, SockType
<1>4. EvtsStep(s) /\ EvtsOf(s)' = EvtsOf(s)
  BY <1>1, <1>3, EvtsStay
<1>5. EvtsOf(s)' \subseteq EvtsOf(s) /\ EvtsOf(s) \subseteq EvtsOf(s)' \cup {"DATA", "RECV_ACTIVATE"}
  BY <1>4
<1> QED  BY <1>1, <1>2, <1>3, <1>4, <1>5, MainClosesKeeps, Zenon

(* net_tcp_send: the bytes are cached, or the session is closed. *)
LEMMA AppSendKeeps ==
  ASSUME TypeInv, SessInv, crush = "none", NEW s \in Sockets, AppSend(s)
  PROVE  crush' \in {"none", "req_full"} /\ (crush' = "none" => SessInv')
<1>1. /\ MayUse(s) /\ sock[s].state = "ESTABLISH"
      /\ UNCHANGED <<pool, list_net_evt, io, kern, cb, started>>
  BY DEF AppSend
<1>2. PICK len \in 1 .. MaxAppBytes :
        \/ MainClose(s, "module", sock) /\ UNCHANGED main
        \/ /\ sock' = [sock EXCEPT ![s].data_need_send = @ + len]
           /\ UNCHANGED main \/ MainGo("send_check", s)
           /\ UNCHANGED <<list_net_req, crush>>
  BY DEF AppSend
<1>3. CASE MainClose(s, "module", sock) /\ UNCHANGED main
  BY <1>1, <1>3, AppCloses
<1>4. CASE /\ sock' = [sock EXCEPT ![s].data_need_send = @ + len]
           /\ UNCHANGED main \/ MainGo("send_check", s)
           /\ UNCHANGED <<list_net_req, crush>>
  <2>1. MainAt("idle") /\ s \notin pool
    BY <1>1, Usable
  <2>2. sock'[s] = [sock[s] EXCEPT !.data_need_send = sock'[s].data_need_send] /\ Only(s)
    BY <1>1, <1>4, Parts DEF Only, SockType
  <2>3. SessInv'
    BY <1>1, <1>4, <2>1, <2>2, MainChecks
  <2> QED  BY <1>4, <2>3
<1> QED  BY <1>2, <1>3, <1>4

(* net_tcp_close_session. *)
LEMMA AppCloseKeeps ==
  ASSUME TypeInv, SessInv, crush = "none", NEW s \in Sockets, AppClose(s)
  PROVE  crush' \in {"none", "req_full"} /\ (crush' = "none" => SessInv')
BY AppCloses DEF AppClose

(* net_tcp_set_send_control: only the delay and its timer change. *)
LEMMA AppSetSendControlKeeps ==
  ASSUME TypeInv, SessInv, NEW s \in Sockets, AppSetSendControl(s)
  PROVE  SessInv'
<1>1. MayUse(s) /\ UNCHANGED <<pool, list_net_evt, list_net_req, io, main, kern, cb, started, crush>>
  BY DEF AppSetSendControl
<1>2. PICK size \in DelaySizes : sock' = [sock EXCEPT ![s].data_delay_send_size = size, ![s].timer_send = TRUE]
  BY DEF AppSetSendControl
<1>3. s \notin pool /\ ~sock[s].timer_close
  BY <1>1, Usable
<1>4. /\ sock'[s] = [sock[s] EXCEPT !.data_delay_send_size = size, !.timer_send = TRUE]
      /\ sock[s] \in SockType /\ Only(s) /\ kern'[s] = kern[s] /\ cb'[s] = cb[s]
  BY <1>1, <1>2, Parts DEF Only, SockType
<1>5. /\ ReqsStep(s) /\ EvtsStep(s) /\ MainStep(s) /\ IoStep(s) /\ IoOf(s)' = IoOf(s)
      /\ ReqsOf(s)' = ReqsOf(s) /\ EvtsOf(s)' = EvtsOf(s) /\ MainOf(s)' = MainOf(s)
  BY <1>1, <1>3, <1>4, QuietSteps, IoStays
<1>6. UsedOK(sock'[s], kern'[s], cb'[s], ReqsOf(s)', EvtsOf(s)', IoOf(s)', MainOf(s)')
  <2>1. UsedOK(sock[s], kern[s], cb[s], ReqsOf(s), EvtsOf(s), IoOf(s), MainOf(s))
    BY <1>3, UsedView
  <2> QED  BY <1>3, <1>4, <1>5, <2>1
       DEF UsedOK, OpeningOK, ClosingOK, HeardOK, ClosedOK, SendingOK, ReadingOK, Counted, SockType,
         Receiving, TerminalEvents
<1> QED  BY <1>3, <1>4, <1>5, <1>6, OneSession

(* The kernel and the peer act on a descriptor that is there. *)
LEMMA KernelKeeps ==
  ASSUME TypeInv, SessInv, NEW s \in Sockets, Kernel(s)
  PROVE  SessInv'
<1>1. kern[s].conn # "none" /\ KernOnly
  BY DEF Kernel, KernConnected, KernReset, PeerSend, PeerFin, PeerRead
<1>2. UNCHANGED <<sock, pool, list_net_evt, list_net_req, io, main, cb, started, crush>>
  BY <1>1 DEF KernOnly
<1>3. kern[s] # NoDescriptor
  BY <1>1 DEF NoDescriptor
<1>4. s \notin pool
  BY <1>3 DEF SessInv, SessionsOK, SessionOK, FreeOK
<1>5. kern'[s].interest = kern[s].interest /\ \A x \in Sockets : x # s => kern'[x] = kern[x]
  BY Parts, ZenonT(60) DEF Kernel, KernConnected, KernReset, PeerSend, PeerFin, PeerRead, Wake, KernType
<1>6. Only(s) /\ sock'[s] = sock[s] /\ cb'[s] = cb[s] /\ sock[s] \in SockType
  BY <1>2, <1>5, Parts DEF Only
<1>7. /\ ReqsStep(s) /\ EvtsStep(s) /\ MainStep(s) /\ IoStep(s) /\ IoOf(s)' = IoOf(s)
      /\ ReqsOf(s)' = ReqsOf(s) /\ EvtsOf(s)' = EvtsOf(s) /\ MainOf(s)' = MainOf(s)
  BY <1>2, <1>4, <1>6, QuietSteps, IoStays
<1>8. UsedOK(sock'[s], kern'[s], cb'[s], ReqsOf(s)', EvtsOf(s)', IoOf(s)', MainOf(s)')
  <2>1. UsedOK(sock[s], kern[s], cb[s], ReqsOf(s), EvtsOf(s), IoOf(s), MainOf(s))
    BY <1>4, UsedView
  <2> QED  BY <1>3, <1>5, <1>6, <1>7, <2>1
       DEF UsedOK, OpeningOK, ClosingOK, HeardOK, ClosedOK, SendingOK, ReadingOK, Counted, SockType,
         Receiving, TerminalEvents
<1> QED  BY <1>4, <1>6, <1>7, <1>8, OneSession

(* The invariant in every step, as long as the process lives. *)
LEMMA IoKeeps ==
  ASSUME TypeInv, SessInv, crush = "none", NEW p \in Procs, Io(p)
  PROVE  crush' \in {"none", "evt_full"} /\ (crush' = "none" => SessInv')
<1>1. CASE IoReqSend(p) \/ IoReqRecvActivate(p) \/ IoReqAcceptFail(p) \/ IoReqClose(p)
  <2>1. crush' = crush
    BY <1>1 DEF IoReqSend, IoReqRecvActivate, IoReqAcceptFail, IoReqClose
  <2> QED  BY <1>1, <2>1, IoReqSendKeeps, IoReqRecvActivateKeeps, IoReqAcceptFailKeeps, IoReqCloseKeeps
<1>2. CASE IoReqAccept(p) \/ IoReqConnect(p) \/ IoReqTerminate(p) \/ IoListenerAccept(p)
  BY <1>2, IoReqAcceptKeeps, IoReqConnectKeeps, IoReqTerminateKeeps, IoListenerAcceptKeeps
<1>3. CASE \E s \in Sockets : IoEpollWait(p, s)
  <2>1. crush' = crush
    BY <1>3 DEF IoEpollWait
  <2> QED  BY <1>3, <2>1, IoEpollWaitKeeps
<1>4. CASE \/ IoOnWritable(p) \/ IoOnReadable(p) \/ IoSendEnter(p) \/ IoSendSome(p) \/ IoSendAgain(p)
           \/ IoSendDrained(p) \/ IoSendDone(p) \/ IoRecvEnter(p) \/ IoRecvSome(p) \/ IoRecvStop(p)
           \/ IoRecvAgain(p)
  <2>1. crush' = crush
    BY <1>4, Zenon DEF IoOnWritable, IoOnReadable, IoSendEnter, IoSendSome, IoSendAgain, IoSendDrained,
                IoSendDone, IoRecvEnter, IoRecvSome, IoRecvStop, IoRecvAgain
  <2> QED  BY <1>4, <2>1, IoOnWritableKeeps, IoOnReadableKeeps, IoSendEnterKeeps, IoSendSomeKeeps,
              IoSendAgainKeeps, IoSendDrainedKeeps, IoSendDoneKeeps, IoRecvEnterKeeps,
              IoRecvSomeKeeps, IoRecvStopKeeps, IoRecvAgainKeeps, SMTT(60)
<1>5. CASE \/ IoOnConnect(p) \/ IoOnError(p) \/ IoSendError(p) \/ IoRecvFlush(p) \/ IoRecvFull(p)
           \/ IoRecvEof(p) \/ IoRecvError(p)
  BY <1>5, IoOnConnectKeeps, IoOnErrorKeeps, IoSendErrorKeeps, IoRecvFlushKeeps, IoRecvFullKeeps,
     IoRecvEofKeeps, IoRecvErrorKeeps
<1> QED  BY <1>1, <1>2, <1>3, <1>4, <1>5 DEF Io, IoReq, IoHandler

(* Every step of the main thread, of the application in it and of the kernel. *)
LEMMA MainKeeps ==
  ASSUME TypeInv, SessInv, crush = "none", crush' # "recv_cache_short",
         \/ \E p \in Procs : MainEvt(p)
         \/ \E s \in Sockets : MainTimerSend(s) \/ MainTimerClose(s) \/ Kernel(s)
         \/ MainContinue \/ App
  PROVE  crush' \in {"none", "req_full"} /\ (crush' = "none" => SessInv')
<1>1. CASE \E p \in Procs : MainEvtAccept(p) \/ MainEvtData(p) \/ MainEvtRecvActivate(p)
  BY <1>1, MainEvtAcceptKeeps, MainEvtDataKeeps, MainEvtRecvActivateKeeps
<1>2. CASE \E p \in Procs : MainEvtEstablish(p) \/ MainEvtEnd(p)
  <2>1. crush' = crush
    BY <1>2 DEF MainEvtEstablish, MainEvtEnd
  <2> QED  BY <1>2, <2>1, MainEvtEstablishKeeps, MainEvtEndKeeps
<1>3. CASE \E s \in Sockets : MainTimerSend(s) \/ MainTimerCloseFlush(s) \/ MainTimerCloseGiveUp(s)
  <2>1. crush' = crush
    BY <1>3 DEF MainTimerSend, MainTimerCloseFlush, MainTimerCloseGiveUp
  <2> QED  BY <1>3, <2>1, MainTimerSendKeeps, MainTimerCloseFlushKeeps, MainTimerCloseGiveUpKeeps
<1>4. CASE \E s \in Sockets : MainTimerCloseRequest(s) \/ MainTimerCloseRelease(s)
  BY <1>4, MainTimerCloseRequestKeeps, MainTimerCloseReleaseKeeps
<1>5. CASE \E s \in Sockets : Kernel(s)
  <2>1. crush' = crush
    BY <1>5, Zenon DEF Kernel, KernConnected, KernReset, PeerSend, PeerFin, PeerRead, KernOnly
  <2> QED  BY <1>5, <2>1, KernelKeeps, SMTT(60)
<1>6. CASE MainSendCheck \/ MainCloseCheck
  <2>1. crush' = crush
    BY <1>6 DEF MainSendCheck, MainCloseCheck
  <2> QED  BY <1>6, <2>1, MainSendCheckKeeps, MainCloseCheckKeeps
<1>7. CASE MainActiveCheck \/ AppConnect \/ \E s \in Sockets : AppSend(s) \/ AppClose(s)
  BY <1>7, MainActiveCheckKeeps, AppConnectKeeps, AppSendKeeps, AppCloseKeeps
<1>8. CASE \E s \in Sockets : AppSetSendControl(s)
  <2>1. crush' = crush
    BY <1>8 DEF AppSetSendControl
  <2> QED  BY <1>8, <2>1, AppSetSendControlKeeps
<1> QED  BY <1>1, <1>2, <1>3, <1>4, <1>5, <1>6, <1>7, <1>8
         DEF MainEvt, MainTimerClose, MainContinue, App

-----------------------------------------------------------------------------
(* Part 3: what the threads keep true of received bytes, and the order of the callbacks. *)

(* The lengths of the events are numbers, as the laws of Announced ask. *)
LEMMA EventLens == \A m \in EventType : m.len \in Nat
BY DEF EventType

(* The bytes of the receive cache: exact until the session begins to close, when what was read  *)
(* last may go unannounced.                                                                     *)
Ending == {"TERMINATE", "DELETE"}

RecvOK(s) ==
  LET known == sock[s].data_has_recv + Announced(list_net_evt[sock[s].proc], s) + Pending(sock[s].proc, s)
  IN /\ known <= sock[s].recv_used
     /\ sock[s].state \notin Ending => known = sock[s].recv_used

RecvInv == \A s \in Sockets \ pool : RecvOK(s)
-----------------------------------------------------------------------------
(* The bytes received.  Only five actions move any: what the others leave alone. *)
AnnouncedKept ==
  \A p \in Procs, x \in Sockets : Announced(list_net_evt[p], x)' = Announced(list_net_evt[p], x)

PendingKept == \A p \in Procs, x \in Sockets : Pending(p, x)' = Pending(p, x)

CacheKept ==
  /\ pool \subseteq pool'
  /\ \A x \in Sockets : /\ sock'[x].proc = sock[x].proc
                        /\ sock'[x].data_has_recv = sock[x].data_has_recv
                        /\ sock'[x].recv_used = sock[x].recv_used
                        /\ sock[x].state \in Ending => sock'[x].state \in Ending

(* A step that leaves the bytes of every session where they are keeps the invariant. *)
LEMMA RecvQuiet ==
  ASSUME TypeInv, SessInv, RecvInv, AnnouncedKept, PendingKept, CacheKept
  PROVE  RecvInv'
<1> SUFFICES ASSUME NEW x \in Sockets \ pool' PROVE RecvOK(x)'
  BY DEF RecvInv
<1>1. x \in Sockets \ pool /\ RecvOK(x) /\ sock[x].proc \in Procs
  BY Parts DEF CacheKept, RecvInv
<1>2. /\ sock'[x].proc = sock[x].proc /\ sock'[x].data_has_recv = sock[x].data_has_recv
      /\ sock'[x].recv_used = sock[x].recv_used
      /\ sock[x].state \in Ending => sock'[x].state \in Ending
  BY DEF CacheKept
<1>3. PICK p \in Procs : p = sock[x].proc
  BY <1>1
<1>4. Announced(list_net_evt'[p], x) = Announced(list_net_evt[p], x) /\ Pending(p, x)' = Pending(p, x)
  BY <1>3 DEF AnnouncedKept, PendingKept
<1>5. sock'[x].proc = p
  BY <1>2, <1>3
<1>6. Pending(sock[x].proc, x)' = Pending(p, x)'
  BY <1>5 DEF Pending
<1> QED  BY <1>1, <1>2, <1>3, <1>4, <1>5, <1>6 DEF RecvOK

(* The announced bytes: a push adds the length of the event, for its session; taking one removes it. *)
LEMMA AnnouncedPush ==
  ASSUME TypeOK, NEW p \in Procs, NEW e \in EventType, PushEvt(p, e), crush = "none", crush' = "none",
         NEW q \in Procs, NEW x
  PROVE  Announced(list_net_evt'[q], x)
           = Announced(list_net_evt[q], x) + (IF q = p /\ e.sock = x THEN e.len ELSE 0)
<1>1. list_net_evt' = [list_net_evt EXCEPT ![p] = Append(@, e)] /\ list_net_evt \in [Procs -> Seq(EventType)]
  BY DEF PushEvt, TypeOK
<1>2. CASE q = p
  <2>1. list_net_evt'[p] = Append(list_net_evt[p], e) /\ list_net_evt[p] \in Seq(EventType)
    BY <1>1
  <2> QED  BY <1>2, <2>1, AnnouncedAppend, EventLens
<1>3. CASE q # p
  <2>1. list_net_evt'[q] = list_net_evt[q] /\ Announced(list_net_evt[q], x) \in Nat
    BY <1>1, <1>3, AnnouncedNat, EventLens
  <2> QED  BY <1>3, <2>1
<1> QED  BY <1>2, <1>3

(* An event that is taken off a queue is no longer announced. *)
LEMMA AnnouncedTake ==
  ASSUME TypeOK, NEW p \in Procs, NEW types, TakeEvt(p, types), NEW q \in Procs, NEW x
  PROVE  Announced(list_net_evt[q], x)
           = Announced(list_net_evt'[q], x)
             + (IF q = p /\ Head(list_net_evt[p]).sock = x THEN Head(list_net_evt[p]).len ELSE 0)
<1>1. list_net_evt' = [list_net_evt EXCEPT ![p] = Tail(@)] /\ list_net_evt \in [Procs -> Seq(EventType)]
      /\ list_net_evt[p] # <<>>
  BY DEF TakeEvt, TypeOK
<1>2. CASE q = p
  <2>1. list_net_evt'[p] = Tail(list_net_evt[p]) /\ list_net_evt[p] \in Seq(EventType)
    BY <1>1
  <2> QED  BY <1>1, <1>2, <2>1, AnnouncedTail, EventLens
<1>3. CASE q # p
  <2>1. list_net_evt'[q] = list_net_evt[q] /\ Announced(list_net_evt[q], x) \in Nat
    BY <1>1, <1>3, AnnouncedNat, EventLens
  <2> QED  BY <1>3, <2>1
<1> QED  BY <1>2, <1>3

(* An event without bytes announces nothing, *)
LEMMA PushedQuietly ==
  ASSUME TypeInv, SessInv, NEW p \in Procs, NEW t \in EventTypes, NEW s \in Sockets \cup {NoSock},
         PushEvt(p, Event(t, s, 0)), crush = "none", crush' = "none"
  PROVE  AnnouncedKept
<1> SUFFICES ASSUME NEW q \in Procs, NEW x \in Sockets
             PROVE  Announced(list_net_evt'[q], x) = Announced(list_net_evt[q], x)
  BY DEF AnnouncedKept
<1>1. PICK e \in EventType : e.len = 0 /\ PushEvt(p, e)
  <2>1. Event(t, s, 0) \in EventType /\ Event(t, s, 0).len = 0
    BY EventTyped DEF Event
  <2> QED  BY <2>1
<1>2. TypeOK /\ Announced(list_net_evt[q], x) \in Nat
  BY Parts, AnnouncedNat, EventLens DEF TypeOK
<1>3. Announced(list_net_evt'[q], x)
        = Announced(list_net_evt[q], x) + (IF q = p /\ e.sock = x THEN e.len ELSE 0)
  <2>1. TypeOK /\ PushEvt(p, e) /\ crush = "none" /\ crush' = "none"
    BY <1>1, <1>2
  <2> QED  BY ONLY TypeInv, SessInv, p \in Procs, t \in EventTypes, s \in Sockets \cup {NoSock}, crush = "none",
                   crush' = "none", q \in Procs, x \in Sockets, <2>1, AnnouncedPush
<1> QED  BY <1>1, <1>2, <1>3

(* ... whether it is queued or taken. *)
LEMMA TakenQuietly ==
  ASSUME TypeInv, SessInv, NEW p \in Procs, NEW types, TakeEvt(p, types), "DATA" \notin types
  PROVE  AnnouncedKept
<1> SUFFICES ASSUME NEW q \in Procs, NEW x \in Sockets
             PROVE  Announced(list_net_evt'[q], x) = Announced(list_net_evt[q], x)
  BY DEF AnnouncedKept
<1>1. TypeOK /\ EvtsInv /\ list_net_evt \in [Procs -> Seq(EventType)]
  BY Parts DEF TypeOK
<1>2. Head(list_net_evt[p]).len = 0
  <2>1. Head(list_net_evt[p]) = list_net_evt[p][1] /\ 1 \in DOMAIN list_net_evt[p]
        /\ Head(list_net_evt[p]).type # "DATA"
    BY <1>1 DEF TakeEvt
  <2> QED  BY <1>1, <2>1 DEF EvtsInv, EvtsHome
<1>3. list_net_evt'[q] \in Seq(EventType)
  BY <1>1 DEF TakeEvt
<1>4. Announced(list_net_evt'[q], x) \in Nat
  BY <1>3, AnnouncedNat, EventLens
<1>5. Announced(list_net_evt[q], x)
        = Announced(list_net_evt'[q], x)
          + (IF q = p /\ Head(list_net_evt[p]).sock = x THEN Head(list_net_evt[p]).len ELSE 0)
  BY <1>1, AnnouncedTake
<1> QED  BY <1>2, <1>4, <1>5

(* Queues that stay announce what they announced. *)
LEMMA EvtsUntouched == ASSUME UNCHANGED list_net_evt PROVE AnnouncedKept
BY DEF AnnouncedKept

(* The pending bytes: an io thread has some only while it reads. *)
Reading == {"recv_loop", "recv_flush"}

(* io threads that stay have as much pending, *)
LEMMA IoUntouched == ASSUME UNCHANGED io PROVE PendingKept
BY DEF PendingKept, Pending

(* ... and so do those that move without having read, *)
LEMMA PendingMoved ==
  ASSUME TypeOK, NEW p \in Procs, NEW r, io' = [io EXCEPT ![p] = r], io[p].at \notin Reading,
         r.at \notin Reading \/ r.got = 0
  PROVE  PendingKept
<1> SUFFICES ASSUME NEW q \in Procs, NEW x \in Sockets PROVE Pending(q, x)' = Pending(q, x)
  BY DEF PendingKept
<1>1. io \in [Procs -> IoType]
  BY DEF TypeOK
<1>2. CASE q = p
  <2>1. io'[q] = r
    BY <1>1, <1>2
  <2> QED  BY <1>2, <2>1 DEF Pending, Reading
<1>3. CASE q # p
  <2>1. io'[q] = io[q]
    BY <1>1, <1>3
  <2> QED  BY <2>1 DEF Pending
<1> QED  BY <1>2, <1>3

(* ... which is every step outside the two that read and announce. *)
LEMMA PendingMoves ==
  ASSUME TypeInv, SessInv, NEW p \in Procs, io[p].at \notin Reading,
         \/ \E from, s, todo : \E label \in {"send", "recv", "dispatch"} : Enter(p, label, from, s, todo)
         \/ GoTo(p, "send_loop") \/ GoTo(p, "send_done")
         \/ io[p].at = "recv" /\ GoTo(p, "recv_loop")
         \/ Finish(p) \/ io' = [io EXCEPT ![p] = IoIdle]
  PROVE  PendingKept
<1>1. TypeOK /\ IoHome /\ io \in [Procs -> IoType]
  BY Parts DEF TypeOK
<1>2. CASE \E from, s, todo : \E label \in {"send", "recv", "dispatch"} : Enter(p, label, from, s, todo)
  <2>0. PICK from, s, todo : \E l \in {"send", "recv", "dispatch"} : Enter(p, l, from, s, todo)
    BY <1>2
  <2>1. PICK label \in {"send", "recv", "dispatch"} : Enter(p, label, from, s, todo)
    BY <2>0
  <2> DEFINE r == [IoIdle EXCEPT !.at = label, !.from = from, !.sock = s, !.todo = todo]
  <2>2. io' = [io EXCEPT ![p] = r]
    BY <2>1, Zenon DEF Enter
  <2>3. r.at = label
    BY DEF IoIdle
  <2>4. r.at \notin Reading
    BY <2>3 DEF Reading
  <2> HIDE DEF r
  <2> QED  BY <1>1, <2>2, <2>4, PendingMoved
<1>3. ASSUME NEW label \in {"send_loop", "send_done"}, GoTo(p, label) PROVE PendingKept
  <2> DEFINE r == [io[p] EXCEPT !.at = label]
  <2>1. io' = [io EXCEPT ![p] = r] /\ r.at = label
    BY <1>1, <1>3 DEF GoTo, IoType
  <2>2. r.at \notin Reading
    BY <2>1 DEF Reading
  <2> HIDE DEF r
  <2> QED  BY <1>1, <2>1, <2>2, PendingMoved
<1>4. CASE io[p].at = "recv" /\ GoTo(p, "recv_loop")
  <2> DEFINE r == [io[p] EXCEPT !.at = "recv_loop"]
  <2>1. io' = [io EXCEPT ![p] = r] /\ r.got = io[p].got
    BY <1>1, <1>4 DEF GoTo, IoType
  <2>2. io[p].got = 0
    BY <1>1, <1>4 DEF IoHome, Receiving
  <2> HIDE DEF r
  <2> QED  BY <1>1, <2>1, <2>2, PendingMoved
<1>5. CASE io' = [io EXCEPT ![p] = IoIdle]
  <2>1. IoIdle.at \notin Reading
    BY DEF IoIdle, Reading
  <2> QED  BY <1>1, <1>5, <2>1, PendingMoved
<1> QED  BY <1>2, <1>3, <1>4, <1>5 DEF Finish
-----------------------------------------------------------------------------
(* The contents of the structures: what a handler writes to a session elsewhere. *)
LEMMA FieldsKept ==
  ASSUME TypeInv, SessInv, NEW s \in Sockets, NEW r, sock' = [sock EXCEPT ![s] = r], pool \subseteq pool',
         r.proc = sock[s].proc, r.data_has_recv = sock[s].data_has_recv, r.recv_used = sock[s].recv_used,
         sock[s].state \in Ending => r.state \in Ending
  PROVE  CacheKept
<1> SUFFICES ASSUME NEW x \in Sockets
             PROVE  /\ sock'[x].proc = sock[x].proc
                    /\ sock'[x].data_has_recv = sock[x].data_has_recv
                    /\ sock'[x].recv_used = sock[x].recv_used
                    /\ sock[x].state \in Ending => sock'[x].state \in Ending
  BY DEF CacheKept
<1> QED  BY Parts

(* The caches of structures that stay. *)
LEMMA SockUntouched == ASSUME UNCHANGED sock, pool \subseteq pool' PROVE CacheKept
BY DEF CacheKept

(* The quiet actions of the io threads. *)
LEMMA IoReqCache ==
  ASSUME TypeInv, SessInv, NEW p \in Procs, IoReq(p), crush = "none", crush' = "none"
  PROVE  CacheKept
<1>1. CASE IoReqSend(p)
  <2>1. PICK s \in Sockets : s = Head(list_net_req[p]).sock
    BY <1>1, ReqHead DEF IoReqSend
  <2>2. sock' = [sock EXCEPT ![s].send_ack = @ + 1] /\ pool' = pool
    BY <1>1, <2>1 DEF IoReqSend
  <2> QED  BY <2>2, Parts DEF CacheKept, SockType
<1>2. CASE IoReqRecvActivate(p)
  <2>1. PICK s \in Sockets : s = Head(list_net_req[p]).sock
    BY <1>2, ReqHead DEF IoReqRecvActivate
  <2>2. sock' = [sock EXCEPT ![s].need_recv_active = FALSE] /\ pool' = pool
    BY <1>2, <2>1 DEF IoReqRecvActivate
  <2> QED  BY <2>2, Parts DEF CacheKept, SockType
<1>3. CASE IoReqAccept(p)
  <2>1. PICK s \in Sockets : s = Head(list_net_req[p]).sock
    BY <1>3, ReqHead, SMTT(60) DEF IoReqAccept
  <2>2. s \notin pool /\ sock[s].proc = p /\ TakeReq(p, "ACCEPT") /\ pool' = pool
    BY ONLY TypeInv, SessInv, p \in Procs, crush = "none", crush' = "none", s \in Sockets, <1>3, <2>1, ReqHead,
            SMTT(60) DEF IoReqAccept
  <2>3. \/ sock' = [sock EXCEPT ![s].state = "ESTABLISH"]
        \/ sock' = [sock EXCEPT ![s].state = "DELETE", ![s].sock_fd = FALSE]
    BY <1>3, <2>1, <2>2 DEF IoReqAccept
  <2>4. sock[s].state = "NONE"
    <3>1. Head(list_net_req[p]) = list_net_req[p][1] /\ 1 \in DOMAIN list_net_req[p]
          /\ Head(list_net_req[p]).type = "ACCEPT"
      BY <2>2, Parts DEF TakeReq, TypeOK
    <3>2. "ACCEPT" \in ReqsOf(s)
      BY <2>1, <3>1, Parts, ReqEntry
    <3> QED  BY <2>2, <3>2, UsedView DEF UsedOK, OpeningOK
  <2> QED  BY <2>2, <2>3, <2>4, Parts, SMTT(60) DEF CacheKept, SockType, Ending
<1>4. CASE IoReqAcceptFail(p) \/ IoReqTerminate(p)
  <2>1. UNCHANGED <<sock, pool>>
    BY <1>4 DEF IoReqAcceptFail, IoReqTerminate
  <2> QED  BY <2>1, SockUntouched
<1>5. CASE IoReqConnect(p)
  <2>1. PICK s \in Sockets : s = Head(list_net_req[p]).sock
    BY <1>5, ReqHead DEF IoReqConnect
  <2>2. s \notin pool /\ sock[s].proc = p /\ pool' = pool
    BY <1>5, <2>1, ReqHead DEF IoReqConnect
  <2>3. \/ sock' = [sock EXCEPT ![s].sock_fd = TRUE]
        \/ sock' = [sock EXCEPT ![s].state = "DELETE"]
    BY <1>5, <2>1, <2>2 DEF IoReqConnect
  <2> QED  BY <2>2, <2>3, Parts DEF CacheKept, SockType, Ending
<1>6. CASE IoReqClose(p)
  <2>1. PICK s \in Sockets : s = Head(list_net_req[p]).sock
    BY <1>6, ReqHead DEF IoReqClose
  <2>2. sock' = [sock EXCEPT ![s].sock_fd = FALSE, ![s].send_ack = @ + 1] /\ pool' = pool
    BY <1>6, <2>1 DEF IoReqClose
  <2> QED  BY <2>2, Parts DEF CacheKept, SockType
<1> QED  BY <1>1, <1>2, <1>3, <1>4, <1>5, <1>6 DEF IoReq

(* The requests keep the bytes in place. *)
LEMMA IoReqRecv ==
  ASSUME TypeInv, SessInv, RecvInv, NEW p \in Procs, IoReq(p) \/ IoListenerAccept(p), crush = "none", crush' = "none"
  PROVE  RecvInv'
<1>1. CacheKept
  <2>1. CASE IoListenerAccept(p)
    <3>1. UNCHANGED <<sock, pool>>
      BY <2>1 DEF IoListenerAccept
    <3> QED  BY <3>1, SockUntouched
  <2> QED  BY <2>1, IoReqCache
<1>2. AnnouncedKept
  <2>1. UNCHANGED list_net_evt \/ \E t \in EventTypes, s \in Sockets \cup {NoSock} : PushEvt(p, Event(t, s, 0))
    <3>1. CASE IoReqSend(p) \/ IoReqRecvActivate(p) \/ IoReqAcceptFail(p) \/ IoReqClose(p)
      BY ONLY <3>1, SMTT(60) DEF IoReqSend, IoReqRecvActivate, IoReqAcceptFail, IoReqClose
    <3>2. CASE IoReqAccept(p)
      <4>1. PICK s \in Sockets : s = Head(list_net_req[p]).sock
        BY <3>2, ReqHead DEF IoReqAccept
      <4> QED  BY ONLY <3>2, <4>1, SMTT(60) DEF IoReqAccept, EventTypes
    <3>3. CASE IoReqConnect(p)
      <4>1. PICK s \in Sockets : s = Head(list_net_req[p]).sock
        BY <3>3, ReqHead DEF IoReqConnect
      <4> QED  BY ONLY <3>3, <4>1 DEF IoReqConnect, EventTypes
    <3>4. CASE IoReqTerminate(p)
      <4>1. PICK s \in Sockets : s = Head(list_net_req[p]).sock
        BY <3>4, ReqHead DEF IoReqTerminate
      <4>2. PushEvt(p, Event("TERMINATE", s, 0)) \/ PushEvt(p, Event("MODULE_ERROR", s, 0))
        BY <3>4, <4>1 DEF IoReqTerminate
      <4> QED  BY <4>2 DEF EventTypes
    <3>5. CASE IoListenerAccept(p)
      <4>1. PushEvt(p, Event("ACCEPT", NoSock, 0)) /\ "ACCEPT" \in EventTypes
        BY <3>5 DEF IoListenerAccept, EventTypes
      <4> QED  BY <4>1
    <3> QED  BY <3>1, <3>2, <3>3, <3>4, <3>5, SMTT(60) DEF IoReq
  <2> QED  BY <2>1, PushedQuietly, EvtsUntouched
<1>3. PendingKept
  <2>1. \/ UNCHANGED io
        \/ io[p].at = "idle" /\ \E from, s, todo : \E label \in {"send", "recv", "dispatch"} : Enter(p, label, from, s, todo)
    <3>1. CASE IoReqSend(p)
      <4>1. io[p].at = "idle" /\ Enter(p, "send", "req", Head(list_net_req[p]).sock, {})
        BY <3>1 DEF IoReqSend, TakeReq, IoAt
      <4> QED  BY <4>1
    <3>2. CASE IoReqRecvActivate(p)
      <4>1. io[p].at = "idle" /\ Enter(p, "recv", "req", Head(list_net_req[p]).sock, {})
        BY <3>2, SMTT(60) DEF IoReqRecvActivate, TakeReq, IoAt
      <4> QED  BY <4>1
    <3>3. CASE IoReqAccept(p) \/ IoReqAcceptFail(p) \/ IoReqConnect(p) \/ IoReqTerminate(p) \/ IoReqClose(p)
               \/ IoListenerAccept(p)
      BY <3>3, Zenon DEF IoReqAccept, IoReqAcceptFail, IoReqConnect, IoReqTerminate, IoReqClose, IoListenerAccept
    <3> QED  BY <3>1, <3>2, <3>3 DEF IoReq
  <2>2. CASE UNCHANGED io
    BY <2>2, IoUntouched
  <2>3. CASE io[p].at = "idle" /\ \E from, s, todo : \E label \in {"send", "recv", "dispatch"} : Enter(p, label, from, s, todo)
    <3>1. io[p].at \notin Reading
      BY <2>3 DEF Reading
    <3> QED  BY <2>3, <3>1, PendingMoves
  <2> QED  BY <2>1, <2>2, <2>3
<1> QED  BY <1>1, <1>2, <1>3, RecvQuiet
(* What an io thread may write to a session in its handlers. *)
LEMMA IoCloseCache ==
  ASSUME TypeInv, SessInv, NEW p \in Procs, NEW s \in Sockets, IoClose(p, s, "system"), pool' = pool
  PROVE  CacheKept
<1>1. sock' = [sock EXCEPT ![s].state = "DELETE"] \/ UNCHANGED sock
  BY DEF IoClose
<1> QED  BY <1>1, Parts DEF CacheKept, SockType, Ending

(* Closing a session from its io thread announces no bytes. *)
LEMMA IoCloseAnnounces ==
  ASSUME TypeInv, SessInv, NEW p \in Procs, NEW s \in Sockets, IoClose(p, s, "system"),
         crush = "none", crush' = "none"
  PROVE  AnnouncedKept
<1>1. PushEvt(p, Event("SYSTEM_ERROR", s, 0)) \/ UNCHANGED list_net_evt
  BY DEF IoClose
<1>2. "SYSTEM_ERROR" \in EventTypes
  BY DEF EventTypes
<1> QED  BY <1>1, <1>2, PushedQuietly, EvtsUntouched

(* The session of an io thread's handler. *)
LEMMA AtWork ==
  ASSUME TypeInv, SessInv, NEW p \in Procs, io[p].at # "idle"
  PROVE  \E s \in Sockets : s = io[p].sock
BY Handled

(* The quiet actions of the handlers. *)
LEMMA IoDispatchRecv ==
  ASSUME TypeInv, SessInv, RecvInv, NEW p \in Procs, crush = "none", crush' = "none",
         IoOnConnect(p) \/ IoOnWritable(p) \/ IoOnReadable(p) \/ IoOnError(p)
  PROVE  RecvInv'
<1>1. io[p].at = "dispatch" /\ pool' = pool
  BY DEF IoOnConnect, IoOnWritable, IoOnReadable, IoOnError, IoAt
<1>2. PICK s \in Sockets : s = io[p].sock
  BY <1>1, AtWork
<1>3. PendingKept
  <2>1. \/ \E from, x, todo : \E label \in {"send", "recv", "dispatch"} : Enter(p, label, from, x, todo)
        \/ io' = [io EXCEPT ![p] = IoIdle]
    BY DEF IoOnConnect, IoOnWritable, IoOnReadable, IoOnError
  <2>2. io[p].at \notin Reading
    BY <1>1 DEF Reading
  <2> QED  BY <2>1, <2>2, PendingMoves
<1>4. \/ UNCHANGED <<sock, list_net_evt>>
      \/ IoClose(p, s, "system")
      \/ /\ \/ sock' = [sock EXCEPT ![s].state = "DELETE"]
            \/ sock[s].state = "CONNECT" /\ sock' = [sock EXCEPT ![s].state = "ESTABLISH"]
         /\ PushEvt(p, Event("CONNECT_FAIL", s, 0)) \/ PushEvt(p, Event("ESTABLISH", s, 0))
  BY <1>2 DEF IoOnConnect, IoOnWritable, IoOnReadable, IoOnError
<1>5. CASE UNCHANGED <<sock, list_net_evt>>
  BY <1>1, <1>3, <1>5, SockUntouched, EvtsUntouched, RecvQuiet
<1>6. CASE IoClose(p, s, "system")
  BY <1>1, <1>3, <1>6, IoCloseCache, IoCloseAnnounces, RecvQuiet
<1>7. CASE /\ \/ sock' = [sock EXCEPT ![s].state = "DELETE"]
              \/ sock[s].state = "CONNECT" /\ sock' = [sock EXCEPT ![s].state = "ESTABLISH"]
           /\ PushEvt(p, Event("CONNECT_FAIL", s, 0)) \/ PushEvt(p, Event("ESTABLISH", s, 0))
  <2>1. CacheKept
    BY <1>1, <1>7, Parts DEF CacheKept, SockType, Ending
  <2>2. {"CONNECT_FAIL", "ESTABLISH"} \subseteq EventTypes
    BY DEF EventTypes
  <2>3. AnnouncedKept
    BY <1>7, <2>2, PushedQuietly
  <2> QED  BY <1>3, <2>1, <2>3, RecvQuiet
<1> QED  BY <1>4, <1>5, <1>6, <1>7

(* The steps of sending keep the bytes in place. *)
LEMMA IoSendRecv ==
  ASSUME TypeInv, SessInv, RecvInv, NEW p \in Procs, crush = "none", crush' = "none",
         \/ IoSendEnter(p) \/ IoSendSome(p) \/ IoSendAgain(p) \/ IoSendError(p)
         \/ IoSendDrained(p) \/ IoSendDone(p)
  PROVE  RecvInv'
<1>1. io[p].at \in {"send", "send_loop", "send_done"} /\ pool' = pool
  BY DEF IoSendEnter, IoSendSome, IoSendAgain, IoSendError, IoSendDrained, IoSendDone, IoAt
<1>2. PICK s \in Sockets : s = io[p].sock
  BY <1>1, AtWork
<1>3. PendingKept
  <2>1. UNCHANGED io \/ GoTo(p, "send_loop") \/ GoTo(p, "send_done") \/ Finish(p)
    BY DEF IoSendEnter, IoSendSome, IoSendAgain, IoSendError, IoSendDrained, IoSendDone
  <2>2. io[p].at \notin Reading
    BY <1>1 DEF Reading
  <2> QED  BY ONLY TypeInv, SessInv, RecvInv, p \in Procs, crush = "none", crush' = "none", <2>1, <2>2, PendingMoves,
                   IoUntouched, SMTT(60)
<1>4. CASE IoSendError(p)
  <2>1. IoClose(p, s, "system")
    BY <1>2, <1>4 DEF IoSendError
  <2> QED  BY <1>1, <1>3, <2>1, IoCloseCache, IoCloseAnnounces, RecvQuiet
<1>5. CASE IoSendEnter(p) \/ IoSendDrained(p)
  <2>1. UNCHANGED <<sock, list_net_evt>>
    BY <1>5 DEF IoSendEnter, IoSendDrained
  <2> QED  BY <1>1, <1>3, <2>1, SockUntouched, EvtsUntouched, RecvQuiet
<1>6. CASE IoSendSome(p)
  <2>1. PICK n : sock' = [sock EXCEPT ![s].data_has_send = @ + n]
    BY <1>2, <1>6 DEF IoSendSome
  <2>2. CacheKept
    BY <1>1, <2>1, Parts DEF CacheKept, SockType
  <2>3. UNCHANGED list_net_evt
    BY <1>6 DEF IoSendSome
  <2> QED  BY ONLY TypeInv, SessInv, RecvInv, p \in Procs, crush = "none", crush' = "none", <1>3, <2>2, <2>3,
                   EvtsUntouched, RecvQuiet, SMTT(60)
<1>7. CASE IoSendAgain(p) \/ IoSendDone(p)
  <2>1. PICK b : sock' = [sock EXCEPT ![s].need_send_active = b]
    BY <1>2, <1>7 DEF IoSendAgain, IoSendDone
  <2>2. CacheKept
    BY <1>1, <2>1, Parts DEF CacheKept, SockType
  <2>3. UNCHANGED list_net_evt
    BY <1>7 DEF IoSendAgain, IoSendDone
  <2> QED  BY <1>3, <2>2, <2>3, EvtsUntouched, RecvQuiet
<1> QED  BY <1>4, <1>5, <1>6, <1>7, SMTT(60)

(* So do those of reading that neither read nor announce. *)
LEMMA IoRecvRecv ==
  ASSUME TypeInv, SessInv, RecvInv, NEW p \in Procs, crush = "none", crush' = "none",
         IoRecvEnter(p) \/ IoRecvAgain(p) \/ IoRecvFull(p) \/ IoRecvEof(p) \/ IoRecvError(p)
  PROVE  RecvInv'
<1>1. io[p].at \in {"recv", "recv_end"} /\ pool' = pool
  BY DEF IoRecvEnter, IoRecvAgain, IoRecvFull, IoRecvEof, IoRecvError, IoAt
<1>2. PICK s \in Sockets : s = io[p].sock
  BY <1>1, AtWork
<1>3. PendingKept
  <2>1. (io[p].at = "recv" /\ GoTo(p, "recv_loop")) \/ Finish(p)
    BY DEF IoRecvEnter, IoRecvAgain, IoRecvFull, IoRecvEof, IoRecvError, IoAt
  <2>2. io[p].at \notin Reading
    BY <1>1 DEF Reading
  <2> QED  BY <2>1, <2>2, PendingMoves
<1>4. CASE IoRecvError(p)
  <2>1. IoClose(p, s, "system")
    BY <1>2, <1>4 DEF IoRecvError
  <2> QED  BY <1>1, <1>3, <2>1, IoCloseCache, IoCloseAnnounces, RecvQuiet
<1>5. CASE IoRecvEnter(p) \/ IoRecvAgain(p)
  <2>1. UNCHANGED <<sock, list_net_evt>>
    BY <1>5 DEF IoRecvEnter, IoRecvAgain
  <2> QED  BY <1>1, <1>3, <2>1, SockUntouched, EvtsUntouched, RecvQuiet
<1>6. CASE IoRecvFull(p)
  <2>1. sock' = [sock EXCEPT ![s].need_recv_active = TRUE] /\ PushEvt(p, Event("RECV_ACTIVATE", s, 0))
    BY <1>2, <1>6 DEF IoRecvFull
  <2>2. CacheKept
    BY <1>1, <2>1, Parts DEF CacheKept, SockType
  <2>3. "RECV_ACTIVATE" \in EventTypes
    BY DEF EventTypes
  <2>4. AnnouncedKept
    BY <2>1, <2>3, PushedQuietly
  <2> QED  BY <1>3, <2>2, <2>4, RecvQuiet
<1>7. CASE IoRecvEof(p)
  <2>1. \/ /\ sock' = [sock EXCEPT ![s].try_close_send_count = MaxTry, ![s].state = "TERMINATE"]
           /\ PushEvt(p, Event("TERMINATE", s, 0))
        \/ sock' = [sock EXCEPT ![s].try_close_send_count = MaxTry] /\ UNCHANGED list_net_evt
    BY <1>2, <1>7 DEF IoRecvEof
  <2>2. CacheKept
    BY <1>1, <2>1, Parts DEF CacheKept, SockType, Ending
  <2>3. "TERMINATE" \in EventTypes
    BY DEF EventTypes
  <2>4. AnnouncedKept
    BY <2>1, <2>3, PushedQuietly, EvtsUntouched
  <2> QED  BY <1>3, <2>2, <2>4, RecvQuiet
<1> QED  BY <1>4, <1>5, <1>6, <1>7

(* Reading adds to the contents of the cache and to what is pending. *)
LEMMA IoRecvSomeRecv ==
  ASSUME TypeInv, SessInv, RecvInv, NEW p \in Procs, IoRecvSome(p)
  PROVE  RecvInv'
<1>1. io[p].at = "recv_loop" /\ UNCHANGED <<pool, list_net_evt>>
  BY DEF IoRecvSome, IoAt
<1>2. PICK s \in Sockets : s = io[p].sock /\ s \notin pool /\ sock[s].proc = p
  BY <1>1, Handled
<1>3. PICK n \in 1 .. kern[s].rx : /\ sock' = [sock EXCEPT ![s].recv_used = @ + n]
                                   /\ io' = [io EXCEPT ![p].got = @ + n]
  BY <1>2 DEF IoRecvSome
<1>4. kern[s].rx \in Nat /\ n \in Nat /\ io \in [Procs -> IoType] /\ list_net_evt \in [Procs -> Seq(EventType)]
      /\ sock \in [Sockets -> SockType]
  <2>1. kern \in [Sockets -> KernType] /\ io \in [Procs -> IoType] /\ list_net_evt \in [Procs -> Seq(EventType)]
        /\ sock \in [Sockets -> SockType]
    BY Parts DEF TypeOK
  <2> QED  BY <2>1 DEF KernType
<1> SUFFICES ASSUME NEW x \in Sockets \ pool PROVE RecvOK(x)'
  BY <1>1 DEF RecvInv
<1>5. PICK q \in Procs : q = sock[x].proc
  BY Parts
<1>6. sock'[x].proc = q /\ sock'[x].state = sock[x].state /\ sock'[x].data_has_recv = sock[x].data_has_recv
      /\ sock'[x].recv_used = sock[x].recv_used + (IF x = s THEN n ELSE 0)
      /\ sock[x].recv_used \in Nat /\ sock[x].data_has_recv \in Nat
  <2>1. sock[x] \in SockType /\ sock[x].recv_used \in Nat /\ sock[x].data_has_recv \in Nat
    BY <1>4 DEF SockType
  <2>2. CASE x = s
    <3>1. sock'[s] = [sock[s] EXCEPT !.recv_used = @ + n]
      BY <1>3, <1>4
    <3> QED  BY <1>4, <1>5, <2>1, <2>2, <3>1 DEF SockType
  <2>3. CASE x # s
    <3>1. sock'[x] = sock[x]
      BY <1>3, <1>4, <2>3
    <3> QED  BY <1>5, <2>1, <2>3, <3>1
  <2> QED  BY <2>2, <2>3
<1>7. Pending(q, x)' = Pending(q, x) + (IF x = s THEN n ELSE 0) /\ Pending(q, x) \in Nat
  <2>1. CASE q = p
    <3>1. io'[p].at = "recv_loop" /\ io'[p].sock = s /\ io'[p].got = io[p].got + n /\ io[p].got \in Nat
      BY <1>1, <1>2, <1>3, <1>4 DEF IoType
    <3> QED  BY <1>1, <1>2, <2>1, <3>1 DEF Pending
  <2>2. CASE q # p
    <3>1. io'[q] = io[q] /\ x # s /\ io[q].got \in Nat
      BY <1>2, <1>3, <1>4, <1>5, <2>2 DEF IoType
    <3> QED  BY <3>1 DEF Pending
  <2> QED  BY <2>1, <2>2
<1>8. Announced(list_net_evt[q], x) \in Nat /\ Announced(list_net_evt'[q], x) = Announced(list_net_evt[q], x)
  BY <1>1, <1>4, AnnouncedNat, EventLens
<1>9. /\ sock[x].data_has_recv + Announced(list_net_evt[q], x) + Pending(q, x) <= sock[x].recv_used
      /\ sock[x].state \notin Ending =>
           sock[x].data_has_recv + Announced(list_net_evt[q], x) + Pending(q, x) = sock[x].recv_used
  BY <1>5 DEF RecvInv, RecvOK
<1>10. Pending(sock[x].proc, x)' = Pending(q, x)'
  BY <1>6 DEF Pending
<1>11. /\ sock'[x].data_has_recv + Announced(list_net_evt'[q], x) + Pending(q, x)' <= sock'[x].recv_used
       /\ sock'[x].state \notin Ending =>
            sock'[x].data_has_recv + Announced(list_net_evt'[q], x) + Pending(q, x)' = sock'[x].recv_used
  BY <1>4, <1>6, <1>7, <1>8, <1>9
<1> QED  BY <1>6, <1>10, <1>11 DEF RecvOK

(* The end of reading moves no byte: those it has read are still to be announced. *)
LEMMA IoRecvStopRecv ==
  ASSUME TypeInv, SessInv, RecvInv, NEW p \in Procs, IoRecvStop(p)
  PROVE  RecvInv'
<1>1. io[p].at = "recv_loop" /\ UNCHANGED <<sock, pool, list_net_evt>>
  BY DEF IoRecvStop, IoAt
<1>2. PICK why : io' = [io EXCEPT ![p].at = "recv_flush", ![p].why = why]
  BY DEF IoRecvStop
<1>3. PendingKept
  <2> SUFFICES ASSUME NEW q \in Procs, NEW x \in Sockets PROVE Pending(q, x)' = Pending(q, x)
    BY DEF PendingKept
  <2>1. io \in [Procs -> IoType]
    BY Parts DEF TypeOK
  <2>2. io'[p].at = "recv_flush" /\ io'[p].sock = io[p].sock /\ io'[p].got = io[p].got
    BY <1>2, <2>1 DEF IoType
  <2>3. q # p => io'[q] = io[q]
    BY <1>2, <2>1
  <2> QED  BY <1>1, <2>2, <2>3 DEF Pending
<1> QED  BY <1>1, <1>3, SockUntouched, EvtsUntouched, RecvQuiet

(* Announcing moves the pending bytes to the queue, unless the session has begun to close. *)
LEMMA IoRecvFlushRecv ==
  ASSUME TypeInv, SessInv, RecvInv, NEW p \in Procs, IoRecvFlush(p), crush = "none", crush' = "none"
  PROVE  RecvInv'
<1>1. io[p].at = "recv_flush" /\ UNCHANGED <<sock, pool>> /\ GoTo(p, "recv_end")
  BY DEF IoRecvFlush, IoAt
<1>2. PICK s \in Sockets : s = io[p].sock /\ s \notin pool /\ sock[s].proc = p /\ IoOf(s) = "recv_flush"
  BY <1>1, Handled
<1>3. io \in [Procs -> IoType] /\ list_net_evt \in [Procs -> Seq(EventType)] /\ sock \in [Sockets -> SockType]
      /\ TypeOK
  BY Parts DEF TypeOK
<1>4. io[p].got \in Nat
  BY <1>3 DEF IoType
<1>5. io'[p].at = "recv_end" /\ \A q \in Procs : q # p => io'[q] = io[q]
  BY <1>1, <1>3 DEF GoTo, IoType
<1>6. Pending(p, s) = io[p].got /\ Pending(p, s)' = 0
  BY <1>1, <1>2, <1>5 DEF Pending
<1>7. ASSUME NEW q \in Procs, NEW x \in Sockets, q # p \/ x # s PROVE Pending(q, x)' = Pending(q, x)
  BY <1>2, <1>5, <1>7 DEF Pending
<1>8. ASSUME NEW q \in Procs, NEW x \in Sockets
      PROVE  Announced(list_net_evt[q], x) \in Nat
  BY <1>3, AnnouncedNat, EventLens
<1>9. PICK m \in Nat :
        /\ m = io[p].got \/ (m = 0 /\ (io[p].got = 0 \/ sock[s].state # "ESTABLISH"))
        /\ \A q \in Procs, x \in Sockets :
             Announced(list_net_evt'[q], x)
               = Announced(list_net_evt[q], x) + (IF q = p /\ x = s THEN m ELSE 0)
  <2>1. CASE io[p].got > 0 /\ sock[s].state = "ESTABLISH"
    <3>1. PushEvt(p, Event("DATA", s, io[p].got))
      BY <1>2, <2>1 DEF IoRecvFlush
    <3>2. PICK e \in EventType : e.len = io[p].got /\ e.sock = s /\ PushEvt(p, e)
      <4>1. "DATA" \in EventTypes
        BY DEF EventTypes
      <4>2. Event("DATA", s, io[p].got) \in EventType
        BY <1>4, <4>1, EventTyped
      <4> QED  BY <3>1, <4>2 DEF Event
    <3>3. ASSUME NEW q \in Procs, NEW x \in Sockets
          PROVE  Announced(list_net_evt'[q], x)
                   = Announced(list_net_evt[q], x) + (IF q = p /\ x = s THEN io[p].got ELSE 0)
      <4>1. TypeOK /\ PushEvt(p, e) /\ crush = "none" /\ crush' = "none"
        BY <1>3, <3>2
      <4>2. Announced(list_net_evt'[q], x)
              = Announced(list_net_evt[q], x) + (IF q = p /\ e.sock = x THEN e.len ELSE 0)
        BY <4>1, AnnouncedPush, SMTT(60)
      <4> QED  BY <3>2, <4>2
    <3> QED  BY <1>4, <3>3
  <2>2. CASE ~(io[p].got > 0 /\ sock[s].state = "ESTABLISH")
    <3>1. UNCHANGED list_net_evt
      BY <1>2, <2>2 DEF IoRecvFlush
    <3>2. io[p].got = 0 \/ sock[s].state # "ESTABLISH"
      BY <1>4, <2>2
    <3> QED  BY <1>8, <3>1, <3>2
  <2> QED  BY <2>1, <2>2
<1>10. sock[s].state = "ESTABLISH" \/ sock[s].state \in Ending
  <2>1. UsedOK(sock[s], kern[s], cb[s], ReqsOf(s), EvtsOf(s), IoOf(s), MainOf(s))
    BY <1>2, UsedView
  <2> QED  BY <1>2, <2>1 DEF UsedOK, ReadingOK, ClosingOK, Receiving, Ending
<1> SUFFICES ASSUME NEW x \in Sockets \ pool PROVE RecvOK(x)'
  BY <1>1 DEF RecvInv
<1>11. PICK q \in Procs : q = sock[x].proc
  BY Parts
<1>12. /\ sock[x].data_has_recv + Announced(list_net_evt[q], x) + Pending(q, x) <= sock[x].recv_used
       /\ sock[x].state \notin Ending =>
            sock[x].data_has_recv + Announced(list_net_evt[q], x) + Pending(q, x) = sock[x].recv_used
       /\ sock[x].data_has_recv \in Nat /\ sock[x].recv_used \in Nat
  BY <1>3, <1>11 DEF RecvInv, RecvOK, SockType
<1>13. sock'[x] = sock[x] /\ Pending(sock[x].proc, x)' = Pending(q, x)'
  BY <1>1, <1>11 DEF Pending
<1>14. /\ sock[x].data_has_recv + Announced(list_net_evt'[q], x) + Pending(q, x)' <= sock[x].recv_used
       /\ sock[x].state \notin Ending =>
            sock[x].data_has_recv + Announced(list_net_evt'[q], x) + Pending(q, x)' = sock[x].recv_used
  <2>1. CASE x = s
    <3>1. q = p /\ Announced(list_net_evt'[p], s) = Announced(list_net_evt[p], s) + m
          /\ Announced(list_net_evt[p], s) \in Nat
      BY <1>2, <1>8, <1>9, <1>11, <2>1
    <3> QED  BY <1>4, <1>6, <1>9, <1>10, <1>12, <2>1, <3>1
  <2>2. CASE x # s
    <3>1. Announced(list_net_evt'[q], x) = Announced(list_net_evt[q], x) /\ Pending(q, x)' = Pending(q, x)
      BY <1>7, <1>8, <1>9, <2>2
    <3> QED  BY <1>12, <3>1
  <2> QED  BY <2>1, <2>2
<1> QED  BY <1>11, <1>13, <1>14 DEF RecvOK

(* The edge of a descriptor is taken: nothing of any session's bytes changes. *)
LEMMA IoEpollWaitRecv ==
  ASSUME TypeInv, SessInv, RecvInv, NEW p \in Procs, NEW s \in Sockets, IoEpollWait(p, s)
  PROVE  RecvInv'
<1>1. io[p].at = "idle" /\ UNCHANGED <<sock, pool, list_net_evt>>
  BY DEF IoEpollWait, IoAt
<1>2. io[p].at \notin Reading
  BY <1>1 DEF Reading
<1>3. UNCHANGED io \/ \E from, x, todo : \E label \in {"send", "recv", "dispatch"} : Enter(p, label, from, x, todo)
  BY DEF IoEpollWait
<1>4. PendingKept
  BY <1>2, <1>3, IoUntouched, PendingMoves
<1> QED  BY <1>1, <1>4, SockUntouched, EvtsUntouched, RecvQuiet

(* What the main thread may write to the structure of a session without touching its bytes. *)
LEMMA MainCloseCache ==
  ASSUME TypeInv, SessInv, NEW s \in Sockets, NEW error, MainClose(s, error, sock), pool' = pool
  PROVE  CacheKept
<1>1. sock' = [sock EXCEPT ![s].state = "TERMINATE"] \/ UNCHANGED sock
  BY DEF MainClose
<1> QED  BY <1>1, Parts DEF CacheKept, SockType, Ending

(* The quiet events of the main thread. *)
LEMMA MainEvtRecv ==
  ASSUME TypeInv, SessInv, RecvInv, NEW p \in Procs,
         MainEvtEstablish(p) \/ MainEvtRecvActivate(p) \/ MainEvtEnd(p)
  PROVE  RecvInv'
<1>1. UNCHANGED <<pool, io>>
  BY DEF MainEvtEstablish, MainEvtRecvActivate, MainEvtEnd
<1>2. PICK types : TakeEvt(p, types) /\ "DATA" \notin types /\ "ACCEPT" \notin types
  BY DEF MainEvtEstablish, MainEvtRecvActivate, MainEvtEnd, TerminalEvents
<1>3. PICK s \in Sockets : s = Head(list_net_evt[p]).sock
  BY <1>2, EvtHead
<1>4. CacheKept
  <2>1. CASE MainEvtEstablish(p)
    <3>1. sock' = [sock EXCEPT ![s].timer_send = TRUE]
      BY <1>3, <2>1 DEF MainEvtEstablish
    <3> QED  BY <1>1, <3>1, Parts DEF CacheKept, SockType
  <2>2. CASE MainEvtRecvActivate(p)
    <3>1. UNCHANGED sock \/ MainClose(s, "module", sock)
      BY <1>3, <2>2 DEF MainEvtRecvActivate
    <3> QED  BY <1>1, <3>1, SockUntouched, MainCloseCache
  <2>3. CASE MainEvtEnd(p)
    <3>1. sock' = [sock EXCEPT ![s].timer_send = FALSE, ![s].timer_close = TRUE]
      BY <1>3, <2>3 DEF MainEvtEnd, ArmTimerClose
    <3> QED  BY <1>1, <3>1, Parts DEF CacheKept, SockType
  <2> QED  BY <2>1, <2>2, <2>3
<1>5. AnnouncedKept
  BY <1>2, TakenQuietly
<1> QED  BY <1>1, <1>4, <1>5, IoUntouched, RecvQuiet

(* The timers, what follows them, the application's other calls and the kernel. *)
LEMMA MainOtherRecv ==
  ASSUME TypeInv, SessInv, RecvInv,
         \/ MainContinue
         \/ \E s \in Sockets : \/ MainTimerSend(s) \/ MainTimerClose(s) \/ Kernel(s)
                               \/ AppSend(s) \/ AppClose(s) \/ AppSetSendControl(s)
  PROVE  RecvInv'
<1>1. UNCHANGED <<io, list_net_evt>>
  BY ZenonT(60) DEF MainContinue, MainSendCheck, MainActiveCheck, MainCloseCheck, MainTimerSend, MainTimerClose,
         MainTimerCloseFlush, MainTimerCloseGiveUp, MainTimerCloseRequest, MainTimerCloseRelease, Kernel,
         KernConnected, KernReset, PeerSend, PeerFin, PeerRead, KernOnly, AppSend, AppClose, AppSetSendControl
<1> SUFFICES CacheKept
  BY <1>1, EvtsUntouched, IoUntouched, RecvQuiet
<1>2. CASE MainSendCheck
  <2>1. UNCHANGED <<sock, pool>>
    BY <1>2 DEF MainSendCheck
  <2> QED  BY <2>1, SockUntouched
<1>3. CASE MainActiveCheck
  <2>1. PICK s \in Sockets : s = main.sock
    <3>1. MainAt("active_check")
      BY <1>3 DEF MainActiveCheck
    <3> QED  BY <3>1, MainWith
  <2>2. pool' = pool /\ (UNCHANGED sock \/ sock' = [sock EXCEPT ![s].send_req = @ + 1])
    BY <1>3, <2>1 DEF MainActiveCheck
  <2> QED  BY <2>2, Parts DEF CacheKept, SockType
<1>4. ASSUME NEW s \in Sockets, Release(s) PROVE CacheKept
  <2>1. sock' = [sock EXCEPT ![s].sock_fd = FALSE, ![s].timer_close = FALSE] /\ pool \subseteq pool'
    BY <1>4 DEF Release
  <2> QED  BY <2>1, Parts DEF CacheKept, SockType
<1>5. CASE MainCloseCheck
  <2>1. PICK s \in Sockets : s = main.sock
    <3>1. MainAt("close_check")
      BY <1>5 DEF MainCloseCheck
    <3> QED  BY <3>1, MainWith
  <2>2. Release(s) \/ UNCHANGED <<sock, pool>>
    BY <1>5, <2>1 DEF MainCloseCheck
  <2> QED  BY <1>4, <2>2, SockUntouched
<1>6. ASSUME NEW s \in Sockets, MainTimerSend(s) \/ Kernel(s) PROVE CacheKept
  <2>1. UNCHANGED <<sock, pool>>
    BY <1>6, Zenon DEF MainTimerSend, Kernel, KernConnected, KernReset, PeerSend, PeerFin, PeerRead, KernOnly
  <2> QED  BY <2>1, SockUntouched, SMTT(60)
<1>7. ASSUME NEW s \in Sockets, MainTimerClose(s) PROVE CacheKept
  <2>1. CASE MainTimerCloseFlush(s)
    <3>1. sock' = [sock EXCEPT ![s].try_close_send_count = @ + 1] /\ pool' = pool
      BY <2>1 DEF MainTimerCloseFlush
    <3> QED  BY <3>1, Parts DEF CacheKept, SockType
  <2>2. CASE MainTimerCloseGiveUp(s)
    <3>1. PICK n : sock' = [sock EXCEPT ![s].state = "DELETE", ![s].try_close_send_count = n]
      BY <2>2, Parts, Zenon DEF MainTimerCloseGiveUp
    <3>2. pool' = pool
      BY <2>2 DEF MainTimerCloseGiveUp
    <3> QED  BY <3>1, <3>2, Parts DEF CacheKept, SockType, Ending
  <2>3. CASE MainTimerCloseRequest(s)
    <3>1. sock' = [sock EXCEPT ![s].need_req_close = FALSE, ![s].send_req = @ + 1] /\ pool' = pool
      BY <2>3 DEF MainTimerCloseRequest
    <3> QED  BY <3>1, Parts DEF CacheKept, SockType
  <2>4. CASE MainTimerCloseRelease(s)
    <3>1. Release(s) \/ UNCHANGED <<sock, pool>>
      BY <2>4 DEF MainTimerCloseRelease
    <3> QED  BY <1>4, <3>1, SockUntouched
  <2> QED  BY <1>7, <2>1, <2>2, <2>3, <2>4 DEF MainTimerClose
<1>8. ASSUME NEW s \in Sockets, AppSend(s) \/ AppClose(s) \/ AppSetSendControl(s) PROVE CacheKept
  <2>0. pool' = pool
    BY <1>8 DEF AppSend, AppClose, AppSetSendControl
  <2>1. CASE AppSend(s)
    <3>1. MainClose(s, "module", sock) \/ \E len \in 1 .. MaxAppBytes : sock' = [sock EXCEPT ![s].data_need_send = @ + len]
      BY <2>1 DEF AppSend
    <3>2. CASE MainClose(s, "module", sock)
      BY <2>0, <3>2, MainCloseCache
    <3>3. CASE \E len \in 1 .. MaxAppBytes : sock' = [sock EXCEPT ![s].data_need_send = @ + len]
      BY <2>0, <3>3, Parts DEF CacheKept, SockType
    <3> QED  BY <3>1, <3>2, <3>3
  <2>2. CASE AppClose(s)
    BY <2>0, <2>2, MainCloseCache DEF AppClose
  <2>3. CASE AppSetSendControl(s)
    <3>1. PICK size : sock' = [sock EXCEPT ![s].data_delay_send_size = size, ![s].timer_send = TRUE]
      BY ONLY <2>3 DEF AppSetSendControl
    <3> QED  BY <2>0, <3>1, Parts DEF CacheKept, SockType
  <2> QED  BY <1>8, <2>1, <2>2, <2>3
<1> QED  BY <1>2, <1>3, <1>5, <1>6, <1>7, <1>8, SMTT(60) DEF MainContinue

(* Parsing takes its bytes out of the cache and out of what is known of it; and the cache never *)
(* holds less than what is known, so that the check of the code never fails.                    *)
LEMMA MainEvtDataRecv ==
  ASSUME TypeInv, SessInv, RecvInv, NEW p \in Procs, MainEvtData(p), crush = "none"
  PROVE  crush' # "recv_cache_short" /\ RecvInv'
<1>1. TakeEvt(p, {"DATA"}) /\ UNCHANGED <<pool, io, main, kern, cb, started>>
  BY DEF MainEvtData
<1>2. PICK s \in Sockets : s = Head(list_net_evt[p]).sock /\ s \notin pool /\ sock[s].proc = p
  BY <1>1, EvtHead
<1>3. TypeOK /\ list_net_evt \in [Procs -> Seq(EventType)] /\ sock \in [Sockets -> SockType]
      /\ list_net_evt[p] # <<>>
  BY <1>1, Parts DEF TypeOK, TakeEvt
<1>4. PICK len \in Nat : len = Head(list_net_evt[p]).len
  <2>1. list_net_evt[p] \in Seq(EventType)
    BY <1>3
  <2>2. Head(list_net_evt[p]) \in EventType
    BY <1>3, <2>1
  <2> QED  BY <2>2 DEF EventType
<1>5. ASSUME NEW q \in Procs, NEW x \in Sockets
      PROVE  /\ Announced(list_net_evt[q], x)
                  = Announced(list_net_evt'[q], x) + (IF q = p /\ x = s THEN len ELSE 0)
             /\ Announced(list_net_evt'[q], x) \in Nat /\ Pending(q, x) \in Nat
             /\ Pending(q, x)' = Pending(q, x)
  <2>1. Announced(list_net_evt[q], x) = Announced(list_net_evt'[q], x)
           + (IF q = p /\ Head(list_net_evt[p]).sock = x THEN Head(list_net_evt[p]).len ELSE 0)
    BY <1>1, <1>3, AnnouncedTake
  <2>2. list_net_evt'[q] \in Seq(EventType)
    BY <1>1, <1>3 DEF TakeEvt
  <2>3. Announced(list_net_evt'[q], x) \in Nat
    BY <2>2, AnnouncedNat, EventLens
  <2>4. io[q].got \in Nat
    BY Parts DEF TypeOK, IoType
  <2>5. Pending(q, x) \in Nat /\ Pending(q, x)' = Pending(q, x)
    BY <1>1, <2>4 DEF Pending
  <2> QED  BY <1>2, <1>4, <2>1, <2>3, <2>5
<1>6. ASSUME NEW x \in Sockets
      PROVE  sock[x] \in SockType /\ sock[x].recv_used \in Nat /\ sock[x].data_has_recv \in Nat
  <2>1. sock[x] \in SockType
    BY <1>3
  <2> QED  BY <2>1 DEF SockType
<1>7. /\ sock[s].data_has_recv + Announced(list_net_evt[p], s) + Pending(p, s) <= sock[s].recv_used
      /\ sock[s].state \notin Ending =>
           sock[s].data_has_recv + Announced(list_net_evt[p], s) + Pending(p, s) = sock[s].recv_used
  BY <1>2 DEF RecvInv, RecvOK
<1>8. sock[s].data_has_recv + len <= sock[s].recv_used
  BY <1>2, <1>5, <1>6, <1>7
<1>9. ~(sock[s].data_has_recv + Head(list_net_evt[p]).len > sock[s].recv_used)
  BY <1>4, <1>6, <1>8
<1> DEFINE h == Head(list_net_evt[p])
<1>10. ~(sock[h.sock].data_has_recv + h.len > sock[h.sock].recv_used)
  BY <1>2, <1>9
<1>11. PICK parser_len \in 0 .. (sock[h.sock].data_has_recv + h.len) :
         LET f == [sock EXCEPT ![h.sock].data_has_recv = (sock[h.sock].data_has_recv + h.len) - parser_len,
                               ![h.sock].recv_used = @ - parser_len]
         IN \/ sock' = f /\ UNCHANGED <<list_net_req, crush>>
            \/ parser_len < (sock[h.sock].data_has_recv + h.len) /\ MainClose(h.sock, "module", f)
  BY <1>10, Zenon DEF MainEvtData
<1>k. parser_len \in 0 .. sock[s].data_has_recv + len
  BY <1>2, <1>4
<1>m. PICK m, n : m = (sock[s].data_has_recv + len) - parser_len /\ n = sock[s].recv_used - parser_len
  BY Zenon
<1> DEFINE f == [sock EXCEPT ![s].data_has_recv = m, ![s].recv_used = n]
<1>n. crush' # "recv_cache_short"
  BY <1>11, Zenon DEF MainClose, PushReq
<1>s. sock' = f \/ sock' = [f EXCEPT ![s].state = "TERMINATE"]
  <2>1. m = (sock[h.sock].data_has_recv + h.len) - parser_len /\ n = sock[h.sock].recv_used - parser_len
    <3>1. s = h.sock /\ len = h.len
      BY <1>2, <1>4, SMTT(60)
    <3> HIDE DEF h
    <3> QED  BY <3>1, <1>m, Zenon
  <2> DEFINE g == [sock EXCEPT ![h.sock].data_has_recv = (sock[h.sock].data_has_recv + h.len) - parser_len,
                               ![h.sock].recv_used = @ - parser_len]
  <2>2. sock' = g \/ sock' = [g EXCEPT ![h.sock].state = "TERMINATE"]
    BY <1>11, Zenon DEF MainClose
  <2>3. g = f
    BY <1>2, <2>1
  <2> HIDE DEF f, g
  <2> QED  BY <1>2, <2>2, <2>3
<1> HIDE DEF h
<1>a. /\ f[s] = [sock[s] EXCEPT !.data_has_recv = m, !.recv_used = n]
      /\ \A x \in Sockets : x # s => f[x] = sock[x]
      /\ DOMAIN f = Sockets
  BY <1>3
<1> HIDE DEF f
<1>b. f[s].data_has_recv = sock[s].data_has_recv + len - parser_len
  BY <1>6, <1>m, <1>a DEF SockType
<1>c. f[s].recv_used = sock[s].recv_used - parser_len
  BY <1>6, <1>m, <1>a DEF SockType
<1>d. f[s].proc = p /\ f[s].state = sock[s].state
  BY <1>2, <1>6, <1>a DEF SockType
<1>e. sock'[s] = f[s] \/ sock'[s] = [f[s] EXCEPT !.state = "TERMINATE"]
  BY <1>s, <1>a
<1>f. DOMAIN f[s] = DOMAIN sock[s]
  BY <1>6, <1>a DEF SockType
<1>12. /\ \A x \in Sockets : x # s => sock'[x] = sock[x]
       /\ sock'[s].proc = p
       /\ sock'[s].data_has_recv = sock[s].data_has_recv + len - parser_len
       /\ sock'[s].recv_used = sock[s].recv_used - parser_len
       /\ sock[s].state \in Ending => sock'[s].state \in Ending
  <2>1. \A x \in Sockets : x # s => sock'[x] = sock[x]
    BY <1>s, <1>a
  <2>2. sock'[s].proc = f[s].proc /\ sock'[s].data_has_recv = f[s].data_has_recv
        /\ sock'[s].recv_used = f[s].recv_used /\ sock'[s].state \in {f[s].state, "TERMINATE"}
    BY <1>6, <1>e, <1>f DEF SockType
  <2> QED  BY <2>1, <2>2, <1>b, <1>c, <1>d DEF Ending
<1> SUFFICES ASSUME NEW x \in Sockets \ pool PROVE RecvOK(x)'
  BY <1>1, <1>n DEF RecvInv
<1>13. CASE x # s
  <2>1. PICK q \in Procs : q = sock[x].proc
    BY Parts
  <2>2. sock'[x] = sock[x] /\ RecvOK(x)
    BY <1>12, <1>13 DEF RecvInv
  <2>3. Announced(list_net_evt'[q], x) = Announced(list_net_evt[q], x) /\ Pending(q, x)' = Pending(q, x)
    BY <1>5, <1>13
  <2>4. Pending(sock[x].proc, x)' = Pending(q, x)'
    BY <2>1, <2>2 DEF Pending
  <2> QED  BY <2>1, <2>2, <2>3, <2>4 DEF RecvOK
<1>14. CASE x = s
  <2>1. Pending(sock[s].proc, s)' = Pending(p, s)'
    BY <1>12 DEF Pending
  <2>2. parser_len \in Nat /\ parser_len <= sock[s].data_has_recv + len
    BY <1>6, <1>k
  <2>3. /\ sock'[s].data_has_recv + Announced(list_net_evt'[p], s) + Pending(p, s)' <= sock'[s].recv_used
        /\ sock'[s].state \notin Ending =>
             sock'[s].data_has_recv + Announced(list_net_evt'[p], s) + Pending(p, s)' = sock'[s].recv_used
    <3>1. /\ Announced(list_net_evt[p], s) = Announced(list_net_evt'[p], s) + len
          /\ Announced(list_net_evt'[p], s) \in Nat /\ Pending(p, s) \in Nat /\ Pending(p, s)' = Pending(p, s)
      BY <1>5
    <3>2. sock[s].recv_used \in Nat /\ sock[s].data_has_recv \in Nat
      BY <1>6
    <3> QED  BY <1>7, <1>12, <2>2, <3>1, <3>2
  <2> QED  BY <1>12, <1>14, <2>1, <2>3 DEF RecvOK
<1> QED  BY <1>13, <1>14

(* A slot that leaves the pool has received nothing: no event and no handler knows of it. *)
LEMMA RecvOpens ==
  ASSUME TypeInv, SessInv, RecvInv, NEW s \in Sockets, s \in pool, pool' = pool \ {s}, NEW q \in Procs,
         NEW r, sock' = [sock EXCEPT ![s] = r], r.proc = q, r.data_has_recv = 0, r.recv_used = 0,
         UNCHANGED io, AnnouncedKept
  PROVE  RecvInv'
<1> SUFFICES ASSUME NEW x \in Sockets \ pool' PROVE RecvOK(x)'
  BY DEF RecvInv
<1>1. sock'[s] = r /\ \A y \in Sockets : y # s => sock'[y] = sock[y]
  BY Parts
<1>2. EvtsInv /\ IoHome /\ list_net_evt \in [Procs -> Seq(EventType)]
  BY Parts DEF TypeOK
<1>3. CASE x = s
  <2>1. \A i \in DOMAIN list_net_evt[q] : list_net_evt[q][i].sock # s
    BY <1>2 DEF EvtsInv, EvtsHome, InUseBy
  <2>2. list_net_evt[q] \in Seq(EventType)
    BY <1>2
  <2>3. Announced(list_net_evt[q], s) = 0
    BY <2>1, <2>2, AnnouncedNone, EventLens
  <2>4. Announced(list_net_evt'[q], s) = 0
    BY <2>3 DEF AnnouncedKept
  <2>5. Pending(q, s)' = 0
    BY <1>2 DEF Pending, IoHome, InUseBy
  <2>6. sock'[x].proc = q /\ sock'[x].data_has_recv = 0 /\ sock'[x].recv_used = 0
    BY <1>1, <1>3
  <2>7. Pending(sock[x].proc, x)' = Pending(q, s)'
    BY <1>3, <2>6 DEF Pending
  <2> QED  BY <1>3, <2>4, <2>5, <2>6, <2>7 DEF RecvOK
<1>4. CASE x # s
  <2>1. x \in Sockets \ pool /\ RecvOK(x) /\ sock'[x] = sock[x]
    BY <1>1, <1>4 DEF RecvInv
  <2>2. PICK p \in Procs : p = sock[x].proc
    BY <2>1, Parts
  <2>3. Announced(list_net_evt'[p], x) = Announced(list_net_evt[p], x)
    BY DEF AnnouncedKept
  <2>4. Pending(sock[x].proc, x)' = Pending(sock[x].proc, x)
    BY <2>1 DEF Pending
  <2> QED  BY <2>1, <2>2, <2>3, <2>4 DEF RecvOK
<1> QED  BY <1>3, <1>4

(* net_tcp_connect and NET_EVENT_ACCEPT open a session, or turn the connection away. *)
LEMMA OpenRecv ==
  ASSUME TypeInv, SessInv, RecvInv, AppConnect \/ \E p \in Procs : MainEvtAccept(p)
  PROVE  RecvInv'
<1>1. ASSUME NEW s \in pool, NEW q \in Procs, NEW r, pool' = pool \ {s}, sock' = [sock EXCEPT ![s] = r],
             \/ r = [ResetSocket(q) EXCEPT !.state = "CONNECT"]
             \/ r = [ResetSocket(q) EXCEPT !.sock_fd = TRUE],
             UNCHANGED io, AnnouncedKept
      PROVE  RecvInv'
  <2>1. s \in Sockets
    BY Parts DEF TypeOK
  <2>2. r.proc = q /\ r.data_has_recv = 0 /\ r.recv_used = 0
    BY <1>1 DEF ResetSocket
  <2> QED  BY <1>1, <2>1, <2>2, RecvOpens
<1>2. CASE AppConnect
  <2>1. AnnouncedKept /\ UNCHANGED io
    BY <1>2, EvtsUntouched DEF AppConnect
  <2>2. PICK s \in pool, q \in Procs :
          /\ pool' = pool \ {s} /\ sock' = [sock EXCEPT ![s] = [ResetSocket(q) EXCEPT !.state = "CONNECT"]]
    BY <1>2 DEF AppConnect
  <2>3. PICK r : r = [ResetSocket(q) EXCEPT !.state = "CONNECT"]
    OBVIOUS
  <2> QED  BY <1>1, <2>1, <2>2, <2>3
<1>3. ASSUME NEW p \in Procs, MainEvtAccept(p) PROVE RecvInv'
  <2>1. TakeEvt(p, {"ACCEPT"}) /\ UNCHANGED io
    BY <1>3 DEF MainEvtAccept
  <2>2. AnnouncedKept
    BY <2>1, TakenQuietly
  <2>3. CASE UNCHANGED <<sock, pool>>
    BY <2>1, <2>2, <2>3, SockUntouched, IoUntouched, RecvQuiet
  <2>4. CASE ~UNCHANGED <<sock, pool>>
    <3>1. PICK s \in pool, q \in Procs :
            pool' = pool \ {s} /\ sock' = [sock EXCEPT ![s] = [ResetSocket(q) EXCEPT !.sock_fd = TRUE]]
      BY <1>3, <2>4 DEF MainEvtAccept
    <3>2. PICK r : r = [ResetSocket(q) EXCEPT !.sock_fd = TRUE]
      OBVIOUS
    <3> QED  BY <1>1, <2>1, <2>2, <3>1, <3>2
  <2> QED  BY <2>3, <2>4
<1> QED  BY <1>2, <1>3

(* Every step keeps the account of the bytes. *)
LEMMA NextRecv ==
  ASSUME TypeInv, SessInv, RecvInv, crush = "none", Next
  PROVE  crush' # "recv_cache_short" /\ (crush' = "none" => RecvInv')
<1>1. ASSUME NEW p \in Procs, Io(p) PROVE crush' # "recv_cache_short" /\ (crush' = "none" => RecvInv')
  <2>1. crush' # "recv_cache_short"
    BY <1>1, IoKeeps
  <2> SUFFICES ASSUME crush' = "none" PROVE RecvInv'
    BY <2>1
  <2>2. CASE IoReq(p) \/ IoListenerAccept(p)
    BY <2>2, IoReqRecv
  <2>3. CASE \E s \in Sockets : IoEpollWait(p, s)
    BY <2>3, IoEpollWaitRecv
  <2>4. CASE IoHandler(p)
    BY <2>4, IoDispatchRecv, IoSendRecv, IoRecvRecv, IoRecvSomeRecv, IoRecvStopRecv, IoRecvFlushRecv DEF IoHandler
  <2> QED  BY <1>1, <2>2, <2>3, <2>4 DEF Io
<1>2. ASSUME NEW p \in Procs, MainEvtData(p) PROVE crush' # "recv_cache_short" /\ RecvInv'
  BY <1>2, MainEvtDataRecv
<1>3. ASSUME NEW p \in Procs, MainEvtEstablish(p) \/ MainEvtRecvActivate(p) \/ MainEvtEnd(p)
      PROVE  crush' # "recv_cache_short" /\ RecvInv'
  <2>1. crush' # "recv_cache_short"
    BY <1>3, Zenon DEF MainEvtEstablish, MainEvtRecvActivate, MainEvtEnd, PushReq, MainClose
  <2> QED  BY <1>3, <2>1, MainEvtRecv, SMTT(60)
<1>4. ASSUME AppConnect \/ \E p \in Procs : MainEvtAccept(p) PROVE crush' # "recv_cache_short" /\ RecvInv'
  <2>1. crush' # "recv_cache_short"
    BY <1>4 DEF AppConnect, MainEvtAccept, PushReq
  <2> QED  BY <1>4, <2>1, OpenRecv
<1>5. ASSUME \/ MainContinue
             \/ \E s \in Sockets : \/ MainTimerSend(s) \/ MainTimerClose(s) \/ Kernel(s)
                                   \/ AppSend(s) \/ AppClose(s) \/ AppSetSendControl(s)
      PROVE  crush' # "recv_cache_short" /\ RecvInv'
  <2>1. crush' # "recv_cache_short"
    BY <1>5, ZenonT(60) DEF MainContinue, MainSendCheck, MainActiveCheck, MainCloseCheck, MainTimerSend, MainTimerClose,
         MainTimerCloseFlush, MainTimerCloseGiveUp, MainTimerCloseRequest, MainTimerCloseRelease, Kernel,
         KernConnected, KernReset, PeerSend, PeerFin, PeerRead, KernOnly, AppSend, AppClose, AppSetSendControl,
         MainClose, PushReq
  <2> QED  BY <1>5, <2>1, MainOtherRecv, SMTT(60)
<1> QED  BY <1>1, <1>2, <1>3, <1>4, <1>5 DEF Next, MainEvt, App

-----------------------------------------------------------------------------
(***************************************************************************)
(* The inductive invariant.  The process ends only by finding a queue      *)
(* full: the three other CRUSH_CODEs of the sessions are never reached.    *)
(***************************************************************************)
Ends == {"none", "evt_full", "req_full"}

SessionsInv ==
  /\ TypeInv
  /\ crush \in Ends
  /\ crush = "none" => SessInv /\ RecvInv

(* A process that has ended takes no step. *)
LEMMA Running == ASSUME Next PROVE crush = "none"
<1>1. ASSUME NEW p \in Procs, Io(p) PROVE crush = "none"
  BY <1>1, ZenonT(60) DEF Io, IoReq, IoHandler, IoReqSend, IoReqRecvActivate, IoReqAccept, IoReqAcceptFail, IoReqConnect,
     IoReqTerminate, IoReqClose, IoOnConnect, IoOnWritable, IoOnReadable, IoOnError, IoSendEnter, IoSendSome,
     IoSendAgain, IoSendError, IoSendDrained, IoSendDone, IoRecvEnter, IoRecvSome, IoRecvStop, IoRecvFlush,
     IoRecvAgain, IoRecvFull, IoRecvEof, IoRecvError, IoListenerAccept, IoEpollWait, TakeReq, IoAt
<1>2. ASSUME NEW p \in Procs, MainEvt(p) PROVE crush = "none"
  BY <1>2, Zenon DEF MainEvt, MainEvtAccept, MainEvtEstablish, MainEvtData, MainEvtRecvActivate, MainEvtEnd, TakeEvt, MainAt
<1>3. ASSUME NEW s \in Sockets, MainTimerSend(s) \/ MainTimerClose(s) \/ Kernel(s) PROVE crush = "none"
  BY <1>3 DEF MainTimerSend, MainTimerClose, MainTimerCloseFlush, MainTimerCloseGiveUp, MainTimerCloseRequest,
     MainTimerCloseRelease, TimerCloseDue, Kernel, KernConnected, KernReset, PeerSend, PeerFin, PeerRead, MainAt
<1>4. ASSUME MainContinue \/ App PROVE crush = "none"
  BY <1>4 DEF MainContinue, MainSendCheck, MainActiveCheck, MainCloseCheck, App, AppConnect, AppSend, AppClose,
     AppSetSendControl, MayUse, MainAt
<1> QED  BY <1>1, <1>2, <1>3, <1>4 DEF Next

(* The invariant holds at the start, *)
LEMMA InitSessions == Init => SessionsInv
<1> SUFFICES ASSUME Init PROVE SessionsInv
  OBVIOUS
<1>1. TypeInv
  BY InitTyped DEF TypeInv, MainHasSlot, Init, MainIdle
<1>2. crush = "none" /\ pool = Sockets /\ main = MainIdle /\ NoSock \notin Sockets
  BY ConstantsAssumption DEF Init
<1>3. SessionsOK
  BY <1>2 DEF SessionsOK, SessionOK, FreeOK, Init, MainIdle, ResetSocket
<1>4. ReqsInv /\ EvtsInv
  <2>1. \A p \in Procs : list_net_req[p] = <<>> /\ list_net_evt[p] = <<>>
    BY DEF Init
  <2> QED  BY <2>1 DEF ReqsInv, EvtsInv, ReqsHome, EvtsHome, ReqQueueOK, EvtQueueOK
<1>5. IoHome
  <2>1. \A p \in Procs : io[p].at = "idle" /\ io[p].sock = NoSock /\ io[p].got = 0
    BY DEF Init, IoIdle
  <2> QED  BY <1>2, <2>1 DEF IoHome, InUseBy
<1>6. MainHome
  BY <1>2 DEF MainHome, MainIdle
<1> QED  BY <1>1, <1>2, <1>3, <1>4, <1>5, <1>6 DEF SessionsInv, Ends, SessInv, RecvInv

(* ... and after every step. *)
LEMMA NextSessions == SessionsInv /\ [Next]_vars => SessionsInv'
<1> SUFFICES ASSUME SessionsInv, [Next]_vars PROVE SessionsInv'
  OBVIOUS
<1>1. TypeInv'
  BY NextTyped DEF SessionsInv
<1>2. CASE UNCHANGED vars
  <2>1. UNCHANGED <<sock, pool, kern, cb, main, io, list_net_req, list_net_evt, crush>>
    BY <1>2 DEF vars
  <2> SUFFICES ASSUME crush = "none" PROVE SessInv' /\ RecvInv'
    BY <1>1, <2>1 DEF SessionsInv
  <2>2. TypeInv /\ SessInv /\ RecvInv
    BY DEF SessionsInv
  <2>3. HomesKept
    BY <2>1 DEF HomesKept
  <2>4. SessInv'
    BY <2>1, <2>2, <2>3, Parts, ReqsKept, EvtsKept, NoSession
  <2>5. RecvInv'
    BY <2>1, <2>2, SockUntouched, EvtsUntouched, IoUntouched, RecvQuiet
  <2> QED  BY <2>4, <2>5
<1>3. CASE Next
  <2>1. crush = "none" /\ TypeInv /\ SessInv /\ RecvInv
    BY <1>3, Running DEF SessionsInv
  <2>2. crush' # "recv_cache_short" /\ (crush' = "none" => RecvInv')
    BY <1>3, <2>1, NextRecv
  <2>3. crush' \in Ends /\ (crush' = "none" => SessInv')
    <3>1. CASE \E p \in Procs : Io(p)
      BY <2>1, <3>1, IoKeeps DEF Ends
    <3>2. CASE ~\E p \in Procs : Io(p)
      BY <1>3, <2>1, <2>2, <3>2, MainKeeps DEF Ends, Next
    <3> QED  BY <3>1, <3>2
  <2> QED  BY <1>1, <2>2, <2>3 DEF SessionsInv
<1> QED  BY <1>2, <1>3

(* The invariant holds in every state. *)
THEOREM SessionsInvariant == Spec => []SessionsInv
<1> QED  BY InitSessions, NextSessions, PTL DEF Spec
-----------------------------------------------------------------------------
(***************************************************************************)
(* What follows from the invariant: the properties of the sessions.        *)
(***************************************************************************)

(* The places of the entries of a session in the queues of all threads. *)
Places(qs, s, types) == UNION {{<<o, i>> : i \in Entries(qs[o], s, types)} : o \in Procs}

(* Entries of a session that stand in one queue, each type once, are as many as their types. *)
LEMMA EntriesCounted ==
  ASSUME NEW qs, NEW p \in Procs, NEW s, NEW types, IsFiniteSet(types),
         \A o \in Procs : \A i \in DOMAIN qs[o] : qs[o][i].sock = s => o = p,
         \A i, j \in DOMAIN qs[p] :
           qs[p][i].sock = s /\ qs[p][j].sock = s /\ qs[p][i].type \in types /\ qs[p][i].type = qs[p][j].type => i = j
  PROVE  Cardinality(Places(qs, s, types)) = Cardinality(TypesIn(qs[p], s) \cap types)
<1> DEFINE E == Places(qs, s, types)
           T == TypesIn(qs[p], s) \cap types
           f == [e \in E |-> qs[p][e[2]].type]
<1>1. \A e \in E : \E i \in DOMAIN qs[p] : e = <<p, i>> /\ qs[p][i].sock = s /\ qs[p][i].type \in types
  BY DEF Places, Entries
<1>2. \A i \in DOMAIN qs[p] : qs[p][i].sock = s /\ qs[p][i].type \in types => <<p, i>> \in E
  BY DEF Places, Entries
<1>3. \A t \in T : \E i \in DOMAIN qs[p] : qs[p][i].sock = s /\ qs[p][i].type = t /\ t \in types
  BY DEF TypesIn
<1>4. \A i \in DOMAIN qs[p] : qs[p][i].sock = s /\ qs[p][i].type \in types => qs[p][i].type \in T
  BY DEF TypesIn
<1>5. IsFiniteSet(T) /\ Cardinality(T) \in Nat
  BY FS_Subset, FS_CardinalityType
<1> HIDE DEF E, T
<1>6. f \in [E -> T]
  BY <1>1, <1>4
<1>7. \A a, b \in E : f[a] = f[b] => a = b
  BY <1>1
<1>8. \A t \in T : \E e \in E : f[e] = t
  <2> SUFFICES ASSUME NEW t \in T PROVE \E e \in E : f[e] = t
    OBVIOUS
  <2>1. PICK i \in DOMAIN qs[p] : qs[p][i].sock = s /\ qs[p][i].type = t /\ t \in types
    BY <1>3
  <2>2. <<p, i>> \in E /\ f[<<p, i>>] = t
    BY <1>2, <2>1
  <2> QED  BY <2>2
<1> HIDE DEF f
<1>9. f \in Injection(E, T) /\ f \in Surjection(E, T)
  BY <1>6, <1>7, <1>8 DEF Injection, Surjection, IsInjective
<1>10. Cardinality(E) = Cardinality(T)
  BY <1>5, <1>9, FS_Injection
<1> QED  BY <1>10 DEF E, T

(* The requests and the events of a session in use are counted by its view. *)
LEMMA RequestsCounted ==
  ASSUME TypeInv, SessInv, NEW s \in Sockets \ pool, NEW types, IsFiniteSet(types)
  PROVE  Cardinality(RequestsOf(s, types)) = Cardinality(ReqsOf(s) \cap types)
<1>1. PICK p \in Procs : p = sock[s].proc
  BY Parts
<1>2. ReqsInv /\ s # NoSock
  BY Parts
<1>3. PICK qs : qs = list_net_req
  OBVIOUS
<1>4. \A o \in Procs : \A i \in DOMAIN qs[o] : qs[o][i].sock = s => o = p
  BY <1>1, <1>2, <1>3 DEF ReqsInv, ReqsHome, InUseBy
<1>5. \A i, j \in DOMAIN qs[p] :
        qs[p][i].sock = s /\ qs[p][j].sock = s /\ qs[p][i].type \in types /\ qs[p][i].type = qs[p][j].type => i = j
  BY <1>2, <1>3 DEF ReqsInv, ReqQueueOK
<1>6. Cardinality(Places(qs, s, types)) = Cardinality(TypesIn(qs[p], s) \cap types)
  BY <1>4, <1>5, EntriesCounted
<1>7. RequestsOf(s, types) = Places(qs, s, types) /\ ReqsOf(s) = TypesIn(qs[p], s)
  BY <1>1, <1>3 DEF Places, RequestsOf, ReqsOf
<1> QED  BY <1>6, <1>7

(* All events of a session but DATA are different, so the view counts them. *)
LEMMA EventsCounted ==
  ASSUME TypeInv, SessInv, NEW s \in Sockets \ pool, NEW types, IsFiniteSet(types), "DATA" \notin types
  PROVE  Cardinality(EventsOf(s, types)) = Cardinality(EvtsOf(s) \cap types)
<1>1. PICK p \in Procs : p = sock[s].proc
  BY Parts
<1>2. EvtsInv /\ s # NoSock
  BY Parts
<1>3. PICK qs : qs = list_net_evt
  OBVIOUS
<1>4. \A o \in Procs : \A i \in DOMAIN qs[o] : qs[o][i].sock = s => o = p
  BY <1>1, <1>2, <1>3 DEF EvtsInv, EvtsHome, InUseBy
<1>5. \A i, j \in DOMAIN qs[p] :
        qs[p][i].sock = s /\ qs[p][j].sock = s /\ qs[p][i].type \in types /\ qs[p][i].type = qs[p][j].type => i = j
  BY <1>2, <1>3 DEF EvtsInv, EvtQueueOK
<1>6. Cardinality(Places(qs, s, types)) = Cardinality(TypesIn(qs[p], s) \cap types)
  BY <1>4, <1>5, EntriesCounted
<1>7. EventsOf(s, types) = Places(qs, s, types) /\ EvtsOf(s) = TypesIn(qs[p], s)
  BY <1>1, <1>3 DEF Places, EventsOf, EvtsOf
<1> QED  BY <1>6, <1>7

(* How many of two types there are. *)
LEMMA CountTwo ==
  ASSUME NEW R, NEW a, NEW b, a # b
  PROVE  /\ IsFiniteSet({a}) /\ IsFiniteSet({a, b})
         /\ Cardinality(R \cap {a}) = Counted(a \in R)
         /\ Cardinality(R \cap {a, b}) = Counted(a \in R) + Counted(b \in R)
<1>1. IsFiniteSet({}) /\ Cardinality({}) = 0
  BY FS_EmptySet
<1>2. \A x : IsFiniteSet({x}) /\ Cardinality({x}) = 1
  BY FS_Singleton
<1>3. IsFiniteSet({a, b}) /\ Cardinality({a, b}) = 2
  <2>1. {a, b} = {a} \cup {b}
    OBVIOUS
  <2>2. IsFiniteSet({a} \cup {b}) /\ Cardinality({a} \cup {b}) = IF b \in {a} THEN Cardinality({a}) ELSE Cardinality({a}) + 1
    BY <1>2, FS_AddElement
  <2> QED  BY <1>2, <2>1, <2>2, SMTT(60)
<1>4. R \cap {a} = IF a \in R THEN {a} ELSE {}
  OBVIOUS
<1>5. R \cap {a, b} = IF a \in R THEN (IF b \in R THEN {a, b} ELSE {a}) ELSE (IF b \in R THEN {b} ELSE {})
  OBVIOUS
<1>6. Cardinality(R \cap {a}) = Counted(a \in R)
  BY <1>1, <1>2, <1>4 DEF Counted
<1>7. Cardinality(R \cap {a, b}) = Counted(a \in R) + Counted(b \in R)
  <2>1. CASE a \in R /\ b \in R
    BY <1>3, <1>5, <2>1 DEF Counted
  <2>2. CASE a \in R /\ b \notin R
    BY <1>2, <1>5, <2>2 DEF Counted
  <2>3. CASE a \notin R /\ b \in R
    BY <1>2, <1>5, <2>3 DEF Counted
  <2>4. CASE a \notin R /\ b \notin R
    BY <1>1, <1>5, <2>4 DEF Counted
  <2> QED  BY <2>1, <2>2, <2>3, <2>4
<1> QED  BY <1>2, <1>3, <1>6, <1>7

(* A slot in the pool: the queues, the two threads, the timers and the kernel have forgotten it. *)
LEMMA PoolForgotten ==
  ASSUME TypeInv, SessInv
  PROVE  NoDanglingReference
<1> SUFFICES ASSUME NEW s \in pool
             PROVE  /\ EventsOf(s, EventTypes) = {} /\ RequestsOf(s, RequestTypes) = {}
                    /\ \A p \in Procs : io[p].sock # s
                    /\ main.sock # s
                    /\ ~sock[s].timer_send /\ ~sock[s].timer_close
                    /\ kern[s] = NoDescriptor
  BY DEF NoDanglingReference
<1>1. s \in Sockets /\ ReqsInv /\ EvtsInv /\ IoHome
  BY Parts DEF TypeOK
<1>2. \A p \in Procs : /\ \A i \in DOMAIN list_net_evt[p] : list_net_evt[p][i].sock # s
                       /\ \A i \in DOMAIN list_net_req[p] : list_net_req[p][i].sock # s
                       /\ io[p].sock # s
  BY <1>1 DEF ReqsInv, ReqsHome, EvtsInv, EvtsHome, IoHome, InUseBy
<1>3. EventsOf(s, EventTypes) = {} /\ RequestsOf(s, RequestTypes) = {}
  BY <1>2 DEF EventsOf, RequestsOf, Entries
<1>4. FreeOK(sock[s], kern[s], cb[s]) /\ main.sock # s
  BY <1>1 DEF SessInv, SessionsOK, SessionOK
<1> QED  BY <1>2, <1>3, <1>4 DEF FreeOK

(* One element more. *)
LEMMA OneMore ==
  ASSUME NEW X, IsFiniteSet(X), NEW n \in Nat, Cardinality(X) <= n, NEW x, NEW Y, Y = X \cup {x}
  PROVE  IsFiniteSet(Y) /\ Cardinality(Y) \in Nat /\ Cardinality(Y) <= n + 1
<1>1. Cardinality(X) \in Nat
  BY FS_CardinalityType
<1>2. /\ IsFiniteSet(X \cup {x})
      /\ Cardinality(X \cup {x}) = Cardinality(X) \/ Cardinality(X \cup {x}) = Cardinality(X) + 1
  BY FS_AddElement
<1> QED  BY <1>1, <1>2

(* No set of request types a session can have queued has more than four. *)
LEMMA AtMostFour ==
  ASSUME NEW R, R \subseteq {"SEND", "RECV_ACTIVATE", "TERMINATE", "CLOSE_SOCKET"} \/ R \subseteq {"ACCEPT", "CONNECT"}
  PROVE  Cardinality(R) <= 4
<1>1. \A x : IsFiniteSet({x}) /\ Cardinality({x}) = 1
  BY FS_Singleton
<1>2. ASSUME NEW a, NEW b, NEW c, NEW d
      PROVE  LET F == {a} \cup {b} \cup {c} \cup {d} IN IsFiniteSet(F) /\ Cardinality(F) \in Nat /\ Cardinality(F) <= 4
  <2>1. IsFiniteSet({a}) /\ Cardinality({a}) = 1
    BY <1>1
  <2>2. PICK A, B, C, D : A = {a} /\ B = A \cup {b} /\ C = B \cup {c} /\ D = C \cup {d}
    OBVIOUS
  <2>3. A = {a} /\ B = A \cup {b} /\ C = B \cup {c} /\ D = C \cup {d}
    BY <2>2
  <2>4. IsFiniteSet(A) /\ Cardinality(A) = 1
    BY <2>1, <2>3, Zenon
  <2>5. Cardinality(A) <= 1
    BY <2>4
  <2>6. IsFiniteSet(B) /\ Cardinality(B) \in Nat /\ Cardinality(B) <= 2
    <3>1. Cardinality(B) <= 1 + 1 /\ IsFiniteSet(B) /\ Cardinality(B) \in Nat
      BY <2>3, <2>4, <2>5, OneMore, Zenon, 1 \in Nat
    <3> QED  BY <3>1
  <2>7. IsFiniteSet(C) /\ Cardinality(C) \in Nat /\ Cardinality(C) <= 3
    <3>1. Cardinality(C) <= 2 + 1 /\ IsFiniteSet(C) /\ Cardinality(C) \in Nat
      BY <2>3, <2>6, OneMore, Zenon, 2 \in Nat
    <3> QED  BY <3>1
  <2>8. IsFiniteSet(D) /\ Cardinality(D) \in Nat /\ Cardinality(D) <= 4
    <3>1. Cardinality(D) <= 3 + 1 /\ IsFiniteSet(D) /\ Cardinality(D) \in Nat
      BY <2>3, <2>7, OneMore, Zenon, 3 \in Nat
    <3> QED  BY <3>1
  <2>9. D = {a} \cup {b} \cup {c} \cup {d}
    BY <2>3, Zenon
  <2> QED  BY <2>8, <2>9, Zenon
<1>3. PICK a, b, c, d : R \subseteq {a} \cup {b} \cup {c} \cup {d}
  <2>1. CASE R \subseteq {"SEND", "RECV_ACTIVATE", "TERMINATE", "CLOSE_SOCKET"}
    <3>1. R \subseteq {"SEND"} \cup {"RECV_ACTIVATE"} \cup {"TERMINATE"} \cup {"CLOSE_SOCKET"}
      BY <2>1
    <3> QED  BY <3>1, ZenonT(60)
  <2>2. CASE R \subseteq {"ACCEPT", "CONNECT"}
    <3>1. R \subseteq {"ACCEPT"} \cup {"CONNECT"} \cup {"CONNECT"} \cup {"CONNECT"}
      BY <2>2
    <3> QED  BY <3>1
  <2> QED  BY <2>1, <2>2
<1> DEFINE F == {a} \cup {b} \cup {c} \cup {d}
<1>4. IsFiniteSet(F) /\ Cardinality(F) \in Nat /\ Cardinality(F) <= 4
  BY <1>2
<1>5. R \in SUBSET F
  BY <1>3
<1> HIDE DEF F
<1>6. IsFiniteSet(R) /\ Cardinality(R) <= Cardinality(F)
  BY <1>4, <1>5, FS_Subset
<1>7. Cardinality(R) \in Nat
  BY <1>6, FS_CardinalityType
<1> QED  BY <1>4, <1>6, <1>7

(* The counters of a session tell the requests that are queued, and these are few. *)
LEMMA CountersTell ==
  ASSUME TypeInv, SessInv
  PROVE  RequestsAccounted
<1>1. ASSUME NEW s \in Sockets \ pool
      PROVE  sock[s].send_req - sock[s].send_ack = Cardinality(RequestsOf(s, {"SEND", "CLOSE_SOCKET"}))
  <2>1. sock[s].send_req - sock[s].send_ack = Counted("SEND" \in ReqsOf(s)) + Counted("CLOSE_SOCKET" \in ReqsOf(s))
    BY UsedView DEF UsedOK, SendingOK
  <2>2. IsFiniteSet({"SEND", "CLOSE_SOCKET"})
        /\ Cardinality(ReqsOf(s) \cap {"SEND", "CLOSE_SOCKET"})
             = Counted("SEND" \in ReqsOf(s)) + Counted("CLOSE_SOCKET" \in ReqsOf(s))
    BY CountTwo
  <2> QED  BY <2>1, <2>2, RequestsCounted
<1>2. ASSUME NEW s \in Sockets
      PROVE  Cardinality(RequestsOf(s, RequestTypes)) <= 4
  <2>1. CASE s \in pool
    <3>1. RequestsOf(s, RequestTypes) = {}
      BY <2>1, PoolForgotten DEF NoDanglingReference
    <3> QED  BY <3>1, FS_EmptySet
  <2>2. CASE s \notin pool
    <3>1. IsFiniteSet(RequestTypes)
      <4>1. RequestTypes = {"CONNECT"} \cup {"ACCEPT"} \cup {"SEND"} \cup {"RECV_ACTIVATE"} \cup {"TERMINATE"}
                           \cup {"CLOSE_SOCKET"} \cup {"ACCEPT_FAIL"}
        BY DEF RequestTypes
      <4>2. \A S, x : IsFiniteSet(S) => IsFiniteSet(S \cup {x})
        BY FS_AddElement
      <4>3. IsFiniteSet({"CONNECT"})
        BY FS_Singleton
      <4>4. IsFiniteSet({"CONNECT"} \cup {"ACCEPT"})
        BY <4>2, <4>3
      <4>5. IsFiniteSet({"CONNECT"} \cup {"ACCEPT"} \cup {"SEND"})
        BY <4>2, <4>4
      <4>6. IsFiniteSet({"CONNECT"} \cup {"ACCEPT"} \cup {"SEND"} \cup {"RECV_ACTIVATE"})
        BY <4>2, <4>5
      <4>7. IsFiniteSet({"CONNECT"} \cup {"ACCEPT"} \cup {"SEND"} \cup {"RECV_ACTIVATE"} \cup {"TERMINATE"})
        BY <4>2, <4>6
      <4>8. IsFiniteSet({"CONNECT"} \cup {"ACCEPT"} \cup {"SEND"} \cup {"RECV_ACTIVATE"} \cup {"TERMINATE"}
                        \cup {"CLOSE_SOCKET"})
        BY <4>2, <4>7
      <4> QED  BY <4>1, <4>2, <4>8
    <3>2. Cardinality(RequestsOf(s, RequestTypes)) = Cardinality(ReqsOf(s) \cap RequestTypes)
      BY <2>2, <3>1, RequestsCounted
    <3>3. "ACCEPT_FAIL" \notin ReqsOf(s)
      <4>1. PICK p \in Procs : p = sock[s].proc
        BY <2>2, Parts
      <4>2. ReqsInv /\ s # NoSock
        BY Parts
      <4> QED  BY <4>1, <4>2 DEF ReqsOf, TypesIn, ReqsInv, ReqsHome
    <3>4. UsedOK(sock[s], kern[s], cb[s], ReqsOf(s), EvtsOf(s), IoOf(s), MainOf(s))
      BY <2>2, UsedView
    <3>5. "ACCEPT" \in ReqsOf(s) \/ "CONNECT" \in ReqsOf(s) => ReqsOf(s) \subseteq {"ACCEPT", "CONNECT"}
      BY <3>4 DEF UsedOK, OpeningOK
    <3>6. \/ ReqsOf(s) \cap RequestTypes \subseteq {"SEND", "RECV_ACTIVATE", "TERMINATE", "CLOSE_SOCKET"}
          \/ ReqsOf(s) \cap RequestTypes \subseteq {"ACCEPT", "CONNECT"}
      BY <3>3, <3>5 DEF RequestTypes
    <3> QED  BY <3>2, <3>6, AtMostFour
  <2> QED  BY <2>1, <2>2
<1> QED  BY <1>1, <1>2 DEF RequestsAccounted

(* Nothing of a session is queued behind its end, and nothing at all once the close timer runs. *)
LEMMA EndComesLast ==
  ASSUME TypeInv, SessInv
  PROVE  EndIsLast
<1> SUFFICES ASSUME NEW s \in Sockets \ pool, NEW p \in Procs
             PROVE  /\ \A i \in Entries(list_net_evt[p], s, TerminalEvents) :
                         \A j \in Entries(list_net_evt[p], s, EventTypes) : j <= i
                    /\ sock[s].timer_close => Entries(list_net_evt[p], s, EventTypes) = {}
  BY DEF EndIsLast
<1>1. EvtsInv /\ s # NoSock
  BY Parts
<1>2. \A i \in Entries(list_net_evt[p], s, TerminalEvents) :
        \A j \in Entries(list_net_evt[p], s, EventTypes) : j <= i
  BY <1>1 DEF EvtsInv, EvtQueueOK, Entries
<1>3. ASSUME sock[s].timer_close PROVE Entries(list_net_evt[p], s, EventTypes) = {}
  <2>1. EvtsOf(s) = {}
    BY <1>3, UsedView DEF UsedOK, ClosingOK
  <2>2. \A i \in DOMAIN list_net_evt[p] : list_net_evt[p][i].sock # s
    BY <1>1, <2>1, EvtEntry
  <2> QED  BY <2>2 DEF Entries
<1> QED  BY <1>2, <1>3

(* Reading that is suspended has exactly one token that resumes it. *)
LEMMA TokenTravels ==
  ASSUME TypeInv, SessInv
  PROVE  ActivationToken
<1> SUFFICES ASSUME NEW s \in Sockets \ pool, sock[s].state = "ESTABLISH", sock[s].need_recv_active
             PROVE  Cardinality(EventsOf(s, {"RECV_ACTIVATE"})) + Cardinality(RequestsOf(s, {"RECV_ACTIVATE"})) = 1
  BY DEF ActivationToken
<1>1. Counted("RECV_ACTIVATE" \in EvtsOf(s)) + Counted("RECV_ACTIVATE" \in ReqsOf(s)) = 1
  BY UsedView DEF UsedOK, ReadingOK, Counted
<1>2. IsFiniteSet({"RECV_ACTIVATE"})
      /\ Cardinality(EvtsOf(s) \cap {"RECV_ACTIVATE"}) = Counted("RECV_ACTIVATE" \in EvtsOf(s))
      /\ Cardinality(ReqsOf(s) \cap {"RECV_ACTIVATE"}) = Counted("RECV_ACTIVATE" \in ReqsOf(s))
  <2>1. "RECV_ACTIVATE" # "SEND"
    OBVIOUS
  <2> QED  BY <2>1, CountTwo
<1> QED  BY <1>1, <1>2, RequestsCounted, EventsCounted

(* The bytes of the cache are known, announced or about to be. *)
LEMMA BytesKnown ==
  ASSUME TypeInv, RecvInv
  PROVE  RecvAccounted
BY DEF RecvInv, RecvOK, RecvAccounted, Ending

(***************************************************************************)
(* The theorems.  A process whose queue of events or requests overflows    *)
(* ends there: the theorems are about those that run.                      *)
(***************************************************************************)

(* Of the CRUSH_CODEs of the sessions only the overflow of a queue is ever reached: a request    *)
(* never arrives at another thread than its session's, no DATA event announces more bytes than   *)
(* the receive cache holds, and the close timer finds only sessions that are closing.            *)
THEOREM OnlyFullQueuesEnd == Spec => [](crush \in Ends)
<1>1. SessionsInv => crush \in Ends
  BY DEF SessionsInv
<1> QED  BY <1>1, SessionsInvariant, PTL

(* While the process runs, whatever the number of slots, io threads and sessions and however     *)
(* large the caches: a slot in the pool is referred to by nothing, send_req - send_ack is the    *)
(* number of SEND and CLOSE_SOCKET requests queued, no session has more than four requests       *)
(* queued, and the terminal event of a session is its last.                                      *)
THEOREM SessionsStaySafe == Spec => [](crush \notin {"evt_full", "req_full"} => SessionsSafe)
<1>1. SessionsInv => (crush \notin {"evt_full", "req_full"} => SessionsSafe)
  BY PoolForgotten, CountersTell, EndComesLast DEF SessionsInv, Ends, SessionsSafe, NoCrush
<1> QED  BY <1>1, SessionsInvariant, PTL

(* While the process runs: the bytes the main thread knows of, those DATA events announce and    *)
(* those the io thread is about to announce are the contents of the receive cache; and reading   *)
(* that is suspended always has the one event or request on its way that resumes it.             *)
THEOREM ReceivingStaysSafe == Spec => [](crush \notin {"evt_full", "req_full"} => ReceivingSafe)
<1>1. SessionsInv => (crush \notin {"evt_full", "req_full"} => ReceivingSafe)
  BY BytesKnown, TokenTravels DEF SessionsInv, Ends, ReceivingSafe
<1> QED  BY <1>1, SessionsInvariant, PTL

(* A slot is released only after the application has heard the end of its session. *)
LEMMA ReleaseForgets ==
  ASSUME TypeInv, SessInv, NEW s \in Sockets, s \notin pool, ~sock[s].need_req_close, Release(s)
  PROVE  [Callbacks!Next]_cb
<1>1. cb[s] \in {"down", "idle"} /\ cb' = [cb EXCEPT ![s] = "idle"]
  BY UsedView DEF UsedOK, ClosedOK, ClosingOK, Release
<1>2. cb \in [Sockets -> {"idle", "connecting", "up", "down"}]
  BY Parts DEF TypeOK
<1>3. CASE cb[s] = "idle"
  <2>1. cb' = cb
    BY <1>1, <1>2, <1>3
  <2> QED  BY <2>1
<1>4. CASE cb[s] = "down"
  <2>1. Callbacks!Forget(s)
    BY <1>1, <1>4 DEF Callbacks!Forget, Callbacks!To
  <2> QED  BY <2>1 DEF Callbacks!Next
<1> QED  BY <1>1, <1>3, <1>4

(* Every step shows the application a callback SessionCallbacks allows, or none. *)
LEMMA StepCallbacks == SessionsInv /\ [Next]_vars => [Callbacks!Next]_cb
<1> SUFFICES ASSUME SessionsInv, Next PROVE [Callbacks!Next]_cb
  BY DEF vars
<1>1. crush = "none" /\ TypeInv /\ SessInv
  BY Running DEF SessionsInv
<1>2. cb \in [Sockets -> {"idle", "connecting", "up", "down"}]
  BY <1>1, Parts, SMTT(60) DEF TypeOK
<1>3. ASSUME NEW p \in Procs, Io(p) PROVE cb' = cb
  BY <1>3, ZenonT(60) DEF Io, IoReq, IoHandler, IoReqSend, IoReqRecvActivate, IoReqAccept, IoReqAcceptFail, IoReqConnect,
     IoReqTerminate, IoReqClose, IoOnConnect, IoOnWritable, IoOnReadable, IoOnError, IoSendEnter, IoSendSome,
     IoSendAgain, IoSendError, IoSendDrained, IoSendDone, IoRecvEnter, IoRecvSome, IoRecvStop, IoRecvFlush,
     IoRecvAgain, IoRecvFull, IoRecvEof, IoRecvError, IoListenerAccept, IoEpollWait
<1>4. ASSUME NEW p \in Procs, MainEvtAccept(p) \/ MainEvtData(p) \/ MainEvtRecvActivate(p) PROVE cb' = cb
  BY <1>4, Zenon DEF MainEvtAccept, MainEvtData, MainEvtRecvActivate
<1>5. ASSUME NEW p \in Procs, MainEvtEstablish(p) PROVE Callbacks!Next
  <2>1. TakeEvt(p, {"ESTABLISH"})
    BY <1>5 DEF MainEvtEstablish
  <2>2. PICK s \in Sockets : s = Head(list_net_evt[p]).sock /\ s \notin pool /\ sock[s].proc = p
    BY <1>1, <2>1, EvtHead
  <2>3. "ESTABLISH" \in EvtsOf(s)
    <3>1. Head(list_net_evt[p]) = list_net_evt[p][1] /\ 1 \in DOMAIN list_net_evt[p]
          /\ Head(list_net_evt[p]).type = "ESTABLISH"
      BY <1>1, <2>1, Parts DEF TakeEvt, TypeOK
    <3> QED  BY <1>1, <2>2, <3>1, Parts, EvtEntry
  <2>4. cb[s] \in {"idle", "connecting"}
    BY <1>1, <2>2, <2>3, UsedView DEF UsedOK, HeardOK
  <2>5. cb' = [cb EXCEPT ![s] = "up"]
    BY <1>5, <2>2 DEF MainEvtEstablish
  <2>6. Callbacks!OnEstablish(s)
    BY <2>4, <2>5 DEF Callbacks!OnEstablish, Callbacks!To
  <2> QED  BY <2>6 DEF Callbacks!Next
<1>6. ASSUME NEW p \in Procs, MainEvtEnd(p) PROVE [Callbacks!Next]_cb
  <2>1. TakeEvt(p, TerminalEvents)
    BY <1>6 DEF MainEvtEnd
  <2>2. PICK s \in Sockets : s = Head(list_net_evt[p]).sock /\ s \notin pool /\ sock[s].proc = p
    BY <1>1, <2>1, EvtHead DEF TerminalEvents
  <2>3. PICK type : type = Head(list_net_evt[p]).type
    OBVIOUS
  <2>4. cb' = IF type = "ACCEPT_FAIL" THEN cb ELSE [cb EXCEPT ![s] = "down"]
    BY <1>6, <2>2, <2>3 DEF MainEvtEnd
  <2>5. Only(s)
    <3>1. /\ sock' = [sock EXCEPT ![s].timer_send = FALSE, ![s].timer_close = TRUE]
          /\ UNCHANGED <<pool, kern>>
      BY <1>6, <2>2 DEF MainEvtEnd, ArmTimerClose
    <3> QED  BY <1>1, <2>4, <3>1, Parts DEF Only, SockType
  <2>6. type \in TerminalEvents /\ EvtsOf(s) = {type}
    BY <1>1, <2>1, <2>2, <2>3, <2>5, EvtTake
  <2>7. HeardOK(sock[s], ReqsOf(s), EvtsOf(s), cb[s])
    BY <1>1, <2>2, UsedView DEF UsedOK
  <2>8. CASE type = "ACCEPT_FAIL"
    BY <2>4, <2>8
  <2>9. CASE type = "CONNECT_FAIL"
    <3>1. cb[s] = "connecting" /\ cb' = [cb EXCEPT ![s] = "down"]
      BY <2>4, <2>6, <2>7, <2>9 DEF HeardOK
    <3>2. Callbacks!OnConnectFail(s)
      BY <3>1 DEF Callbacks!OnConnectFail, Callbacks!To
    <3> QED  BY <3>2 DEF Callbacks!Next
  <2>10. CASE type \in {"TERMINATE", "MODULE_ERROR", "SYSTEM_ERROR"}
    <3>1. cb[s] = "up" /\ cb' = [cb EXCEPT ![s] = "down"]
      BY <2>4, <2>6, <2>7, <2>10 DEF HeardOK
    <3>2. Callbacks!OnTerminate(s)
      BY <3>1 DEF Callbacks!OnTerminate, Callbacks!To
    <3> QED  BY <3>2 DEF Callbacks!Next
  <2> QED  BY <2>6, <2>8, <2>9, <2>10 DEF TerminalEvents
<1>7. ASSUME NEW s \in Sockets, MainTimerSend(s) \/ Kernel(s) \/ AppSend(s) \/ AppClose(s) \/ AppSetSendControl(s)
                               \/ MainTimerCloseFlush(s) \/ MainTimerCloseGiveUp(s) \/ MainTimerCloseRequest(s)
      PROVE  cb' = cb
  BY <1>7 DEF MainTimerSend, MainTimerCloseFlush, MainTimerCloseGiveUp, MainTimerCloseRequest, Kernel,
         KernConnected, KernReset, PeerSend, PeerFin, PeerRead, KernOnly, AppSend, AppClose, AppSetSendControl
<1>8. ASSUME NEW s \in Sockets, MainTimerCloseRelease(s) PROVE [Callbacks!Next]_cb
  <2>1. sock[s].timer_close
    BY <1>8 DEF MainTimerCloseRelease
  <2>2. s \notin pool
    BY <1>1, <2>1, Timed
  <2>3. cb' = cb \/ (~sock[s].need_req_close /\ Release(s))
    BY <1>8 DEF MainTimerCloseRelease
  <2> QED  BY <1>1, <2>2, <2>3, ReleaseForgets
<1>9. CASE MainSendCheck \/ MainActiveCheck
  BY <1>9 DEF MainSendCheck, MainActiveCheck
<1>10. CASE MainCloseCheck
  <2>1. MainAt("close_check")
    BY <1>10 DEF MainCloseCheck
  <2>2. PICK s \in Sockets : s = main.sock /\ s \notin pool /\ MainOf(s) = "close_check"
    BY <1>1, <2>1, MainWith
  <2>3. ~sock[s].need_req_close
    BY <1>1, <2>2, UsedView DEF UsedOK, ClosedOK
  <2>4. cb' = cb \/ Release(s)
    BY <1>10, <2>2 DEF MainCloseCheck
  <2> QED  BY <1>1, <2>2, <2>3, <2>4, ReleaseForgets
<1>11. CASE AppConnect
  <2>1. PICK s \in pool : cb' = [cb EXCEPT ![s] = "connecting"]
    BY <1>11 DEF AppConnect
  <2>2. s \in Sockets
    BY <1>1, Parts DEF TypeOK
  <2>3. cb[s] = "idle"
    BY <1>1, <2>2 DEF SessInv, SessionsOK, SessionOK, FreeOK
  <2>4. Callbacks!Connect(s)
    BY <2>1, <2>3 DEF Callbacks!Connect, Callbacks!To
  <2> QED  BY <2>2, <2>4 DEF Callbacks!Next
<1> QED  BY <1>3, <1>4, <1>5, <1>6, <1>7, <1>8, <1>9, <1>10, <1>11
         DEF Next, MainEvt, MainTimerClose, MainContinue, App

(* Whatever the two threads do, the application sees the callbacks of each session in the order  *)
(* SessionCallbacks states: no on_establish after an end, exactly one on_terminate for a session *)
(* that was established, and no use of a slot whose end the application has not heard.           *)
THEOREM CallbacksInOrder == Spec => CallbackOrder
<1>1. Init => Callbacks!Init
  BY DEF Init, Callbacks!Init
<1>2. SessionsInv /\ [Next]_vars => [Callbacks!Next]_cb
  BY StepCallbacks
<1> QED  BY <1>1, <1>2, SessionsInvariant, PTL DEF Spec, CallbackOrder, Callbacks!Spec
=============================================================================
