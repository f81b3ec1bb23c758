--------------------------- MODULE IocpTcpProofs ---------------------------
(* Theorems about IocpTcp: handlers of one session run side by side, of a kind one at a time. *)
EXTENDS IocpTcp, EventLemmas, FiniteSetTheorems

(***************************************************************************)
(* Types                                                                   *)
(***************************************************************************)
States == {"NONE", "CONNECT", "ESTABLISH", "TERMINATE", "CLOSE"}
SocketType ==
  [state : States, error : {"ok", "system", "packet", "overflow"}, open : BOOLEAN,
   recv_op : {"RECV", "CONNECT_REQ", "CONNECT"}, send_op : {"SEND", "CLOSE_REQ"},
   recv_req : Nat, recv_ack : Nat, send_req : Nat, send_ack : Nat,
   data_need_send : Nat, data_has_send : Nat, data_has_recv : Nat, recv_used : Nat,
   try_close_send_count : Nat, timer_send : BOOLEAN, timer_close : BOOLEAN]
OpType == [kind : {"io", "posted", "request"}, len : Nat]
EventTypes == TerminalEvents \cup {"ESTABLISH", "DATA", "RECV_ACTIVE"}
EventType == [type : EventTypes, sock : Sockets, len : Nat]

RecvAt == {"recv", "recv_push", "recv_event", "recv_next", "recv_active",
           "connect_req", "connect", "connect_ops", "establish"}
SendAt == {"send", "send_next"}
EndAt == {"closesocket", "push_end", "connect_fail"}
Labels == {"idle", "send_ack"} \cup RecvAt \cup SendAt \cup EndAt
ThreadType == [at : Labels, sock : Sockets \cup {NoSock},
               kind : {"none", "posted", "request", "fail", "end", "io"}, n : Nat, then : {"idle", "send_ack"}]

Types ==
  /\ sock \in [Sockets -> SocketType] /\ pool \subseteq Sockets
  /\ evt_queue \in Seq(EventType) /\ Len(evt_queue) <= EvtCap
  /\ ops \in [Sockets -> [recv : Seq(OpType), send : Seq(OpType)]]
  /\ th \in [Threads -> ThreadType]
  /\ cb \in [Sockets -> {"idle", "connecting", "up", "down", "wrong"}]

(***************************************************************************)
(* What is on its way belongs to a session in use, free being the pool; a  *)
(* session has one handler of each kind, and its events come in an order.  *)
(***************************************************************************)
SameRole(a, b) == \E R \in {RecvAt, SendAt, EndAt} : a \in R /\ b \in R
HandlerOK(h) ==
  /\ h.at = "idle" <=> h.sock = NoSock
  /\ h.then = "send_ack" => h.at \in {"closesocket", "push_end", "send_ack"}

ThreadsOK(f, free) ==
  /\ \A t \in Threads : HandlerOK(f[t]) /\ f[t].sock \notin free
  /\ \A t, u \in Threads : f[t].sock = f[u].sock /\ SameRole(f[t].at, f[u].at) => t = u

(* ESTABLISH comes before every other event of its session, and one event ends the session. *)
QueueOK(q, free) ==
  /\ \A i \in DOMAIN q : q[i].sock \notin free /\ (q[i].type # "DATA" => q[i].len = 0)
  /\ \A i, j \in DOMAIN q : q[i].sock = q[j].sock =>
       /\ q[i].type = q[j].type /\ q[i].type # "DATA" => i = j
       /\ q[i].type \in TerminalEvents /\ q[j].type \in TerminalEvents => i = j
       /\ q[i].type = "ESTABLISH" => i <= j

(***************************************************************************)
(* The view of one session: r is its structure, c the callback seen last,  *)
(* R and S its outstanding operations, E the types of its events, P where  *)
(* its handlers are, u how many of them have a send to acknowledge.        *)
(***************************************************************************)
Roles == RecvAt \cup SendAt \cup EndAt
PlacesIn(f, s) == {f[t].at : t \in {u \in Threads : f[u].sock = s /\ f[u].at \in Roles}}
Sends(h) == h.at \in {"send", "send_next", "send_ack"} \/ h.then = "send_ack"
SendersIn(f, s) == {t \in Threads : f[t].sock = s /\ Sends(f[t])}

FreeOK(r, c, R, S) ==
  /\ R = <<>> /\ S = <<>> /\ c = "idle"
  /\ r.recv_req = r.recv_ack /\ r.send_req = r.send_ack
  /\ ~r.timer_close /\ r.state \notin {"ESTABLISH", "CLOSE"}

(* A session being connected or accepted has met no other handler, and no event. *)
Opening == {"connect_ops", "establish"}
OpeningOK(r, c, S, E, P) ==
  /\ r.state # "NONE"
  /\ r.state = "CONNECT" =>
       /\ E = {} /\ S = <<>> /\ P \subseteq {"connect_req", "connect"}
       /\ c = "connecting" /\ ~r.timer_close /\ ~r.timer_send /\ r.recv_op # "RECV"
  /\ P \cap {"connect_req", "connect"} # {} => r.state = "CONNECT"
  /\ P \cap Opening # {} =>
       /\ r.state = "ESTABLISH" /\ E = {} /\ S = <<>> /\ P \subseteq Opening
       /\ c \in {"idle", "connecting"} /\ ~r.timer_send
  /\ "establish" \in P => r.recv_op = "RECV" /\ r.send_op = "SEND"

(* Receiving has one token: the operation, its handler, or the event that asks to go on. *)
ReadingOK(r, R, E, P) ==
  /\ Len(R) <= 1 /\ r.recv_req - r.recv_ack = Len(R)
  /\ R # <<>> \/ "RECV_ACTIVE" \in E => P \cap RecvAt = {}
  /\ R # <<>> => "RECV_ACTIVE" \notin E
  /\ R # <<>> /\ r.state # "CONNECT" => r.recv_op = "RECV"
  /\ "RECV_ACTIVE" \in E \/ P \cap (RecvAt \ {"connect_req", "connect", "connect_ops"}) # {}
       => r.recv_op = "RECV"

(* So has sending; the close request takes it for good, when the turns to send more are spent. *)
Spent(r) ==
  r.error # "ok" \/ r.try_close_send_count >= MaxTry \/ r.data_need_send = r.data_has_send
Requested(r, S) == r.send_op = "CLOSE_REQ" /\ S # <<>>
SendingOK(r, S, P, u) ==
  /\ Len(S) <= 1 /\ r.send_req - r.send_ack = Len(S) + u
  /\ S # <<>> \/ r.send_op = "CLOSE_REQ" => P \cap SendAt = {}
  /\ r.state = "ESTABLISH" => r.send_op = "SEND" \/ "connect_ops" \in P
  /\ r.state = "CLOSE" /\ r.send_op # "SEND" => S = <<>> /\ u = 0 /\ Spent(r)

(* A session ends once: one handler, event, request or timer carries its end on. *)
EndingOK(r, c, S, E, P) ==
  /\ P \cap EndAt # {} \/ E \cap TerminalEvents # {} \/ Requested(r, S) => r.state = "TERMINATE"
       /\ ~r.timer_close
  /\ P \cap EndAt # {} => E \cap TerminalEvents = {}
  /\ Requested(r, S) => P \cap EndAt = {} /\ E \cap TerminalEvents = {}
  /\ r.timer_close => r.state \in {"CLOSE", "TERMINATE"} /\ "ESTABLISH" \notin E
  /\ r.state = "CLOSE" => r.timer_close /\ c = "up"
  /\ c = "down" <=> r.state = "TERMINATE" /\ r.timer_close
  /\ c = "down" \/ P \cap {"push_end", "connect_fail"} # {} \/ E \cap TerminalEvents # {} => ~r.open

(* What the application has heard, against what is on its way. *)
HeardOK(r, c, R, S, E, P) ==
  /\ c # "wrong" /\ (r.timer_send => c = "up")
  /\ "ESTABLISH" \in E => c \in {"idle", "connecting"}
  /\ r.state = "ESTABLISH" => c = "up" \/ "ESTABLISH" \in E \/ P \cap Opening # {}
  /\ P \cap {"closesocket", "push_end"} # {} \/ E \cap (TerminalEvents \ {"CONNECT_FAIL"}) # {}
     \/ Requested(r, S) => c = "up" \/ "ESTABLISH" \in E
  /\ "connect_fail" \in P \/ "CONNECT_FAIL" \in E =>
       /\ c = "connecting" /\ R = <<>> /\ S = <<>> 
       /\ P \subseteq {"connect_fail"} /\ E \subseteq {"CONNECT_FAIL"}

UsedOK(r, c, R, S, E, P, u) ==
  /\ OpeningOK(r, c, S, E, P) /\ ReadingOK(r, R, E, P) /\ SendingOK(r, S, P, u)
  /\ EndingOK(r, c, S, E, P) /\ HeardOK(r, c, R, S, E, P)

SessionOK(x) ==
  IF x \in pool THEN FreeOK(sock[x], cb[x], ops[x].recv, ops[x].send)
  ELSE UsedOK(sock[x], cb[x], ops[x].recv, ops[x].send, TypesIn(evt_queue, x), PlacesIn(th, x),
            Cardinality(SendersIn(th, x)))

SessionsInv == \A x \in Sockets : SessionOK(x)

(***************************************************************************)
(* The bytes: k of them are announced or carried by a handler.             *)
(***************************************************************************)
CachesOK(r, k) ==
  /\ r.recv_used <= RecvCap /\ r.data_has_recv + k <= r.recv_used
  /\ r.state \in {"CONNECT", "ESTABLISH"} => r.data_has_recv + k = r.recv_used
  /\ r.data_has_send <= r.data_need_send /\ r.data_need_send - r.data_has_send <= SendCap
  /\ r.try_close_send_count <= MaxTry

(* Operations and handlers bring no more than fits. *)
OpsFit(r, R, S) ==
  /\ \A i \in DOMAIN R : R[i].len <= RecvCap - r.recv_used
  /\ \A i \in DOMAIN S : S[i].len <= r.data_need_send - r.data_has_send

HandlersFit(f, r, x) ==
  \A t \in Threads : f[t].sock = x =>
    /\ f[t].at = "recv" => f[t].n <= RecvCap - r.recv_used
    /\ f[t].at = "send" => f[t].n <= r.data_need_send - r.data_has_send

CarryAt == {"recv_push", "recv_event"}
CarryingIn(f, s) == {t \in Threads : f[t].sock = s /\ f[t].at \in CarryAt}
CarriedIn(f, s) == IF CarryingIn(f, s) = {} THEN 0 ELSE f[CHOOSE t \in CarryingIn(f, s) : TRUE].n

BytesInv ==
  \A x \in Sockets :
    /\ CachesOK(sock[x], Announced(evt_queue, x) + CarriedIn(th, x))
    /\ OpsFit(sock[x], ops[x].recv, ops[x].send)
    /\ HandlersFit(th, sock[x], x)

(***************************************************************************)
(* What the main thread compares is a session in use, and what it loaded   *)
(* first is a value from before.                                           *)
(***************************************************************************)
LookType == [at : {"none", "send", "again", "close"}, sock : Sockets \cup {NoSock},
             first : {"none", "req", "ack"}, n : Nat]
LookOK ==
  /\ look \in LookType /\ (look.at = "none" => look.first = "none")
  /\ look.at # "none" =>
       /\ look.sock \in Sockets /\ look.sock \notin pool /\ cb[look.sock] = "up"
       /\ look.at = "send" => sock[look.sock].state \in {"ESTABLISH", "TERMINATE"}
       /\ look.at # "send" => sock[look.sock].state = "CLOSE"
       /\ look.at \in {"send", "again"} => sock[look.sock].send_op = "SEND"
       /\ look.at = "close" => Spent(sock[look.sock])
       /\ look.first = "req" => look.n <= sock[look.sock].send_req
       /\ look.first = "ack" => look.n <= sock[look.sock].send_ack

Inv == Types /\ ThreadsOK(th, pool) /\ QueueOK(evt_queue, pool) /\ SessionsInv /\ BytesInv
-----------------------------------------------------------------------------
(* The names of the places differ, which the provers would rather be told once. *)
LEMMA Places ==
  /\ "idle" \notin Roles /\ "send_ack" \notin Roles /\ CarryAt \subseteq RecvAt
  /\ RecvAt \cap SendAt = {} /\ RecvAt \cap EndAt = {} /\ SendAt \cap EndAt = {}
  /\ Labels = Roles \cup {"idle", "send_ack"} /\ NoSock \notin Sockets
BY IocpAssumption DEF Roles, CarryAt, RecvAt, SendAt, EndAt, Labels

(* Two threads at places of one role are there for different sessions. *)
LEMMA OneOfEach ==
  ASSUME NEW f, NEW free, ThreadsOK(f, free), NEW R \in {RecvAt, SendAt, EndAt},
         NEW t \in Threads, NEW u \in Threads, f[t].sock = f[u].sock, f[t].at \in R, f[u].at \in R
  PROVE  t = u
BY DEF ThreadsOK, SameRole

(* What a handler carries when it is the only one that can. *)
LEMMA CarriedOne ==
  ASSUME NEW f, NEW s, NEW t \in Threads, CarryingIn(f, s) = {t}
  PROVE  CarriedIn(f, s) = f[t].n
<1>1. (CHOOSE u \in CarryingIn(f, s) : TRUE) = t
  <2>1. \E u \in CarryingIn(f, s) : TRUE
    OBVIOUS
  <2> QED  BY <2>1
<1> QED  BY <1>1 DEF CarriedIn

(* What is carried depends on the handlers that carry it. *)
LEMMA CarriedSame ==
  ASSUME NEW f, NEW g, NEW s, NEW C, C = CarryingIn(f, s), C = CarryingIn(g, s), \A u \in C : g[u] = f[u]
  PROVE  CarriedIn(g, s) = CarriedIn(f, s)
<1>1. CASE CarryingIn(f, s) = {}
  BY <1>1 DEF CarriedIn
<1>2. CASE CarryingIn(f, s) # {}
  <2>1. PICK u \in CarryingIn(f, s) : u = (CHOOSE v \in CarryingIn(f, s) : TRUE)
    BY <1>2
  <2>2. u = (CHOOSE v \in CarryingIn(g, s) : TRUE)
    BY <2>1
  <2>3. CarriedIn(g, s) = g[u].n /\ CarriedIn(f, s) = f[u].n
    BY <1>2, <2>1, <2>2 DEF CarriedIn
  <2> QED  BY <2>3
<1> QED  BY <1>1, <1>2

(* A thread that is with s, or takes it up, goes on as h: what the others see, and what s sees. *)
Moved(f, g, s, t, h) ==
  /\ g \in [Threads -> ThreadType]
  /\ PlacesIn(g, s) = (PlacesIn(f, s) \ {f[t].at}) \cup ({h.at} \cap Roles)
  /\ SendersIn(g, s) = (SendersIn(f, s) \ {t}) \cup (IF Sends(h) THEN {t} ELSE {})
  /\ t \in SendersIn(f, s) <=> Sends(f[t])
  /\ f[t].at \in CarryAt => CarriedIn(f, s) = f[t].n
  /\ CarriedIn(g, s) = IF h.at \in CarryAt THEN h.n
                       ELSE IF f[t].at \in CarryAt THEN 0 ELSE CarriedIn(f, s)
  /\ \A x \in Sockets : x # s => /\ PlacesIn(g, x) = PlacesIn(f, x)
                                 /\ SendersIn(g, x) = SendersIn(f, x)
                                 /\ CarriedIn(g, x) = CarriedIn(f, x)
  /\ \A u \in Threads : u # t => g[u] = f[u]
  /\ g[t] = h

LEMMA ThreadMoves ==
  ASSUME NEW free, NEW f \in [Threads -> ThreadType], ThreadsOK(f, free),
         NEW s \in Sockets, s \notin free, NoSock \notin free, NEW t \in Threads, NEW h \in ThreadType,
         f[t].sock \in {s, NoSock}, h.sock \in {s, NoSock}, HandlerOK(h),
         \A R \in {RecvAt, SendAt, EndAt} : h.at \in R => R \cap (PlacesIn(f, s) \ {f[t].at}) = {},
         NEW g, g = [f EXCEPT ![t] = h]
  PROVE  ThreadsOK(g, free) /\ Moved(f, g, s, t, h)
<1>1. g \in [Threads -> ThreadType] /\ g[t] = h /\ \A u \in Threads : u # t => g[u] = f[u]
  OBVIOUS
<1>2. \A u \in Threads : f[u] \in ThreadType /\ HandlerOK(f[u])
  BY DEF ThreadsOK
<1>3. /\ f[t].sock # s => f[t].at = "idle" /\ f[t].then # "send_ack"
      /\ h.sock # s => h.at = "idle" /\ h.then # "send_ack"
  BY <1>2 DEF HandlerOK
<1>4. \A u \in Threads : u # t => ~(f[u].sock = f[t].sock /\ SameRole(f[u].at, f[t].at))
  BY DEF ThreadsOK
<1>5. PlacesIn(g, s) = (PlacesIn(f, s) \ {f[t].at}) \cup ({h.at} \cap Roles)
  <2>1. ASSUME NEW u \in Threads, u # t, f[u].sock = s, f[u].at \in Roles PROVE f[u].at # f[t].at
    <3>1. CASE f[t].sock = s
      BY <1>4, <2>1, <3>1 DEF SameRole, Roles
    <3>2. CASE f[t].sock # s
      BY <1>3, <2>1, <3>2, Places
    <3> QED  BY <3>1, <3>2
  <2>2. h.at \in Roles => h.sock = s
    BY <1>3, Places
  <2> QED  BY <1>1, <2>1, <2>2 DEF PlacesIn
<1>6. /\ SendersIn(g, s) = (SendersIn(f, s) \ {t}) \cup (IF Sends(h) THEN {t} ELSE {})
      /\ t \in SendersIn(f, s) <=> Sends(f[t])
  BY <1>1, <1>3 DEF SendersIn, Sends
<1>8. ThreadsOK(g, free)
  <2>1. \A u \in Threads : HandlerOK(g[u]) /\ g[u].sock \notin free
    BY <1>1 DEF ThreadsOK
  <2>2. ASSUME NEW u \in Threads, u # t, f[u].sock = h.sock PROVE ~SameRole(f[u].at, h.at)
    <3>1. CASE h.sock # s
      BY <1>3, <3>1, Places DEF SameRole, Roles
    <3>2. CASE h.sock = s
      <4> SUFFICES ASSUME NEW R \in {RecvAt, SendAt, EndAt}, f[u].at \in R, h.at \in R PROVE FALSE
        BY DEF SameRole
      <4>1. f[u].at \in Roles
        BY DEF Roles
      <4>2. f[u].at \in PlacesIn(f, s)
        BY <2>2, <3>2, <4>1 DEF PlacesIn
      <4>3. f[u].at # f[t].at
        <5>1. CASE f[t].sock = s
          BY <1>4, <2>2, <3>2, <5>1 DEF SameRole
        <5>2. CASE f[t].sock # s
          BY <1>3, <4>1, <5>2, Places
        <5> QED  BY <5>1, <5>2
      <4> QED  BY <4>2, <4>3
    <3> QED  BY <3>1, <3>2
  <2>3. ASSUME NEW u \in Threads, NEW v \in Threads, g[u].sock = g[v].sock, SameRole(g[u].at, g[v].at)
        PROVE  u = v
    <3>1. CASE u # t /\ v # t
      BY <1>1, <2>3, <3>1 DEF ThreadsOK
    <3>2. CASE u = t /\ v # t
      <4>1. SameRole(f[v].at, h.at)
        BY <1>1, <2>3, <3>2 DEF SameRole
      <4> QED  BY <1>1, <2>2, <2>3, <3>2, <4>1
    <3>3. CASE u # t /\ v = t
      BY <1>1, <2>2, <2>3, <3>3
    <3> QED  BY <3>1, <3>2, <3>3
  <2> QED  BY <2>1, <2>3 DEF ThreadsOK
<1>9. f[t].at \in CarryAt => CarryingIn(f, s) = {t}
  <2> SUFFICES ASSUME f[t].at \in CarryAt PROVE CarryingIn(f, s) = {t}
    OBVIOUS
  <2>1. f[t].sock = s
    BY <1>3, Places DEF CarryAt
  <2>2. ASSUME NEW u \in CarryingIn(f, s) PROVE u = t
    <3>1. u \in Threads /\ f[u].sock = f[t].sock /\ f[u].at \in RecvAt /\ f[t].at \in RecvAt
      BY <2>1, Places DEF CarryingIn
    <3> QED  BY <3>1, OneOfEach
  <2> QED  BY <2>1, <2>2 DEF CarryingIn
<1>10. h.at \in CarryAt => CarryingIn(g, s) = {t}
  <2> SUFFICES ASSUME h.at \in CarryAt PROVE CarryingIn(g, s) = {t}
    OBVIOUS
  <2>1. h.sock = s
    BY <1>3, Places DEF CarryAt
  <2>2. ASSUME NEW u \in CarryingIn(g, s) PROVE u = t
    <3>1. u \in Threads /\ g[u].sock = g[t].sock /\ g[u].at \in RecvAt /\ g[t].at \in RecvAt
      BY <1>1, <2>1, Places DEF CarryingIn
    <3> QED  BY <1>8, <3>1, OneOfEach
  <2> QED  BY <1>1, <2>1, <2>2 DEF CarryingIn
<1>11. h.at \notin CarryAt => CarryingIn(g, s) = CarryingIn(f, s) \ {t}
  BY <1>1 DEF CarryingIn
<1>12. CarriedIn(g, s) = IF h.at \in CarryAt THEN h.n
                         ELSE IF f[t].at \in CarryAt THEN 0 ELSE CarriedIn(f, s)
  <2>1. CASE h.at \in CarryAt
    <3>1. CarriedIn(g, s) = g[t].n
      BY <1>10, <2>1, CarriedOne
    <3> QED  BY <1>1, <2>1, <3>1
  <2>2. CASE h.at \notin CarryAt /\ f[t].at \in CarryAt
    BY <1>9, <1>11, <2>2 DEF CarriedIn
  <2>3. CASE h.at \notin CarryAt /\ f[t].at \notin CarryAt
    <3>1. CarryingIn(g, s) = CarryingIn(f, s) /\ t \notin CarryingIn(f, s)
      BY <1>11, <2>3 DEF CarryingIn
    <3>2. \A u \in CarryingIn(f, s) : g[u] = f[u]
      BY <1>1, <3>1 DEF CarryingIn
    <3>3. CarriedIn(g, s) = CarriedIn(f, s)
      <4>1. PICK C : C = CarryingIn(f, s)
        OBVIOUS
      <4>2. C = CarryingIn(g, s) /\ \A u \in C : g[u] = f[u]
        BY <3>1, <3>2, <4>1
      <4> QED  BY ONLY <4>1, <4>2, CarriedSame, ZenonT(60)
    <3> QED  BY <2>3, <3>3
  <2> QED  BY <2>1, <2>2, <2>3
<1>13. ASSUME NEW x \in Sockets, x # s
       PROVE  /\ PlacesIn(g, x) = PlacesIn(f, x) /\ SendersIn(g, x) = SendersIn(f, x)
              /\ CarriedIn(g, x) = CarriedIn(f, x)
  <2>1. f[t].sock # x /\ h.sock # x
    BY <1>13, Places
  <2>2. CarryingIn(g, x) = CarryingIn(f, x) /\ t \notin CarryingIn(f, x)
    BY <1>1, <2>1 DEF CarryingIn
  <2>3. CarriedIn(g, x) = CarriedIn(f, x)
    <3>1. \A u \in CarryingIn(f, x) : g[u] = f[u]
      BY <1>1, <2>2 DEF CarryingIn
    <3>2. PICK C : C = CarryingIn(f, x)
      OBVIOUS
    <3>3. C = CarryingIn(g, x) /\ \A u \in C : g[u] = f[u]
      BY <2>2, <3>1, <3>2
    <3> QED  BY ONLY <3>2, <3>3, CarriedSame, ZenonT(60)
  <2>4. PlacesIn(g, x) = PlacesIn(f, x) /\ SendersIn(g, x) = SendersIn(f, x)
    BY <1>1, <2>1 DEF PlacesIn, SendersIn
  <2> QED  BY <2>3, <2>4
<1>14. f[t].at \in CarryAt => CarriedIn(f, s) = f[t].n
  BY <1>9, CarriedOne
<1> QED  BY <1>1, <1>5, <1>6, <1>8, <1>12, <1>13, <1>14 DEF Moved
-----------------------------------------------------------------------------
(* The lengths of events are numbers. *)
LEMMA EventLens == \A m \in EventType : m.len \in Nat
BY DEF EventType

(* Pushing an event for a session in use: ESTABLISH as its first, an end as its only one. *)
LEMMA QueuePush ==
  ASSUME NEW free, NEW q \in Seq(EventType), QueueOK(q, free), NEW e \in EventType, e.sock \notin free,
         e.type # "DATA" => e.len = 0 /\ e.type \notin TypesIn(q, e.sock),
         e.type \in TerminalEvents => TypesIn(q, e.sock) \cap TerminalEvents = {},
         e.type = "ESTABLISH" => TypesIn(q, e.sock) = {}
  PROVE  /\ Append(q, e) \in Seq(EventType) /\ QueueOK(Append(q, e), free)
         /\ TypesIn(Append(q, e), e.sock) = TypesIn(q, e.sock) \cup {e.type}
         /\ Announced(Append(q, e), e.sock) = Announced(q, e.sock) + e.len
         /\ \A x : x # e.sock => /\ TypesIn(Append(q, e), x) = TypesIn(q, x)
                                 /\ Announced(Append(q, e), x) = Announced(q, x)
<1> DEFINE w == Append(q, e)
           n == Len(q)
<1>1. n \in Nat /\ DOMAIN q = 1 .. n /\ DOMAIN w = 1 .. n + 1 /\ w[n + 1] = e
      /\ (\A i \in 1 .. n : w[i] = q[i]) /\ w \in Seq(EventType)
  OBVIOUS
<1>2. \A x : Announced(w, x) = Announced(q, x) + (IF e.sock = x THEN e.len ELSE 0)
  BY EventLens, AnnouncedAppend
<1>3. \A x : TypesIn(w, x) = TypesIn(q, x) \cup (IF e.sock = x THEN {e.type} ELSE {})
  BY TypesAppend
<1>4. \A x : Announced(q, x) \in Nat
  BY EventLens, AnnouncedNat
<1> HIDE DEF w, n
<1>5. \A i \in 1 .. n : q[i].type \in TypesIn(q, q[i].sock)
  BY <1>1, TypesEntry
<1>6. \A i \in 1 .. n + 1 : w[i].sock \notin free /\ (w[i].type # "DATA" => w[i].len = 0)
  <2> SUFFICES ASSUME NEW i \in 1 .. n + 1
               PROVE  w[i].sock \notin free /\ (w[i].type # "DATA" => w[i].len = 0)
    OBVIOUS
  <2>1. CASE i \in 1 .. n
    BY <1>1, <2>1 DEF QueueOK
  <2>2. CASE i = n + 1
    BY <1>1, <2>2
  <2> QED  BY <1>1, <2>1, <2>2
<1>7. ASSUME NEW i \in 1 .. n + 1, NEW j \in 1 .. n + 1, w[i].sock = w[j].sock
      PROVE  /\ w[i].type = w[j].type /\ w[i].type # "DATA" => i = j
             /\ w[i].type \in TerminalEvents /\ w[j].type \in TerminalEvents => i = j
             /\ w[i].type = "ESTABLISH" => i <= j
  <2>1. CASE i \in 1 .. n /\ j \in 1 .. n
    BY <1>1, <1>7, <2>1 DEF QueueOK
  <2>2. CASE i = n + 1 /\ j \in 1 .. n
    BY <1>1, <1>5, <1>7, <2>2
  <2>3. CASE i \in 1 .. n /\ j = n + 1
    BY <1>1, <1>5, <1>7, <2>3
  <2>4. CASE i = n + 1 /\ j = n + 1
    BY <1>1, <2>4
  <2> QED  BY <1>1, <2>1, <2>2, <2>3, <2>4
<1>8. QueueOK(w, free)
  BY <1>1, <1>6, <1>7 DEF QueueOK
<1>9. /\ Announced(w, e.sock) = Announced(q, e.sock) + e.len
      /\ \A x : x # e.sock => Announced(w, x) = Announced(q, x)
  BY <1>2, <1>4
<1>10. /\ TypesIn(w, e.sock) = TypesIn(q, e.sock) \cup {e.type}
       /\ \A x : x # e.sock => TypesIn(w, x) = TypesIn(q, x)
  BY <1>3
<1> QED  BY <1>1, <1>8, <1>9, <1>10 DEF w

(* Taking the first event e: only DATA may be left over, and ESTABLISH is not among the rest w. *)
TakenFrom(q, e, w, free) ==
  /\ w \in Seq(EventType) /\ QueueOK(w, free) /\ Len(w) <= Len(q)
  /\ e \in EventType /\ e.sock \notin free /\ (e.type # "DATA" => e.len = 0)
  /\ e.type \in TypesIn(q, e.sock) /\ TypesIn(q, e.sock) = TypesIn(w, e.sock) \cup {e.type}
  /\ e.type # "DATA" => e.type \notin TypesIn(w, e.sock)
  /\ e.type \in TerminalEvents => TypesIn(w, e.sock) \cap TerminalEvents = {}
  /\ "ESTABLISH" \notin TypesIn(w, e.sock)
  /\ Announced(q, e.sock) = Announced(w, e.sock) + e.len
  /\ \A x : x # e.sock => TypesIn(w, x) = TypesIn(q, x) /\ Announced(w, x) = Announced(q, x)

LEMMA QueueTake ==
  ASSUME NEW free, NEW q \in Seq(EventType), q # <<>>, QueueOK(q, free), NEW e, e = Head(q),
         NEW w, w = Tail(q)
  PROVE  TakenFrom(q, e, w, free)
<1> DEFINE n == Len(w)
<1>1. n \in Nat /\ DOMAIN q = 1 .. n + 1 /\ DOMAIN w = 1 .. n /\ e = q[1] /\ w \in Seq(EventType)
      /\ (\A i \in 1 .. n : w[i] = q[i + 1]) /\ e \in EventType /\ Len(q) = n + 1
  OBVIOUS
<1>2. \A x : Announced(q, x) = Announced(w, x) + (IF e.sock = x THEN e.len ELSE 0)
  BY EventLens, AnnouncedTail
<1>3. \A x : /\ Head(q).sock = x => Head(q).type \in TypesIn(q, x)
                                    /\ TypesIn(q, x) = TypesIn(w, x) \cup {Head(q).type}
             /\ Head(q).sock # x => TypesIn(w, x) = TypesIn(q, x)
  BY TypesTail
<1>4. \A x : Announced(w, x) \in Nat
  BY <1>1, EventLens, AnnouncedNat
<1> HIDE DEF n
<1>5. \A i \in 1 .. n : i + 1 \in 1 .. n + 1 /\ i + 1 # 1 /\ 1 \in 1 .. n + 1
  BY <1>1
<1>6. \A i \in 1 .. n : w[i].sock \notin free /\ (w[i].type # "DATA" => w[i].len = 0)
  BY <1>1, <1>5 DEF QueueOK
<1>7. ASSUME NEW i \in 1 .. n, NEW j \in 1 .. n, w[i].sock = w[j].sock
      PROVE  /\ w[i].type = w[j].type /\ w[i].type # "DATA" => i = j
             /\ w[i].type \in TerminalEvents /\ w[j].type \in TerminalEvents => i = j
             /\ w[i].type = "ESTABLISH" => i <= j
  <2>1. i + 1 \in 1 .. n + 1 /\ j + 1 \in 1 .. n + 1 /\ w[i] = q[i + 1] /\ w[j] = q[j + 1]
    BY <1>1, <1>5
  <2>2. /\ q[i + 1].type = q[j + 1].type /\ q[i + 1].type # "DATA" => i + 1 = j + 1
        /\ q[i + 1].type \in TerminalEvents /\ q[j + 1].type \in TerminalEvents => i + 1 = j + 1
        /\ q[i + 1].type = "ESTABLISH" => i + 1 <= j + 1
    BY <1>1, <1>7, <2>1 DEF QueueOK
  <2> QED  BY <1>1, <2>1, <2>2
<1>8. QueueOK(w, free)
  BY <1>1, <1>6, <1>7 DEF QueueOK
<1>9. ASSUME NEW i \in 1 .. n, w[i].sock = e.sock
      PROVE  /\ e.type # "DATA" => w[i].type # e.type
             /\ e.type \in TerminalEvents => w[i].type \notin TerminalEvents
             /\ w[i].type # "ESTABLISH"
  <2>1. 1 \in 1 .. n + 1 /\ i + 1 \in 1 .. n + 1 /\ w[i] = q[i + 1] /\ i + 1 # 1 /\ ~(i + 1 <= 1)
    BY <1>1, <1>5
  <2>2. /\ q[1].type = q[i + 1].type /\ q[1].type # "DATA" => 1 = i + 1
        /\ q[1].type \in TerminalEvents /\ q[i + 1].type \in TerminalEvents => 1 = i + 1
        /\ q[i + 1].type = "ESTABLISH" => i + 1 <= 1
    BY <1>1, <1>9, <2>1 DEF QueueOK
  <2> QED  BY <1>1, <2>1, <2>2
<1>10. /\ e.type # "DATA" => e.type \notin TypesIn(w, e.sock)
       /\ e.type \in TerminalEvents => TypesIn(w, e.sock) \cap TerminalEvents = {}
       /\ "ESTABLISH" \notin TypesIn(w, e.sock)
  BY <1>1, <1>9 DEF TypesIn
<1>11. e.sock \notin free /\ (e.type # "DATA" => e.len = 0)
  <2>1. 1 \in DOMAIN q
    BY <1>1
  <2> QED  BY <1>1, <2>1 DEF QueueOK
<1>12. /\ Announced(q, e.sock) = Announced(w, e.sock) + e.len
       /\ \A x : x # e.sock => Announced(w, x) = Announced(q, x)
  BY <1>2, <1>4
<1>13. n <= Len(q)
  BY <1>1
<1> QED  BY <1>1, <1>3, <1>8, <1>10, <1>11, <1>12, <1>13 DEF n, TakenFrom

(* Nothing is on its way for a slot in the pool, *)
LEMMA PoolQuiet ==
  ASSUME NEW free, NEW q, QueueOK(q, free), NEW f, ThreadsOK(f, free), NEW s \in free
  PROVE  /\ TypesIn(q, s) = {} /\ PlacesIn(f, s) = {} /\ SendersIn(f, s) = {} /\ CarriedIn(f, s) = 0
         /\ \A i \in DOMAIN q : q[i].sock # s
<1>1. (\A i \in DOMAIN q : q[i].sock # s) /\ \A t \in Threads : f[t].sock # s
  BY DEF QueueOK, ThreadsOK
<1> QED  BY <1>1 DEF TypesIn, PlacesIn, SendersIn, CarriedIn, CarryingIn

(* ... and a slot may go there, or leave it, when nothing is. *)
LEMMA PoolMoves ==
  ASSUME NEW free, NEW q, QueueOK(q, free), NEW f, ThreadsOK(f, free), NEW less,
         \A x \in less : x \in free \/ ((\A i \in DOMAIN q : q[i].sock # x) /\ \A t \in Threads : f[t].sock # x)
  PROVE  QueueOK(q, less) /\ ThreadsOK(f, less)
BY DEF QueueOK, ThreadsOK
-----------------------------------------------------------------------------
(***************************************************************************)
(* A step about one slot: its structure becomes r, its operations o, its   *)
(* last callback c; its events get the types E and announce n bytes; its   *)
(* handlers are at P, u of them have a send to acknowledge, and they carry *)
(* k bytes.                                                                *)
(***************************************************************************)
OpsType == [recv : Seq(OpType), send : Seq(OpType)]
Callbacks == {"idle", "connecting", "up", "down", "wrong"}

SlotStep(s, r, o, c) ==
  /\ r \in SocketType /\ o \in OpsType /\ c \in Callbacks
  /\ sock' = [sock EXCEPT ![s] = r] /\ ops' = [ops EXCEPT ![s] = o] /\ cb' = [cb EXCEPT ![s] = c]
  /\ pool' \subseteq Sockets /\ \A x \in Sockets : x # s => (x \in pool' <=> x \in pool)

QueueStep(s, E, n) ==
  /\ evt_queue' \in Seq(EventType) /\ Len(evt_queue') <= EvtCap /\ QueueOK(evt_queue', pool')
  /\ TypesIn(evt_queue', s) = E /\ Announced(evt_queue', s) = n
  /\ \A x \in Sockets : x # s => /\ TypesIn(evt_queue', x) = TypesIn(evt_queue, x)
                                 /\ Announced(evt_queue', x) = Announced(evt_queue, x)

ThreadStep(s, P, u, k) ==
  /\ th' \in [Threads -> ThreadType] /\ ThreadsOK(th', pool')
  /\ PlacesIn(th', s) = P /\ Cardinality(SendersIn(th', s)) = u /\ CarriedIn(th', s) = k
  /\ \A x \in Sockets : x # s => /\ PlacesIn(th', x) = PlacesIn(th, x)
                                 /\ SendersIn(th', x) = SendersIn(th, x)
                                 /\ CarriedIn(th', x) = CarriedIn(th, x)
                                 /\ \A t \in Threads : th'[t].sock = x => th'[t] = th[t]

(* The invariant is kept when that slot's part is. *)
LEMMA OneSlot ==
  ASSUME Inv, NEW s \in Sockets, NEW r, NEW o, NEW c, SlotStep(s, r, o, c),
         NEW E, NEW n, QueueStep(s, E, n), NEW P, NEW u, NEW k, ThreadStep(s, P, u, k),
         s \in pool' => FreeOK(r, c, o.recv, o.send),
         s \notin pool' => UsedOK(r, c, o.recv, o.send, E, P, u),
         CachesOK(r, n + k), OpsFit(r, o.recv, o.send), HandlersFit(th', r, s)
  PROVE  Inv'
<1>1. Types /\ SessionsInv /\ BytesInv
  BY DEF Inv
<1>2. /\ sock'[s] = r /\ ops'[s] = o /\ cb'[s] = c
      /\ \A x \in Sockets : x # s => sock'[x] = sock[x] /\ ops'[x] = ops[x] /\ cb'[x] = cb[x]
  BY <1>1 DEF SlotStep, Types
<1>3. Types'
  BY <1>1 DEF Types, SlotStep, QueueStep, ThreadStep, OpsType, Callbacks
<1>4. ASSUME NEW x \in Sockets PROVE SessionOK(x)'
  <2>1. CASE x = s
    BY <1>2, <2>1 DEF SessionOK, QueueStep, ThreadStep
  <2>2. CASE x # s
    <3>1. SessionOK(x) /\ (x \in pool' <=> x \in pool)
      BY <1>1, <2>2 DEF SessionsInv, SlotStep
    <3>2. TypesIn(evt_queue', x) = TypesIn(evt_queue, x)
      BY <2>2 DEF QueueStep
    <3>3. PlacesIn(th', x) = PlacesIn(th, x) /\ SendersIn(th', x) = SendersIn(th, x)
      BY <2>2 DEF ThreadStep
    <3>4. sock'[x] = sock[x] /\ ops'[x] = ops[x] /\ cb'[x] = cb[x]
      BY <1>2, <2>2
    <3> QED  BY <3>1, <3>2, <3>3, <3>4 DEF SessionOK
  <2> QED  BY <2>1, <2>2
<1>5. ASSUME NEW x \in Sockets
      PROVE  /\ CachesOK(sock[x], Announced(evt_queue, x) + CarriedIn(th, x))'
             /\ OpsFit(sock[x], ops[x].recv, ops[x].send)'
             /\ HandlersFit(th, sock[x], x)'
  <2>1. CASE x = s
    <3>1. sock'[x] = r /\ ops'[x] = o /\ Announced(evt_queue', x) = n /\ CarriedIn(th', x) = k
      BY <1>2, <2>1 DEF QueueStep, ThreadStep
    <3> QED  BY <2>1, <3>1
  <2>2. CASE x # s
    <3>1. /\ CachesOK(sock[x], Announced(evt_queue, x) + CarriedIn(th, x))
          /\ OpsFit(sock[x], ops[x].recv, ops[x].send) /\ HandlersFit(th, sock[x], x)
      BY <1>1 DEF BytesInv
    <3>2. Announced(evt_queue', x) = Announced(evt_queue, x)
      BY <2>2 DEF QueueStep
    <3>3. CarriedIn(th', x) = CarriedIn(th, x) /\ \A t \in Threads : th'[t].sock = x => th'[t] = th[t]
      BY <2>2 DEF ThreadStep
    <3>4. sock'[x] = sock[x] /\ ops'[x] = ops[x]
      BY <1>2, <2>2
    <3>5. HandlersFit(th', sock[x], x)
      BY <3>1, <3>3 DEF HandlersFit
    <3> QED  BY <3>1, <3>2, <3>3, <3>4, <3>5
  <2> QED  BY <2>1, <2>2
<1>6. SessionsInv'
  BY <1>4 DEF SessionsInv
<1>7. BytesInv'
  BY <1>5 DEF BytesInv
<1> QED  BY <1>3, <1>6, <1>7 DEF Inv, QueueStep, ThreadStep

(* What the invariant gives to every step on a slot in use. *)
LEMMA Parts ==
  ASSUME Inv
  PROVE  /\ Types /\ ThreadsOK(th, pool) /\ QueueOK(evt_queue, pool) /\ NoSock \notin pool
         /\ th \in [Threads -> ThreadType]
         /\ \A x \in Sockets : /\ sock[x] \in SocketType /\ ops[x] \in OpsType /\ cb[x] \in Callbacks
                               /\ ops[x] = [recv |-> ops[x].recv, send |-> ops[x].send]
                               /\ Announced(evt_queue, x) \in Nat
                               /\ IsFiniteSet(SendersIn(th, x)) /\ Cardinality(SendersIn(th, x)) \in Nat
<1>1. Types /\ ThreadsOK(th, pool) /\ QueueOK(evt_queue, pool) /\ NoSock \notin pool
  BY IocpAssumption DEF Inv, Types
<1>2. ASSUME NEW x \in Sockets
      PROVE  IsFiniteSet(SendersIn(th, x)) /\ Cardinality(SendersIn(th, x)) \in Nat
  <2>1. IsFiniteSet(SendersIn(th, x))
    BY IocpAssumption, FS_Subset DEF SendersIn
  <2> QED  BY <2>1, FS_CardinalityType
<1>3. \A x \in Sockets : Announced(evt_queue, x) \in Nat
  BY <1>1, EventLens, AnnouncedNat DEF Types
<1>4. \A x \in Sockets : /\ sock[x] \in SocketType /\ ops[x] \in OpsType /\ cb[x] \in Callbacks
                         /\ ops[x] = [recv |-> ops[x].recv, send |-> ops[x].send]
  BY <1>1 DEF Types, OpsType, Callbacks
<1> QED  BY <1>1, <1>2, <1>3, <1>4 DEF Types

(* The view of a session in use. *)
LEMMA UsedView ==
  ASSUME Inv, NEW s \in Sockets
  PROVE  /\ s \notin pool => UsedOK(sock[s], cb[s], ops[s].recv, ops[s].send, TypesIn(evt_queue, s),
                                    PlacesIn(th, s), Cardinality(SendersIn(th, s)))
         /\ s \in pool => FreeOK(sock[s], cb[s], ops[s].recv, ops[s].send)
         /\ CachesOK(sock[s], Announced(evt_queue, s) + CarriedIn(th, s))
         /\ OpsFit(sock[s], ops[s].recv, ops[s].send) /\ HandlersFit(th, sock[s], s)
BY DEF Inv, SessionsInv, SessionOK, BytesInv

(* The queue when the step leaves it alone, *)
LEMMA QueueStays ==
  ASSUME Inv, NEW s \in Sockets, UNCHANGED <<evt_queue, pool>>
  PROVE  QueueStep(s, TypesIn(evt_queue, s), Announced(evt_queue, s))
<1>1. evt_queue' = evt_queue /\ pool' = pool
  OBVIOUS
<1> QED  BY <1>1, Parts DEF QueueStep, Types

(* ... when it pushes an event, *)
LEMMA QueueGrows ==
  ASSUME Inv, UNCHANGED pool, NEW s \in Sockets, s \notin pool, NEW type \in EventTypes, NEW n \in Nat,
         PushEvt(type, s, n), crush = "none", crush' = "none",
         type # "DATA" => n = 0 /\ type \notin TypesIn(evt_queue, s),
         type \in TerminalEvents => TypesIn(evt_queue, s) \cap TerminalEvents = {},
         type = "ESTABLISH" => TypesIn(evt_queue, s) = {}
  PROVE  QueueStep(s, TypesIn(evt_queue, s) \cup {type}, Announced(evt_queue, s) + n)
<1> DEFINE e == [type |-> type, sock |-> s, len |-> n]
<1>1. evt_queue' = Append(evt_queue, e) /\ Len(evt_queue) < EvtCap
  BY DEF PushEvt
<1>2. e \in EventType /\ e.sock = s /\ e.type = type /\ e.len = n
  BY DEF EventType
<1>3. evt_queue \in Seq(EventType) /\ QueueOK(evt_queue, pool)
  BY Parts DEF Types
<1> HIDE DEF e
<1>4. /\ Append(evt_queue, e) \in Seq(EventType) /\ QueueOK(Append(evt_queue, e), pool)
      /\ TypesIn(Append(evt_queue, e), s) = TypesIn(evt_queue, s) \cup {type}
      /\ Announced(Append(evt_queue, e), s) = Announced(evt_queue, s) + n
      /\ \A x : x # s => /\ TypesIn(Append(evt_queue, e), x) = TypesIn(evt_queue, x)
                         /\ Announced(Append(evt_queue, e), x) = Announced(evt_queue, x)
  BY <1>2, <1>3, QueuePush
<1>5. Len(evt_queue') <= EvtCap
  BY <1>1, <1>3, IocpAssumption
<1> QED  BY <1>1, <1>4, <1>5 DEF QueueStep

(* ... and when the main thread takes one. *)
LEMMA QueueShrinks ==
  ASSUME Inv, UNCHANGED pool, NEW type, TakeEvt(type), NEW s, s = Head(evt_queue).sock,
         NEW n, n = Head(evt_queue).len
  PROVE  /\ s \in Sockets /\ s \notin pool /\ n \in Nat /\ (type # "DATA" => n = 0)
         /\ \E E, m : /\ QueueStep(s, E, m) /\ m \in Nat /\ Announced(evt_queue, s) = m + n
                      /\ type \in TypesIn(evt_queue, s) /\ TypesIn(evt_queue, s) = E \cup {type}
                      /\ type # "DATA" => type \notin E
                      /\ type \in TerminalEvents => E \cap TerminalEvents = {}
                      /\ "ESTABLISH" \notin E
<1>1. PICK e : e = Head(evt_queue)
  OBVIOUS
<1>2. evt_queue \in Seq(EventType) /\ QueueOK(evt_queue, pool) /\ evt_queue # <<>>
      /\ evt_queue' = Tail(evt_queue) /\ e.type = type /\ e.sock = s /\ e.len = n
  BY <1>1, Parts DEF Types, TakeEvt
<1>3. PICK w : w = Tail(evt_queue)
  OBVIOUS
<1>4. /\ w \in Seq(EventType) /\ QueueOK(w, pool) /\ Len(w) <= Len(evt_queue)
      /\ e \in EventType /\ s \notin pool /\ (type # "DATA" => n = 0)
      /\ type \in TypesIn(evt_queue, s) /\ TypesIn(evt_queue, s) = TypesIn(w, s) \cup {type}
      /\ type # "DATA" => type \notin TypesIn(w, s)
      /\ type \in TerminalEvents => TypesIn(w, s) \cap TerminalEvents = {}
      /\ "ESTABLISH" \notin TypesIn(w, s)
      /\ Announced(evt_queue, s) = Announced(w, s) + n
      /\ \A x : x # s => /\ TypesIn(w, x) = TypesIn(evt_queue, x)
                         /\ Announced(w, x) = Announced(evt_queue, x)
  <2>1. PICK q \in Seq(EventType) : q = evt_queue
    BY <1>2
  <2>2. q # <<>> /\ QueueOK(q, pool) /\ e = Head(q) /\ w = Tail(q)
    BY <1>1, <1>2, <1>3, <2>1
  <2>3. TakenFrom(q, e, w, pool)
    BY ONLY <2>1, <2>2, QueueTake
  <2> QED  BY <1>2, <2>1, <2>3 DEF TakenFrom
<1>5. s \in Sockets /\ n \in Nat
  BY <1>2, <1>4 DEF EventType
<1>6. Len(w) <= EvtCap
  <2>1. Len(evt_queue) <= EvtCap /\ Len(w) \in Nat /\ Len(evt_queue) \in Nat /\ EvtCap \in Nat
    BY <1>2, <1>4, Parts, IocpAssumption DEF Types
  <2> QED  BY <1>4, <2>1
<1>7. QueueStep(s, TypesIn(w, s), Announced(w, s))
  BY <1>2, <1>3, <1>4, <1>6 DEF QueueStep
<1>8. Announced(w, s) \in Nat
  BY <1>4, EventLens, AnnouncedNat
<1> QED  BY <1>4, <1>5, <1>7, <1>8
-----------------------------------------------------------------------------
(* The threads when the step leaves them alone, *)
LEMMA ThreadsStay ==
  ASSUME Inv, NEW s \in Sockets, UNCHANGED th, ThreadsOK(th, pool')
  PROVE  ThreadStep(s, PlacesIn(th, s), Cardinality(SendersIn(th, s)), CarriedIn(th, s))
<1>1. th' = th
  OBVIOUS
<1> QED  BY <1>1, Parts DEF ThreadStep

(* ... and when thread t, idle or with s, goes on as h. *)
SendCount(h) == IF Sends(h) THEN 1 ELSE 0
PlacesThen(s, t, h) == (PlacesIn(th, s) \ {th[t].at}) \cup ({h.at} \cap Roles)
SendsThen(s, t, h) == (Cardinality(SendersIn(th, s)) - SendCount(th[t])) + SendCount(h)
CarriedThen(s, t, h) == IF h.at \in CarryAt THEN h.n ELSE IF th[t].at \in CarryAt THEN 0 ELSE CarriedIn(th, s)

LEMMA ThreadGoes ==
  ASSUME Inv, NEW s \in Sockets, s \notin pool', pool' \subseteq Sockets, ThreadsOK(th, pool'),
         NEW t \in Threads, NEW h \in ThreadType,
         th[t].sock \in {s, NoSock}, h.sock \in {s, NoSock}, HandlerOK(h),
         \A R \in {RecvAt, SendAt, EndAt} : h.at \in R => R \cap (PlacesIn(th, s) \ {th[t].at}) = {},
         th' = [th EXCEPT ![t] = h]
  PROVE  /\ ThreadStep(s, PlacesThen(s, t, h), SendsThen(s, t, h), CarriedThen(s, t, h))
         /\ Sends(th[t]) => Cardinality(SendersIn(th, s)) >= 1
         /\ th[t].at \in CarryAt => CarriedIn(th, s) = th[t].n
<1>1. ThreadsOK(th', pool') /\ Moved(th, th', s, t, h) /\ (th[t].at \in CarryAt => CarriedIn(th, s) = th[t].n)
  <2>1. PICK f \in [Threads -> ThreadType] : f = th
    BY Parts
  <2>2. PICK free, g : free = pool' /\ g = th'
    OBVIOUS
  <2>3. /\ ThreadsOK(f, free) /\ s \notin free /\ NoSock \notin free
        /\ f[t].sock \in {s, NoSock} /\ g = [f EXCEPT ![t] = h]
        /\ \A R \in {RecvAt, SendAt, EndAt} : h.at \in R => R \cap (PlacesIn(f, s) \ {f[t].at}) = {}
    BY <2>1, <2>2, IocpAssumption
  <2>4. ThreadsOK(g, free) /\ Moved(f, g, s, t, h)
    BY <2>3, ThreadMoves
  <2> QED  BY <2>1, <2>2, <2>4 DEF Moved
<1>2. /\ Cardinality(SendersIn(th', s)) = SendsThen(s, t, h)
      /\ Sends(th[t]) => Cardinality(SendersIn(th, s)) >= 1
  <2>1. PICK A, B : A = SendersIn(th, s) /\ B = SendersIn(th', s)
    OBVIOUS
  <2>2. IsFiniteSet(A) /\ B = (A \ {t}) \cup (IF Sends(h) THEN {t} ELSE {})
        /\ (t \in A <=> Sends(th[t])) /\ Cardinality(A) \in Nat
    BY <1>1, <2>1, Parts DEF Moved
  <2>3. IsFiniteSet(A \ {t}) /\ Cardinality(A \ {t}) = Cardinality(A) - SendCount(th[t])
    BY <2>2, FS_RemoveElement DEF SendCount
  <2>4. Cardinality(A \ {t}) \in Nat
    BY <2>3, FS_CardinalityType
  <2>5. ASSUME Sends(h) PROVE Cardinality(B) = SendsThen(s, t, h)
    <3>1. B = (A \ {t}) \cup {t}
      BY <2>2, <2>5
    <3>2. Cardinality(B) = Cardinality(A \ {t}) + 1
      BY <2>3, <3>1, FS_AddElement
    <3> QED  BY <2>1, <2>2, <2>3, <2>4, <2>5, <3>2 DEF SendsThen, SendCount
  <2>6. ASSUME ~Sends(h) PROVE Cardinality(B) = SendsThen(s, t, h)
    <3>1. B = A \ {t}
      BY <2>2, <2>6
    <3>2. SendCount(h) = 0
      BY <2>6 DEF SendCount
    <3>3. SendsThen(s, t, h) = (Cardinality(A) - SendCount(th[t])) + 0
      BY <2>1, <3>2 DEF SendsThen
    <3>4. PICK n \in Nat : n = Cardinality(A \ {t})
      BY <2>4
    <3>5. Cardinality(A) - SendCount(th[t]) = n
      BY <2>3, <3>4
    <3>6. SendsThen(s, t, h) = n
      BY <3>3, <3>5
    <3> QED  BY <2>1, <3>1, <3>4, <3>6
  <2>7. Sends(th[t]) => Cardinality(A) >= 1
    BY <2>2, <2>3, <2>4 DEF SendCount
  <2> QED  BY <2>1, <2>5, <2>6, <2>7
<1>3. ASSUME NEW x \in Sockets, x # s, NEW u \in Threads, th'[u].sock = x PROVE th'[u] = th[u]
  BY <1>1, <1>3, Places DEF Moved
<1> QED  BY <1>1, <1>2, <1>3 DEF ThreadStep, Moved, PlacesThen, CarriedThen

(* What handlers and operations bring still fits when no other handler brings anything, *)
LEMMA FitGoes ==
  ASSUME Inv, NEW s \in Sockets, NEW t \in Threads, NEW h, th' = [th EXCEPT ![t] = h],
         NEW r \in SocketType,
         r.recv_used <= sock[s].recv_used \/ (th[t].sock = s /\ th[t].at \in RecvAt),
         (sock[s].data_need_send - sock[s].data_has_send <= r.data_need_send - r.data_has_send)
           \/ (th[t].sock = s /\ th[t].at \in SendAt),
         h.at = "recv" => h.n <= RecvCap - r.recv_used,
         h.at = "send" => h.n <= r.data_need_send - r.data_has_send
  PROVE  HandlersFit(th', r, s)
<1>1. HandlersFit(th, sock[s], s) /\ ThreadsOK(th, pool) /\ th \in [Threads -> ThreadType]
      /\ sock[s] \in SocketType
  BY UsedView, Parts
<1>2. ASSUME NEW u \in Threads, th'[u].sock = s
      PROVE  /\ th'[u].at = "recv" => th'[u].n <= RecvCap - r.recv_used
             /\ th'[u].at = "send" => th'[u].n <= r.data_need_send - r.data_has_send
  <2>1. CASE u = t
    BY <1>1, <2>1
  <2>2. CASE u # t
    <3>1. th'[u] = th[u] /\ th[u].n \in Nat /\ th[u].sock = s
      BY <1>1, <1>2, <2>2 DEF ThreadType
    <3>2. /\ th[u].at = "recv" => th[u].n <= RecvCap - sock[s].recv_used
          /\ th[u].at = "send" => th[u].n <= sock[s].data_need_send - sock[s].data_has_send
      BY <1>1, <3>1 DEF HandlersFit
    <3>3. /\ th[u].at = "recv" => ~(th[t].sock = s /\ th[t].at \in RecvAt)
          /\ th[u].at = "send" => ~(th[t].sock = s /\ th[t].at \in SendAt)
      BY <1>1, <2>2, <3>1 DEF ThreadsOK, SameRole, RecvAt, SendAt
    <3>4. RecvCap \in Nat /\ r.recv_used \in Nat /\ sock[s].recv_used \in Nat
          /\ r.data_need_send \in Nat /\ r.data_has_send \in Nat
          /\ sock[s].data_need_send \in Nat /\ sock[s].data_has_send \in Nat
      BY <1>1, IocpAssumption DEF SocketType
    <3> QED  BY <3>1, <3>2, <3>3, <3>4
  <2> QED  BY <2>1, <2>2
<1> QED  BY <1>2 DEF HandlersFit

(* ... or the threads stay where they are. *)
LEMMA FitStays ==
  ASSUME Inv, NEW s \in Sockets, UNCHANGED th, NEW r \in SocketType,
         r.recv_used <= sock[s].recv_used,
         sock[s].data_need_send - sock[s].data_has_send <= r.data_need_send - r.data_has_send
  PROVE  HandlersFit(th', r, s)
<1>1. HandlersFit(th, sock[s], s) /\ th \in [Threads -> ThreadType] /\ sock[s] \in SocketType
  BY UsedView, Parts
<1>2. ASSUME NEW u \in Threads, th'[u].sock = s
      PROVE  /\ th'[u].at = "recv" => th'[u].n <= RecvCap - r.recv_used
             /\ th'[u].at = "send" => th'[u].n <= r.data_need_send - r.data_has_send
  <2>1. th'[u] = th[u] /\ th[u].n \in Nat /\ th[u].sock = s
    BY <1>1, <1>2 DEF ThreadType
  <2>2. /\ th[u].at = "recv" => th[u].n <= RecvCap - sock[s].recv_used
        /\ th[u].at = "send" => th[u].n <= sock[s].data_need_send - sock[s].data_has_send
    BY <1>1, <2>1 DEF HandlersFit
  <2>3. RecvCap \in Nat /\ r.recv_used \in Nat /\ sock[s].recv_used \in Nat
        /\ r.data_need_send \in Nat /\ r.data_has_send \in Nat
        /\ sock[s].data_need_send \in Nat /\ sock[s].data_has_send \in Nat
    BY <1>1, IocpAssumption DEF SocketType
  <2> QED  BY <2>1, <2>2, <2>3
<1> QED  BY <1>2 DEF HandlersFit

(* The handler of s that thread t is in, and what else is known of s then. *)
LEMMA AtPlace ==
  ASSUME Inv, NEW t \in Threads, th[t].at # "idle"
  PROVE  /\ th[t].sock \in Sockets /\ th[t].sock \notin pool /\ th[t] \in ThreadType
         /\ th[t].at \in Roles => th[t].at \in PlacesIn(th, th[t].sock)
         /\ \A R \in {RecvAt, SendAt, EndAt} : th[t].at \in R => PlacesIn(th, th[t].sock) \cap R = {th[t].at}
         /\ th[t].then = "send_ack" => th[t].at \in {"closesocket", "push_end", "send_ack"}
<1>1. th[t] \in ThreadType /\ HandlerOK(th[t]) /\ th[t].sock \notin pool
  BY Parts DEF ThreadsOK
<1>2. th[t].sock \in Sockets
  BY <1>1 DEF HandlerOK, ThreadType
<1>3. th[t].at \in Roles => th[t].at \in PlacesIn(th, th[t].sock)
  BY DEF PlacesIn
<1>4. ASSUME NEW R \in {RecvAt, SendAt, EndAt}, th[t].at \in R
      PROVE  PlacesIn(th, th[t].sock) \cap R = {th[t].at}
  <2>1. ASSUME NEW u \in Threads, th[u].sock = th[t].sock, th[u].at \in R PROVE u = t
    BY <1>4, <2>1, Parts DEF ThreadsOK, SameRole
  <2>2. R \subseteq Roles
    BY DEF Roles
  <2> QED  BY <1>3, <1>4, <2>1, <2>2 DEF PlacesIn
<1> QED  BY <1>1, <1>2, <1>3, <1>4 DEF HandlerOK
-----------------------------------------------------------------------------
(* The view of slot s before a step. *)
View(s, v, o, c, E, n, P, u, k) ==
  /\ v = sock[s] /\ o = ops[s] /\ c = cb[s] /\ E = TypesIn(evt_queue, s) /\ n = Announced(evt_queue, s)
  /\ P = PlacesIn(th, s) /\ u = Cardinality(SendersIn(th, s)) /\ k = CarriedIn(th, s)

LEMMA Viewed ==
  ASSUME Inv, NEW s \in Sockets, NEW v, NEW o, NEW c, NEW E, NEW n, NEW P, NEW u, NEW k,
         View(s, v, o, c, E, n, P, u, k)
  PROVE  /\ v \in SocketType /\ o \in OpsType /\ c \in Callbacks /\ n \in Nat /\ u \in Nat
         /\ o = [recv |-> o.recv, send |-> o.send]
         /\ s \notin pool => UsedOK(v, c, o.recv, o.send, E, P, u)
         /\ s \in pool => FreeOK(v, c, o.recv, o.send)
         /\ CachesOK(v, n + k) /\ OpsFit(v, o.recv, o.send)
         /\ Len(o.recv) \in Nat /\ Len(o.send) \in Nat
<1>1. o \in OpsType
  BY Parts DEF View
<1>2. Len(o.recv) \in Nat /\ Len(o.send) \in Nat
  BY <1>1 DEF OpsType
<1> QED  BY <1>2, Parts, UsedView DEF View

(* The view after a step on a slot in use that takes nothing from, or to, the pool. *)
LEMMA UsedSlot ==
  ASSUME Inv, UNCHANGED pool, NEW s \in Sockets, s \notin pool, NEW r, NEW o, NEW c, SlotStep(s, r, o, c),
         NEW E, NEW n, QueueStep(s, E, n), NEW P, NEW u, NEW k, ThreadStep(s, P, u, k),
         UsedOK(r, c, o.recv, o.send, E, P, u), CachesOK(r, n + k), OpsFit(r, o.recv, o.send),
         HandlersFit(th', r, s)
  PROVE  Inv'
<1>1. s \notin pool'
  OBVIOUS
<1> QED  BY <1>1, OneSlot

(* How many sends of s are to be acknowledged when t goes on as h. *)
LEMMA SendsCount ==
  ASSUME Inv, NEW s \in Sockets, NEW t \in Threads, NEW h, NEW u, u = Cardinality(SendersIn(th, s))
  PROVE  /\ (Sends(h) <=> Sends(th[t])) => SendsThen(s, t, h) = u
         /\ ~Sends(h) /\ Sends(th[t]) => SendsThen(s, t, h) = u - 1
         /\ Sends(h) /\ ~Sends(th[t]) => SendsThen(s, t, h) = u + 1
<1>1. u \in Nat
  BY Parts
<1>2. SendsThen(s, t, h) = (u - SendCount(th[t])) + SendCount(h)
  BY DEF SendsThen
<1>3. /\ Sends(h) => SendCount(h) = 1
      /\ ~Sends(h) => SendCount(h) = 0
      /\ Sends(th[t]) => SendCount(th[t]) = 1
      /\ ~Sends(th[t]) => SendCount(th[t]) = 0
  BY DEF SendCount
<1>4. CASE Sends(h) /\ Sends(th[t])
  BY <1>1, <1>2, <1>3, <1>4
<1>5. CASE ~Sends(h) /\ ~Sends(th[t])
  BY <1>1, <1>2, <1>3, <1>5
<1>6. CASE ~Sends(h) /\ Sends(th[t])
  BY <1>1, <1>2, <1>3, <1>6
<1>7. CASE Sends(h) /\ ~Sends(th[t])
  BY <1>1, <1>2, <1>3, <1>7
<1> QED  BY <1>4, <1>5, <1>6, <1>7

(* A handler of s goes on at another place, or at the same one, *)
LEMMA Going ==
  ASSUME Inv, UNCHANGED pool, NEW t \in Threads, th[t].at # "idle",
         NEW s, NEW v, NEW o, NEW c, NEW E, NEW n, NEW P, NEW u, NEW k,
         s = th[t].sock, View(s, v, o, c, E, n, P, u, k),
         NEW h \in ThreadType, th' = [th EXCEPT ![t] = h], h.sock = s, HandlerOK(h), Sends(h) <=> Sends(th[t]),
         \A R \in {RecvAt, SendAt, EndAt} : h.at \in R => P \cap R \subseteq {th[t].at},
         NEW Q, Q = (P \ {th[t].at}) \cup ({h.at} \cap Roles),
         NEW l, l = IF h.at \in CarryAt THEN h.n ELSE IF th[t].at \in CarryAt THEN 0 ELSE k
  PROVE  ThreadStep(s, Q, u, l)
<1>1. s \in Sockets /\ s \notin pool'
  BY AtPlace
<1>2. ThreadsOK(th, pool') /\ pool' \subseteq Sockets
  BY Parts DEF Types
<1>3. P = PlacesIn(th, s) /\ u = Cardinality(SendersIn(th, s)) /\ k = CarriedIn(th, s)
  BY DEF View
<1>4. SendsThen(s, t, h) = u
  BY <1>1, <1>3, SendsCount
<1>5. \A R \in {RecvAt, SendAt, EndAt} : h.at \in R => R \cap (PlacesIn(th, s) \ {th[t].at}) = {}
  BY <1>3
<1>6. ThreadStep(s, PlacesThen(s, t, h), SendsThen(s, t, h), CarriedThen(s, t, h))
  BY <1>1, <1>2, <1>5, ThreadGoes
<1> QED  BY <1>3, <1>4, <1>6 DEF PlacesThen, CarriedThen

(* ... is done, with nothing to acknowledge, *)
LEMMA Finishing ==
  ASSUME Inv, UNCHANGED pool, NEW t \in Threads, th[t].at # "idle", Done(t), NEW s, s = th[t].sock
  PROVE  LET k == IF th[t].at \in CarryAt THEN 0 ELSE CarriedIn(th, s)
             u == Cardinality(SendersIn(th, s)) IN
         /\ ~Sends(th[t]) => ThreadStep(s, PlacesIn(th, s) \ {th[t].at}, u, k)
         /\ Sends(th[t]) => u >= 1 /\ ThreadStep(s, PlacesIn(th, s) \ {th[t].at}, u - 1, k)
<1>1. s \in Sockets /\ s \notin pool'
  BY AtPlace
<1>2. Idle.sock = NoSock /\ Idle.at = "idle" /\ Idle \in ThreadType /\ Idle.then = "idle"
  BY DEF Idle, ThreadType, Labels
<1>3. HandlerOK(Idle) /\ ~Sends(Idle) /\ Idle.at \notin Roles /\ Idle.at \notin CarryAt
  BY <1>2, Places DEF HandlerOK, Sends, Roles
<1>4. ThreadsOK(th, pool') /\ pool' \subseteq Sockets
  BY Parts DEF Types
<1>5. /\ ~Sends(th[t]) => SendsThen(s, t, Idle) = Cardinality(SendersIn(th, s))
      /\ Sends(th[t]) => SendsThen(s, t, Idle) = Cardinality(SendersIn(th, s)) - 1
  BY <1>1, <1>3, SendsCount
<1>6. /\ ThreadStep(s, PlacesThen(s, t, Idle), SendsThen(s, t, Idle), CarriedThen(s, t, Idle))
      /\ Sends(th[t]) => Cardinality(SendersIn(th, s)) >= 1
  <2>1. PICK h \in ThreadType : h = Idle
    BY <1>2
  <2>2. \A R \in {RecvAt, SendAt, EndAt} : h.at \in R => R \cap (PlacesIn(th, s) \ {th[t].at}) = {}
    BY <1>3, <2>1 DEF Roles
  <2>3. th' = [th EXCEPT ![t] = h] /\ h.sock \in {s, NoSock} /\ HandlerOK(h)
    BY <1>2, <1>3, <2>1 DEF Done
  <2>4. /\ ThreadStep(s, PlacesThen(s, t, h), SendsThen(s, t, h), CarriedThen(s, t, h))
        /\ Sends(th[t]) => Cardinality(SendersIn(th, s)) >= 1
    BY <1>1, <1>4, <2>2, <2>3, ThreadGoes
  <2> QED  BY <2>1, <2>4
<1>7. /\ PlacesThen(s, t, Idle) = PlacesIn(th, s) \ {th[t].at}
      /\ CarriedThen(s, t, Idle) = IF th[t].at \in CarryAt THEN 0 ELSE CarriedIn(th, s)
  BY <1>3 DEF PlacesThen, CarriedThen
<1> QED  BY <1>5, <1>6, <1>7

(* ... or begins; pool' is for the one that accepts a connection. *)
Begins(t, s, label, kind, m, h) ==
  /\ th[t].at = "idle" /\ Begin(t, label, s, kind, m) /\ label \in Roles /\ label \notin CarryAt
  /\ kind \in {"none", "posted", "request", "fail", "end", "io"} /\ m \in Nat
  /\ h = [at |-> label, sock |-> s, kind |-> kind, n |-> m, then |-> "idle"]

LEMMA Beginning ==
  ASSUME Inv, NEW t \in Threads, NEW s \in Sockets, s \notin pool', pool' \subseteq Sockets,
         ThreadsOK(th, pool'), NEW label, NEW kind, NEW m, NEW h, Begins(t, s, label, kind, m, h),
         NEW v, NEW o, NEW c, NEW E, NEW n, NEW P, NEW u, NEW k, View(s, v, o, c, E, n, P, u, k),
         \A R \in {RecvAt, SendAt, EndAt} : label \in R => P \cap R = {},
         NEW Q, Q = P \cup {label}, NEW w, w = u + (IF label \in SendAt THEN 1 ELSE 0)
  PROVE  th' = [th EXCEPT ![t] = h] /\ ThreadStep(s, Q, w, k)
<1> USE DEF View, Begins
<1>1. h = [Idle EXCEPT !.at = label, !.sock = s, !.kind = kind, !.n = m]
  <2>1. PICK g : g = [Idle EXCEPT !.at = label, !.sock = s, !.kind = kind, !.n = m]
    OBVIOUS
  <2>2. g = [at |-> label, sock |-> s, kind |-> kind, n |-> m, then |-> "idle"]
    BY <2>1 DEF Idle
  <2> QED  BY <2>1, <2>2
<1>2. h.sock = s /\ h.at = label /\ h.then = "idle"
  OBVIOUS
<1>3. h \in ThreadType
  BY Places DEF ThreadType
<1>4. th' = [th EXCEPT ![t] = h]
  BY <1>1 DEF Begin
<1>5. HandlerOK(h) /\ (Sends(h) <=> label \in SendAt)
  BY <1>2, Places DEF HandlerOK, Sends, SendAt
<1>6. th[t].sock = NoSock /\ ~Sends(th[t]) /\ th[t].at \notin CarryAt
  <2>1. HandlerOK(th[t])
    BY Parts DEF ThreadsOK
  <2> QED  BY <2>1, Places DEF HandlerOK, Sends, Roles
<1>7. \A R \in {RecvAt, SendAt, EndAt} : h.at \in R => R \cap (PlacesIn(th, s) \ {th[t].at}) = {}
  BY <1>2
<1>8. ThreadStep(s, PlacesThen(s, t, h), SendsThen(s, t, h), CarriedThen(s, t, h))
  BY <1>2, <1>3, <1>4, <1>5, <1>6, <1>7, ThreadGoes
<1>9. SendsThen(s, t, h) = w
  <2>1. u \in Nat
    BY Parts
  <2>2. CASE label \in SendAt
    BY <1>5, <1>6, <2>1, <2>2, SendsCount
  <2>3. CASE label \notin SendAt
    BY <1>5, <1>6, <2>1, <2>3, SendsCount
  <2> QED  BY <2>2, <2>3
<1>10. PlacesThen(s, t, h) = PlacesIn(th, s) \cup {label}
  <2>1. "idle" \notin PlacesIn(th, s)
    BY Places DEF PlacesIn
  <2> QED  BY <1>2, <2>1 DEF PlacesThen
<1>11. CarriedThen(s, t, h) = CarriedIn(th, s)
  BY <1>2, <1>6 DEF CarriedThen
<1> QED  BY <1>4, <1>8, <1>9, <1>10, <1>11

(* A step that leaves the operations and the callbacks alone, or the structure too. *)
LEMMA SlotChanges ==
  ASSUME Inv, NEW s \in Sockets, NEW r \in SocketType, sock' = [sock EXCEPT ![s] = r], UNCHANGED <<ops, cb, pool>>
  PROVE  SlotStep(s, r, ops[s], cb[s])
BY Parts DEF SlotStep, Types

LEMMA SlotStays ==
  ASSUME Inv, NEW s \in Sockets, UNCHANGED <<sock, ops, cb, pool>>
  PROVE  SlotStep(s, sock[s], ops[s], cb[s])
BY Parts DEF SlotStep, Types

(* A step that neither brings nor takes bytes. *)
SameBytes(v, r) ==
  /\ r.recv_used = v.recv_used /\ r.data_has_recv = v.data_has_recv
  /\ r.data_need_send = v.data_need_send /\ r.data_has_send = v.data_has_send
  /\ r.try_close_send_count = v.try_close_send_count
       /\ (r.state \in {"CONNECT", "ESTABLISH"} => v.state \in {"CONNECT", "ESTABLISH"})

LEMMA SameFits ==
  ASSUME NEW v, NEW r, SameBytes(v, r), NEW m, CachesOK(v, m), NEW R, NEW S, OpsFit(v, R, S)
  PROVE  CachesOK(r, m) /\ OpsFit(r, R, S)
BY DEF SameBytes, CachesOK, OpsFit

(* The handler goes to another place, which is all that changes about the threads. *)
LEMMA GoingOn ==
  ASSUME Inv, UNCHANGED pool, NEW t \in Threads, th[t].at # "idle", NEW label \in Labels \ {"idle", "recv", "send"},
         GoTo(t, label), NEW s, NEW v, NEW o, NEW c, NEW E, NEW n, NEW P, NEW u, NEW k,
         s = th[t].sock, View(s, v, o, c, E, n, P, u, k),
         th[t].then = "send_ack" => label \in {"push_end", "send_ack"},
         th[t].then # "send_ack" => (th[t].at \in SendAt \cup {"send_ack"} <=> label \in SendAt \cup {"send_ack"}),
         \A R \in {RecvAt, SendAt, EndAt} : label \in R => P \cap R \subseteq {th[t].at},
         NEW Q, Q = (P \ {th[t].at}) \cup ({label} \cap Roles), NEW r \in SocketType,
         NEW l, l = IF label \in CarryAt THEN th[t].n ELSE IF th[t].at \in CarryAt THEN 0 ELSE k,
         r.recv_used <= v.recv_used \/ th[t].at \in RecvAt,
         v.data_need_send - v.data_has_send <= r.data_need_send - r.data_has_send \/ th[t].at \in SendAt
  PROVE  ThreadStep(s, Q, u, l) /\ HandlersFit(th', r, s)
<1>1. th[t] \in ThreadType /\ s \in Sockets /\ th[t].then \in {"idle", "send_ack"}
  BY AtPlace DEF ThreadType
<1>2. PICK h : h = [th[t] EXCEPT !.at = label]
  OBVIOUS
<1>3. th' = [th EXCEPT ![t] = h] /\ h.at = label /\ h.then = th[t].then /\ h.n = th[t].n /\ h.sock = s
      /\ h \in ThreadType
  BY <1>1, <1>2 DEF GoTo, ThreadType
<1>4. (Sends(h) <=> Sends(th[t])) /\ HandlerOK(h)
  BY <1>1, <1>3, IocpAssumption DEF Sends, SendAt, HandlerOK
<1>5. v = sock[s]
  BY DEF View
<1>6. ThreadStep(s, Q, u, l)
  <2>1. /\ \A R \in {RecvAt, SendAt, EndAt} : h.at \in R => P \cap R \subseteq {th[t].at}
        /\ Q = (P \ {th[t].at}) \cup ({h.at} \cap Roles)
        /\ l = IF h.at \in CarryAt THEN h.n ELSE IF th[t].at \in CarryAt THEN 0 ELSE k
    BY <1>3
  <2>2. th[t].at # "idle" /\ pool' = pool /\ s = th[t].sock
    OBVIOUS
  <2> QED  BY ONLY Inv, t \in Threads, <1>3, <1>4, <2>1, <2>2, View(s, v, o, c, E, n, P, u, k), Going, ZenonT(60)
<1>7. HandlersFit(th', r, s)
  BY <1>1, <1>3, <1>5, FitGoes
<1> QED  BY <1>6, <1>7

(* An operation is posted on a free structure. *)
LEMMA PostsRecv ==
  ASSUME Inv, NEW s \in Sockets, NEW r \in SocketType, sock' = [sock EXCEPT ![s] = r],
         NEW o, o = ops[s], o.recv = <<>>, NEW x \in OpType,
         ops' = [ops EXCEPT ![s].recv = Append(@, x)],
         NEW d \in Callbacks, cb' = [cb EXCEPT ![s] = d],
         pool' \subseteq Sockets, \A y \in Sockets : y # s => (y \in pool' <=> y \in pool),
         NEW p, p = [recv |-> <<x>>, send |-> o.send]
  PROVE  SlotStep(s, r, p, d)
<1>1. o \in OpsType /\ o = [recv |-> o.recv, send |-> o.send] /\ ops \in [Sockets -> OpsType]
  BY Parts DEF Types, OpsType
<1>2. p \in OpsType
  BY <1>1 DEF OpsType
<1>3. Append(o.recv, x) = <<x>>
  OBVIOUS
<1>4. ops' = [ops EXCEPT ![s] = p]
  <2>1. ops' = [ops EXCEPT ![s] = [o EXCEPT !.recv = Append(o.recv, x)]]
    OBVIOUS
  <2>2. [o EXCEPT !.recv = Append(o.recv, x)] = p
    BY <1>1, <1>3
  <2> QED  BY <2>1, <2>2
<1> QED  BY <1>2, <1>4 DEF SlotStep

LEMMA PostsSend ==
  ASSUME Inv, NEW s \in Sockets, NEW r \in SocketType, sock' = [sock EXCEPT ![s] = r],
         NEW o, o = ops[s], o.send = <<>>, NEW x \in OpType,
         ops' = [ops EXCEPT ![s].send = Append(@, x)],
         NEW d \in Callbacks, cb' = [cb EXCEPT ![s] = d],
         pool' \subseteq Sockets, \A y \in Sockets : y # s => (y \in pool' <=> y \in pool),
         NEW p, p = [recv |-> o.recv, send |-> <<x>>]
  PROVE  SlotStep(s, r, p, d)
<1>1. o \in OpsType /\ o = [recv |-> o.recv, send |-> o.send] /\ ops \in [Sockets -> OpsType]
  BY Parts DEF Types, OpsType
<1>2. p \in OpsType
  BY <1>1 DEF OpsType
<1>3. Append(o.send, x) = <<x>>
  OBVIOUS
<1>4. ops' = [ops EXCEPT ![s] = p]
  <2>1. ops' = [ops EXCEPT ![s] = [o EXCEPT !.send = Append(o.send, x)]]
    OBVIOUS
  <2>2. [o EXCEPT !.send = Append(o.send, x)] = p
    BY <1>1, <1>3
  <2> QED  BY <2>1, <2>2
<1> QED  BY <1>2, <1>4 DEF SlotStep

(* The completion of an operation, which was the only one, is no longer than its buffer. *)
LEMMA Completion ==
  ASSUME Inv, NEW s \in Sockets, NEW which, NEW q \in Seq(OpType), q # <<>>, Len(q) <= 1, NEW i \in 1 .. Len(q),
         NEW a \in Results, a \in Completions(s, which, q[i])
  PROVE  /\ i = 1 /\ Len(q) = 1 /\ RemoveAt(q, i) = <<>>
         /\ a.n \in Nat /\ a.n <= q[1].len /\ q[1].len \in Nat
         /\ a.kind \in {"none", "posted", "request", "fail", "end", "io"}
<1>1. Len(q) = 1 /\ i = 1 /\ q[1] \in OpType
  <2>1. Len(q) \in Nat /\ Len(q) # 0 /\ \A j \in 1 .. Len(q) : q[j] \in OpType
    OBVIOUS
  <2>2. PICK m \in Nat : m = Len(q) /\ m # 0 /\ m <= 1 /\ i \in 1 .. m
    BY ONLY <2>1, Len(q) <= 1, i \in 1 .. Len(q)
  <2>3. Len(q) = 1 /\ i = 1
    BY ONLY <2>2
  <2> QED  BY <2>1, <2>3
<1>2. RemoveAt(q, i) = <<>>
  BY <1>1 DEF RemoveAt
<1>3. q[1].len \in Nat /\ SendCap \in Nat /\ RecvCap \in Nat
  BY <1>1, IocpAssumption DEF OpType
<1>4. a.n \in Nat /\ a.kind \in {"posted", "request", "fail", "end", "io"}
  BY <1>3 DEF Results
<1>5. a.n <= q[1].len
  <2>1. a \in Completions(s, which, q[1])
    BY <1>1
  <2>2. a.n = 0 \/ a.n \in 1 .. q[1].len
    BY <2>1 DEF Completions
  <2> QED  BY <1>3, <2>2
<1> QED  BY <1>1, <1>2, <1>3, <1>4, <1>5

(* What a thread takes when it takes a completion. *)
LEMMA TakesRecv ==
  ASSUME Inv, NEW t \in Threads, NEW s \in Sockets, NEW a \in Results, Take(t, s, "recv", a), NEW o, o = ops[s]
  PROVE  /\ th[t].at = "idle" /\ crush = "none" /\ s \notin pool /\ o.recv # <<>> /\ Len(o.recv) = 1
         /\ a.n \in Nat /\ a.n <= o.recv[1].len /\ o.recv[1].len \in Nat
         /\ a.kind \in {"none", "posted", "request", "fail", "end", "io"}
         /\ ops' = [ops EXCEPT ![s] = [recv |-> <<>>, send |-> o.send]]
<1>1. PICK i \in 1 .. Len(o.recv) : /\ a \in Completions(s, "recv", o.recv[i])
                                    /\ ops' = [ops EXCEPT ![s].recv = RemoveAt(@, i)]
  BY DEF Take
<1>2. o \in OpsType /\ o = [recv |-> o.recv, send |-> o.send] /\ ops \in [Sockets -> OpsType]
  BY Parts DEF Types, OpsType
<1>3. PICK q \in Seq(OpType) : q = o.recv
  BY <1>2 DEF OpsType
<1>4. q # <<>>
  BY <1>1, <1>3
<1>5. s \notin pool
  BY <1>3, <1>4, UsedView DEF FreeOK
<1>6. Len(q) <= 1
  BY <1>3, <1>5, UsedView DEF UsedOK, ReadingOK
<1>7. /\ Len(q) = 1 /\ RemoveAt(q, i) = <<>>
      /\ a.n \in Nat /\ a.n <= q[1].len /\ q[1].len \in Nat
      /\ a.kind \in {"none", "posted", "request", "fail", "end", "io"}
  <2>1. i \in 1 .. Len(q) /\ a \in Completions(s, "recv", q[i])
    BY <1>1, <1>3
  <2> QED  BY <1>4, <1>6, <2>1, Completion
<1>8. ops' = [ops EXCEPT ![s] = [recv |-> <<>>, send |-> o.send]]
  <2>1. ops' = [ops EXCEPT ![s] = [o EXCEPT !.recv = RemoveAt(q, i)]]
    BY <1>1, <1>3
  <2>2. [o EXCEPT !.recv = RemoveAt(q, i)] = [recv |-> <<>>, send |-> o.send]
    BY <1>2, <1>7
  <2> QED  BY <2>1, <2>2
<1>9. th[t].at = "idle" /\ crush = "none"
  BY DEF Take, At, Running
<1> QED  BY <1>3, <1>4, <1>5, <1>7, <1>8, <1>9

LEMMA TakesSend ==
  ASSUME Inv, NEW t \in Threads, NEW s \in Sockets, NEW a \in Results, Take(t, s, "send", a), NEW o, o = ops[s]
  PROVE  /\ th[t].at = "idle" /\ crush = "none" /\ s \notin pool /\ o.send # <<>> /\ Len(o.send) = 1
         /\ a.n \in Nat /\ a.n <= o.send[1].len /\ o.send[1].len \in Nat
         /\ a.kind \in {"none", "posted", "request", "fail", "end", "io"}
         /\ ops' = [ops EXCEPT ![s] = [recv |-> o.recv, send |-> <<>>]]
<1>1. PICK i \in 1 .. Len(o.send) : /\ a \in Completions(s, "send", o.send[i])
                                    /\ ops' = [ops EXCEPT ![s].send = RemoveAt(@, i)]
  BY DEF Take
<1>2. o \in OpsType /\ o = [recv |-> o.recv, send |-> o.send] /\ ops \in [Sockets -> OpsType]
  BY Parts DEF Types, OpsType
<1>3. PICK q \in Seq(OpType) : q = o.send
  BY <1>2 DEF OpsType
<1>4. q # <<>>
  BY <1>1, <1>3
<1>5. s \notin pool
  BY <1>3, <1>4, UsedView DEF FreeOK
<1>6. Len(q) <= 1
  BY <1>3, <1>5, UsedView DEF UsedOK, SendingOK
<1>7. /\ Len(q) = 1 /\ RemoveAt(q, i) = <<>>
      /\ a.n \in Nat /\ a.n <= q[1].len /\ q[1].len \in Nat
      /\ a.kind \in {"none", "posted", "request", "fail", "end", "io"}
  <2>1. i \in 1 .. Len(q) /\ a \in Completions(s, "send", q[i])
    BY <1>1, <1>3
  <2> QED  BY <1>4, <1>6, <2>1, Completion
<1>8. ops' = [ops EXCEPT ![s] = [recv |-> o.recv, send |-> <<>>]]
  <2>1. ops' = [ops EXCEPT ![s] = [o EXCEPT !.send = RemoveAt(q, i)]]
    BY <1>1, <1>3
  <2>2. [o EXCEPT !.send = RemoveAt(q, i)] = [recv |-> o.recv, send |-> <<>>]
    BY <1>2, <1>7
  <2> QED  BY <2>1, <2>2
<1>9. th[t].at = "idle" /\ crush = "none"
  BY DEF Take, At, Running
<1> QED  BY <1>3, <1>4, <1>5, <1>7, <1>8, <1>9

(* The handler is done, *)
LEMMA FinishingOn ==
  ASSUME Inv, UNCHANGED pool, NEW t \in Threads, th[t].at # "idle", Done(t),
         NEW s, NEW v, NEW o, NEW c, NEW E, NEW n, NEW P, NEW u, NEW k,
         s = th[t].sock, View(s, v, o, c, E, n, P, u, k),
         NEW Q, Q = P \ {th[t].at}, NEW r \in SocketType,
         NEW w, (Sends(th[t]) /\ w = u - 1) \/ (~Sends(th[t]) /\ w = u),
         NEW l, l = IF th[t].at \in CarryAt THEN 0 ELSE k,
         r.recv_used <= v.recv_used \/ th[t].at \in RecvAt,
         v.data_need_send - v.data_has_send <= r.data_need_send - r.data_has_send \/ th[t].at \in SendAt
  PROVE  ThreadStep(s, Q, w, l) /\ HandlersFit(th', r, s) /\ (Sends(th[t]) => u >= 1)
<1>1. s \in Sockets /\ P = PlacesIn(th, s) /\ u = Cardinality(SendersIn(th, s)) /\ k = CarriedIn(th, s)
        /\ v = sock[s]
  BY AtPlace DEF View
<1>2. /\ ~Sends(th[t]) => ThreadStep(s, Q, u, l)
      /\ Sends(th[t]) => u >= 1 /\ ThreadStep(s, Q, u - 1, l)
  BY <1>1, Finishing
<1>3. HandlersFit(th', r, s)
  <2>1. PICK h : h = Idle
    OBVIOUS
  <2>2. th' = [th EXCEPT ![t] = h] /\ h.at = "idle"
    BY <2>1 DEF Done, Idle
  <2> QED  BY <1>1, <2>2, FitGoes
<1> QED  BY <1>2, <1>3

(* ... or begins for a slot in use. *)
LEMMA BeginningOn ==
  ASSUME Inv, UNCHANGED pool, NEW t \in Threads, NEW s \in Sockets, s \notin pool,
         NEW label, NEW kind, NEW m, NEW h, Begins(t, s, label, kind, m, h),
         NEW v, NEW o, NEW c, NEW E, NEW n, NEW P, NEW u, NEW k, View(s, v, o, c, E, n, P, u, k),
         \A R \in {RecvAt, SendAt, EndAt} : label \in R => P \cap R = {},
         NEW Q, Q = P \cup {label}, NEW r \in SocketType, NEW w, w = u + (IF label \in SendAt THEN 1 ELSE 0),
         r.recv_used <= v.recv_used,
         v.data_need_send - v.data_has_send <= r.data_need_send - r.data_has_send,
         label = "recv" => m <= RecvCap - r.recv_used,
         label = "send" => m <= r.data_need_send - r.data_has_send
  PROVE  ThreadStep(s, Q, w, k) /\ HandlersFit(th', r, s)
<1>1. v = sock[s]
  BY DEF View
<1>2. ThreadsOK(th, pool') /\ pool' \subseteq Sockets /\ s \notin pool'
  BY Parts DEF Types
<1>5. th' = [th EXCEPT ![t] = h] /\ ThreadStep(s, Q, w, k)
  BY <1>2, Beginning
<1>6. HandlersFit(th', r, s)
  <2>1. h.at = label /\ h.n = m
    BY DEF Begins
  <2> QED  BY <1>1, <1>5, <2>1, FitGoes
<1> QED  BY <1>5, <1>6

(* The bytes a receiving handler carries are all that is carried. *)
LEMMA CarriedNow ==
  ASSUME Inv, NEW t \in Threads, th[t].at \in RecvAt
  PROVE  CarriedIn(th, th[t].sock) = IF th[t].at \in CarryAt THEN th[t].n ELSE 0
<1>1. \A u \in CarryingIn(th, th[t].sock) : u \in Threads /\ th[u].sock = th[t].sock /\ th[u].at \in RecvAt
  BY Places DEF CarryingIn
<1>2. \A u \in CarryingIn(th, th[t].sock) : u = t
  BY <1>1, Parts DEF ThreadsOK, SameRole
<1>3. CASE th[t].at \in CarryAt
  <2>1. CarryingIn(th, th[t].sock) = {t}
    BY <1>2, <1>3 DEF CarryingIn
  <2> QED  BY <1>3, <2>1, CarriedOne
<1>4. CASE th[t].at \notin CarryAt
  <2>1. CarryingIn(th, th[t].sock) = {}
    BY <1>2, <1>4 DEF CarryingIn
  <2> QED  BY <1>4, <2>1 DEF CarriedIn
<1> QED  BY <1>3, <1>4
-----------------------------------------------------------------------------
(* A step that leaves alone all that the invariant is about keeps it. *)
LEMMA NothingChanges ==
  ASSUME Inv, UNCHANGED <<sock, pool, evt_queue, ops, th, cb>>
  PROVE  Inv'
BY DEF Inv, Types, SessionsInv, SessionOK, BytesInv

(* What is carried is a number. *)
LEMMA CarriedNat ==
  ASSUME Inv, NEW s
  PROVE  CarriedIn(th, s) \in Nat
<1>1. CASE CarryingIn(th, s) = {}
  BY <1>1 DEF CarriedIn
<1>2. CASE CarryingIn(th, s) # {}
  <2>1. (CHOOSE t \in CarryingIn(th, s) : TRUE) \in Threads
    BY <1>2 DEF CarryingIn
  <2> QED  BY <1>2, <2>1, Parts DEF CarriedIn, ThreadType
<1> QED  BY <1>1, <1>2

(* A session with no send to acknowledge has no operation, and no handler, for sending. *)
LEMMA NoSends ==
  ASSUME Inv, NEW s \in Sockets, s \notin pool,
         NEW v, NEW o, NEW c, NEW E, NEW n, NEW P, NEW u, NEW k, View(s, v, o, c, E, n, P, u, k),
         v.send_req = v.send_ack
  PROVE  u = 0 /\ o.send = <<>> /\ P \cap SendAt = {}
<1>1. v \in SocketType /\ o \in OpsType /\ u \in Nat /\ Len(o.send) \in Nat /\ SendingOK(v, o.send, P, u)
  BY Viewed DEF UsedOK
<1>2. v.send_req \in Nat /\ v.send_req - v.send_ack = Len(o.send) + u
  BY <1>1 DEF SocketType, SendingOK
<1>3. PICK x \in Nat : x = Len(o.send)
  BY <1>1
<1>4. x = 0 /\ u = 0
  BY <1>1, <1>2, <1>3
<1>5. o.send = <<>>
  <2>1. PICK q \in Seq(OpType) : q = o.send
    BY <1>1 DEF OpsType
  <2>2. Len(q) = 0
    BY <1>3, <1>4, <2>1
  <2> QED  BY <2>1, <2>2
<1>6. SendersIn(th, s) = {}
  BY <1>4, Parts, FS_EmptySet DEF View
<1> QED  BY <1>4, <1>5, <1>6 DEF View, PlacesIn, SendersIn, Sends, SendAt

(* The main thread's step for a session in use leaves the handlers where they are; what they bring *)
(* still fits when neither cache gets fuller, as seen from the io threads.                          *)
LEMMA HandlersWait ==
  ASSUME Inv, UNCHANGED <<th, pool>>, NEW s \in Sockets,
         NEW v, NEW o, NEW c, NEW E, NEW n, NEW P, NEW u, NEW k, View(s, v, o, c, E, n, P, u, k),
         NEW r \in SocketType, r.recv_used <= v.recv_used,
         v.data_need_send - v.data_has_send <= r.data_need_send - r.data_has_send
  PROVE  ThreadStep(s, P, u, k) /\ HandlersFit(th', r, s)
<1>1. ThreadsOK(th, pool')
  BY Parts
<1> QED  BY <1>1, ThreadsStay, FitStays DEF View

(* A posted operation has no buffer. *)
LEMMA PostedFits ==
  ASSUME NEW r \in SocketType, NEW m, CachesOK(r, m), NEW x, x.len = 0, NEW S
  PROVE  /\ OpsFit(r, <<>>, S) => OpsFit(r, <<x>>, S)
         /\ OpsFit(r, S, <<>>) => OpsFit(r, S, <<x>>)
<1>1. DOMAIN <<x>> = {1} /\ <<x>>[1] = x
  OBVIOUS
<1>2. 0 <= RecvCap - r.recv_used /\ 0 <= r.data_need_send - r.data_has_send
  <2>1. r.recv_used <= RecvCap /\ r.data_has_send <= r.data_need_send
    BY DEF CachesOK
  <2> QED  BY <2>1, IocpAssumption DEF SocketType
<1>3. PICK q : q = <<x>> /\ \A i \in DOMAIN q : q[i].len = 0
  BY <1>1
<1>4. (\A i \in DOMAIN q : q[i].len <= RecvCap - r.recv_used)
        /\ \A i \in DOMAIN q : q[i].len <= r.data_need_send - r.data_has_send
  BY <1>2, <1>3
<1> QED  BY <1>3, <1>4 DEF OpsFit

-----------------------------------------------------------------------------
(* One lemma for each action. *)
Kept == Inv' /\ crush' = "none"
Full == crush' = "evt_full" /\ UNCHANGED <<pool, cb, evt_queue>>

(* A handler that finds an end closes the session, unless another one has, and goes on at then. *)
LEMMA IocpCloseKeeps ==
  ASSUME Inv, NEW t \in Threads, NEW error \in {"ok", "system"}, NEW then,
         IocpClose(t, th[t].sock, error, then), UNCHANGED <<pool, evt_queue, ops, cb>>,
         (th[t].at \in {"recv", "recv_next"} /\ then = "idle") \/ (th[t].at \in {"send", "send_next"}
           /\ then = "send_ack")
  PROVE  Inv'
<1>1. PICK s, v, o, c, E, n, P, u, k : s = th[t].sock /\ View(s, v, o, c, E, n, P, u, k)
  BY DEF View
<1>2. PICK a : a = th[t].at
  OBVIOUS
<1>3. /\ s \in Sockets /\ s \notin pool /\ a \in P /\ th[t].then # "send_ack" /\ th[t] \in ThreadType
      /\ a \in {"recv", "recv_next"} => P \cap RecvAt = {a}
      /\ a \in {"send", "send_next"} => P \cap SendAt = {a}
      /\ (a \in {"recv", "recv_next"} /\ then = "idle") \/ (a \in {"send", "send_next"} /\ then = "send_ack")
  BY <1>1, <1>2, AtPlace DEF RecvAt, SendAt, EndAt, Roles, View
<1>4. /\ v \in SocketType /\ UsedOK(v, c, o.recv, o.send, E, P, u) /\ CachesOK(v, n + k)
      /\ OpsFit(v, o.recv, o.send) /\ o \in OpsType /\ c \in Callbacks /\ n \in Nat /\ u \in Nat
  BY <1>1, <1>3, Viewed
<1>5. QueueStep(s, E, n)
  BY <1>1, <1>3, QueueStays DEF View
<1>6. th[t].at # "idle" /\ th[t].at \notin CarryAt
  BY <1>2, <1>3 DEF CarryAt
<1>7. CASE v.state = "ESTABLISH"
  <2>1. PICK r : r = [v EXCEPT !.state = "TERMINATE", !.error = error]
    OBVIOUS
  <2>2. r \in SocketType /\ SameBytes(v, r)
    BY <1>4, <2>1 DEF SocketType, SameBytes, States
  <2>3. SlotStep(s, r, o, c)
    <3>1. sock' = [sock EXCEPT ![s] = r]
      BY <1>1, <1>7, <2>1 DEF IocpClose, CloseSwap, View
    <3> QED  BY <1>1, <1>3, <2>2, <3>1, SlotChanges DEF View
  <2>4. PICK Q : Q = (P \ {a}) \cup {"closesocket"}
    OBVIOUS
  <2>5. ThreadStep(s, Q, u, k) /\ HandlersFit(th', r, s)
    <3>1. PICK h : h = [th[t] EXCEPT !.at = "closesocket", !.then = then]
      OBVIOUS
    <3>2. th' = [th EXCEPT ![t] = h]
      BY <1>1, <1>7, <3>1 DEF IocpClose, View
    <3>3. h.at = "closesocket" /\ h.then = then /\ h.sock = s /\ h \in ThreadType
      BY <1>1, <1>3, <3>1 DEF ThreadType, Labels, EndAt
    <3>4. (Sends(h) <=> Sends(th[t])) /\ HandlerOK(h)
      BY <1>2, <1>3, <3>3, IocpAssumption DEF Sends, HandlerOK
    <3>5. P \cap EndAt = {} /\ EndAt \cap RecvAt = {} /\ EndAt \cap SendAt = {}
      BY <1>4, <1>7, Places DEF UsedOK, EndingOK
    <3>6. /\ \A R \in {RecvAt, SendAt, EndAt} : h.at \in R => P \cap R \subseteq {th[t].at}
          /\ Q = (P \ {th[t].at}) \cup ({h.at} \cap Roles)
          /\ k = IF h.at \in CarryAt THEN h.n ELSE IF th[t].at \in CarryAt THEN 0 ELSE k
      BY <1>2, <1>6, <2>4, <3>3, <3>5 DEF EndAt, Roles, CarryAt
    <3>7. ThreadStep(s, Q, u, k)
      BY ONLY Inv, t \in Threads, UNCHANGED pool, <1>1, <1>6, <3>2, <3>3, <3>4, <3>6, Going
    <3>8. HandlersFit(th', r, s)
      <4>1. /\ r.recv_used <= sock[s].recv_used
            /\ sock[s].data_need_send - sock[s].data_has_send <= r.data_need_send - r.data_has_send
            /\ h.at # "recv" /\ h.at # "send" /\ s \in Sockets
        BY <1>1, <1>3, <1>4, <2>2, <3>3 DEF SameBytes, SocketType, View
      <4> QED  BY <2>2, <3>2, <4>1, FitGoes
    <3> QED  BY <3>7, <3>8
  <2>6. UsedOK(r, c, o.recv, o.send, E, Q, u)
    <3> USE <1>3, <1>4, <1>7, <2>1, <2>4 DEF UsedOK, SocketType, RecvAt, SendAt, EndAt, Requested, Opening
    <3>1. OpeningOK(r, c, o.send, E, Q)
      BY DEF OpeningOK
    <3>2. ReadingOK(r, o.recv, E, Q)
      BY DEF ReadingOK
    <3>3. SendingOK(r, o.send, Q, u)
      BY DEF SendingOK
    <3>4. EndingOK(r, c, o.send, E, Q)
      BY DEF EndingOK
    <3>5. HeardOK(r, c, o.recv, o.send, E, Q)
      BY DEF HeardOK, OpeningOK, EndingOK
    <3> QED  BY <3>1, <3>2, <3>3, <3>4, <3>5
  <2>7. CachesOK(r, n + k) /\ OpsFit(r, o.recv, o.send)
    BY <1>4, <2>2, SameFits
  <2> QED  BY <1>3, <1>5, <2>3, <2>5, <2>6, <2>7, UsedSlot
<1>8. CASE v.state # "ESTABLISH"
  <2>1. PICK Q : Q = P \ {a}
    OBVIOUS
  <2>2. SlotStep(s, v, o, c)
    BY <1>1, <1>3, <1>8, SlotStays DEF IocpClose, View
  <2>3. ThreadStep(s, Q, u, k) /\ HandlersFit(th', v, s)
    <3>1. /\ v.recv_used <= v.recv_used \/ th[t].at \in RecvAt
          /\ v.data_need_send - v.data_has_send <= v.data_need_send - v.data_has_send \/ th[t].at \in SendAt
          /\ UNCHANGED pool /\ v \in SocketType
      BY <1>4 DEF SocketType
    <3>2. CASE then = "idle"
      <4>1. Done(t) /\ ~Sends(th[t]) /\ Q = P \ {th[t].at} /\ k = IF th[t].at \in CarryAt THEN 0 ELSE k
        BY <1>1, <1>2, <1>3, <1>6, <1>8, <2>1, <3>2 DEF IocpClose, Sends, View
      <4>2. PICK w : w = u
        OBVIOUS
      <4>3. ThreadStep(s, Q, w, k) /\ HandlersFit(th', v, s)
        BY ONLY Inv, t \in Threads, <1>1, <1>6, <3>1, <4>1, <4>2, FinishingOn
      <4> QED  BY <4>2, <4>3
    <3>3. CASE then = "send_ack"
      <4>1. GoTo(t, "send_ack") /\ th[t].at \in SendAt
        BY <1>1, <1>2, <1>3, <1>8, <3>3 DEF IocpClose, View, SendAt
      <4>2. /\ "send_ack" \in Labels \ {"idle", "recv", "send"} /\ "send_ack" \notin Roles
                 /\ "send_ack" \notin CarryAt
        BY Places DEF Labels, CarryAt
      <4>3. PICK label \in Labels \ {"idle", "recv", "send"} : label = "send_ack"
        BY <4>2
      <4>4. /\ UNCHANGED pool /\ Q = (P \ {th[t].at}) \cup ({"send_ack"} \cap Roles) /\ GoTo(t, "send_ack")
            /\ k = IF "send_ack" \in CarryAt THEN th[t].n ELSE IF th[t].at \in CarryAt THEN 0 ELSE k
            /\ \A R \in {RecvAt, SendAt, EndAt} : "send_ack" \in R => P \cap R \subseteq {th[t].at}
            /\ th[t].then # "send_ack" => (th[t].at \in SendAt \cup {"send_ack"} <=> "send_ack" \in SendAt \cup {"send_ack"})
            /\ th[t].then = "send_ack" => "send_ack" \in {"push_end", "send_ack"}
        BY <1>2, <1>6, <2>1, <4>1, <4>2, <4>3 DEF Roles
      <4>5. PICK r \in SocketType : r = v
        BY <1>4
      <4>6. /\ r.recv_used <= v.recv_used \/ th[t].at \in RecvAt
            /\ v.data_need_send - v.data_has_send <= r.data_need_send - r.data_has_send \/ th[t].at \in SendAt
        BY <3>1, <4>5
      <4>7. ThreadStep(s, Q, u, k) /\ HandlersFit(th', r, s)
        BY ONLY Inv, t \in Threads, <1>1, <1>6, <3>1, <4>3, <4>4, <4>5, <4>6, GoingOn
      <4> QED  BY <4>5, <4>7
    <3> QED  BY <1>3, <3>2, <3>3
  <2>4. UsedOK(v, c, o.recv, o.send, E, Q, u)
    <3> USE <1>3, <1>4, <1>8, <2>1 DEF UsedOK, SocketType, RecvAt, SendAt, EndAt, Requested, Opening
    <3>1. OpeningOK(v, c, o.send, E, Q)
      BY DEF OpeningOK
    <3>2. ReadingOK(v, o.recv, E, Q)
      BY DEF ReadingOK
    <3>3. SendingOK(v, o.send, Q, u)
      BY DEF SendingOK
    <3>4. EndingOK(v, c, o.send, E, Q)
      BY DEF EndingOK
    <3>5. HeardOK(v, c, o.recv, o.send, E, Q)
      BY DEF HeardOK
    <3> QED  BY <3>1, <3>2, <3>3, <3>4, <3>5
  <2> QED  BY <1>3, <1>4, <1>5, <2>2, <2>3, <2>4, UsedSlot
<1> QED  BY <1>7, <1>8

(* The descriptor is closed before the event that ends the session is queued. *)
LEMMA CloseSocketKeeps ==
  ASSUME Inv, NEW t \in Threads, CloseSocket(t)
  PROVE  Kept
<1>1. PICK s, v, o, c, E, n, P, u, k : s = th[t].sock /\ View(s, v, o, c, E, n, P, u, k)
  BY DEF View
<1>2. /\ th[t].at = "closesocket" /\ crush = "none" /\ UNCHANGED pool
      /\ s \in Sockets /\ s \notin pool /\ th[t] \in ThreadType
      /\ "closesocket" \in P /\ P \cap EndAt = {"closesocket"}
  BY <1>1, AtPlace DEF CloseSocket, At, Running, RecvAt, SendAt, EndAt, Roles, View
<1>3. /\ v \in SocketType /\ UsedOK(v, c, o.recv, o.send, E, P, u) /\ CachesOK(v, n + k)
      /\ OpsFit(v, o.recv, o.send) /\ o \in OpsType /\ c \in Callbacks /\ n \in Nat /\ u \in Nat
  BY <1>1, <1>2, Viewed
<1>len. Len(o.recv) \in Nat /\ Len(o.send) \in Nat
  BY <1>1, <1>2, Viewed
<1>4. ASSUME CloseSocket(t) PROVE Inv'
  <2>1. PICK r : r = [v EXCEPT !.open = FALSE]
    OBVIOUS
  <2>2. r \in SocketType /\ SameBytes(v, r)
    BY <1>1, <1>2, <1>3, <1>4, <2>1 DEF SocketType, SameBytes, States
  <2>3. SlotStep(s, r, o, c)
    <3>1. sock' = [sock EXCEPT ![s] = r] /\ UNCHANGED <<ops, cb, pool>>
      BY <1>1, <1>4, <2>1 DEF CloseSocket, View
    <3> QED  BY <1>1, <1>2, <2>2, <3>1, SlotChanges DEF View
  <2>5. QueueStep(s, E, n)
    <3>1. UNCHANGED <<evt_queue, pool>>
      BY <1>4 DEF CloseSocket
    <3> QED  BY <1>1, <1>2, <3>1, QueueStays DEF View
  <2>6. PICK Q : Q = (P \ {"closesocket"}) \cup {"push_end"}
    OBVIOUS
  <2>7. ThreadStep(s, Q, u, k) /\ HandlersFit(th', r, s)
    <3>1. /\ r.recv_used <= v.recv_used \/ th[t].at \in RecvAt
          /\ v.data_need_send - v.data_has_send <= r.data_need_send - r.data_has_send \/ th[t].at \in SendAt
          /\ UNCHANGED pool /\ th[t].at # "idle" /\ r \in SocketType
      BY <1>2, <1>3, <2>1, <2>2 DEF SocketType, RecvAt, SendAt
    <3>2. GoTo(t, "push_end") /\ (th[t].then = "send_ack" => "push_end" \in {"push_end", "send_ack"})
      BY <1>1, <1>2, <1>4 DEF CloseSocket
    <3>3. PICK l : l = k
      OBVIOUS
    <3>4. /\ Q = (P \ {th[t].at}) \cup ({"push_end"} \cap Roles)
          /\ l = IF "push_end" \in CarryAt THEN th[t].n ELSE IF th[t].at \in CarryAt THEN 0 ELSE k
          /\ \A R \in {RecvAt, SendAt, EndAt} : "push_end" \in R => P \cap R \subseteq {th[t].at}
          /\ th[t].then # "send_ack" => (th[t].at \in SendAt \cup {"send_ack"} <=> "push_end" \in SendAt \cup {"send_ack"})
      BY <1>2, <2>6, <3>3 DEF EndAt, SendAt, RecvAt, CarryAt, Roles
    <3>5. PICK label \in Labels \ {"idle", "recv", "send"} : label = "push_end"
      BY DEF Labels, EndAt, SendAt, RecvAt
    <3>6. ThreadStep(s, Q, u, l) /\ HandlersFit(th', r, s)
      BY ONLY Inv, t \in Threads, <1>1, <3>1, <3>2, <3>4, <3>5, GoingOn
    <3> QED  BY <3>3, <3>6
  <2>8. UsedOK(r, c, o.recv, o.send, E, Q, u)
    <3> USE <1>2, <1>3, <1>4, <2>1, <2>6 DEF UsedOK, SocketType, RecvAt, SendAt, EndAt, Requested, Opening
    <3>1. OpeningOK(r, c, o.send, E, Q)
      BY DEF OpeningOK
    <3>2. ReadingOK(r, o.recv, E, Q)
      BY DEF ReadingOK
    <3>3. SendingOK(r, o.send, Q, u)
      BY DEF SendingOK, Spent
    <3>4. EndingOK(r, c, o.send, E, Q)
      BY DEF EndingOK
    <3>5. HeardOK(r, c, o.recv, o.send, E, Q)
      BY DEF HeardOK
    <3> QED  BY <3>1, <3>2, <3>3, <3>4, <3>5
  <2>9. CachesOK(r, n + k) /\ OpsFit(r, o.recv, o.send)
    BY <1>3, <2>2, SameFits
  <2> QED  BY <1>2, <2>3, <2>5, <2>7, <2>8, <2>9, UsedSlot
<1>5. crush' = "none"
  BY <1>2 DEF CloseSocket
<1> QED  BY <1>4, <1>5 DEF Kept

(* The operation codes of a session that has connected are stored once. *)
LEMMA ConnectOpsKeeps ==
  ASSUME Inv, NEW t \in Threads, ConnectOps(t)
  PROVE  Kept
<1>1. PICK s, v, o, c, E, n, P, u, k : s = th[t].sock /\ View(s, v, o, c, E, n, P, u, k)
  BY DEF View
<1>2. /\ th[t].at = "connect_ops" /\ crush = "none" /\ UNCHANGED pool
      /\ s \in Sockets /\ s \notin pool /\ th[t] \in ThreadType
      /\ "connect_ops" \in P /\ P \cap RecvAt = {"connect_ops"}
      /\ th[t].then # "send_ack"
  BY <1>1, AtPlace DEF ConnectOps, At, Running, RecvAt, SendAt, EndAt, Roles, View
<1>3. /\ v \in SocketType /\ UsedOK(v, c, o.recv, o.send, E, P, u) /\ CachesOK(v, n + k)
      /\ OpsFit(v, o.recv, o.send) /\ o \in OpsType /\ c \in Callbacks /\ n \in Nat /\ u \in Nat
  BY <1>1, <1>2, Viewed
<1>len. Len(o.recv) \in Nat /\ Len(o.send) \in Nat
  BY <1>1, <1>2, Viewed
<1>4. ASSUME ConnectOps(t) PROVE Inv'
  <2>1. PICK r : r = [v EXCEPT !.recv_op = "RECV", !.send_op = "SEND"]
    OBVIOUS
  <2>2. r \in SocketType /\ SameBytes(v, r)
    BY <1>1, <1>2, <1>3, <1>4, <2>1 DEF SocketType, SameBytes, States
  <2>3. SlotStep(s, r, o, c)
    <3>1. sock' = [sock EXCEPT ![s] = r] /\ UNCHANGED <<ops, cb, pool>>
      BY <1>1, <1>4, <2>1 DEF ConnectOps, View
    <3> QED  BY <1>1, <1>2, <2>2, <3>1, SlotChanges DEF View
  <2>5. QueueStep(s, E, n)
    <3>1. UNCHANGED <<evt_queue, pool>>
      BY <1>4 DEF ConnectOps
    <3> QED  BY <1>1, <1>2, <3>1, QueueStays DEF View
  <2>6. PICK Q : Q = (P \ {"connect_ops"}) \cup {"establish"}
    OBVIOUS
  <2>7. ThreadStep(s, Q, u, k) /\ HandlersFit(th', r, s)
    <3>1. /\ r.recv_used <= v.recv_used \/ th[t].at \in RecvAt
          /\ v.data_need_send - v.data_has_send <= r.data_need_send - r.data_has_send \/ th[t].at \in SendAt
          /\ UNCHANGED pool /\ th[t].at # "idle" /\ r \in SocketType
      BY <1>2, <1>3, <2>1, <2>2 DEF SocketType, RecvAt, SendAt
    <3>2. GoTo(t, "establish") /\ (th[t].then = "send_ack" => "establish" \in {"push_end", "send_ack"})
      BY <1>1, <1>2, <1>4 DEF ConnectOps
    <3>3. PICK l : l = k
      OBVIOUS
    <3>4. /\ Q = (P \ {th[t].at}) \cup ({"establish"} \cap Roles)
          /\ l = IF "establish" \in CarryAt THEN th[t].n ELSE IF th[t].at \in CarryAt THEN 0 ELSE k
          /\ \A R \in {RecvAt, SendAt, EndAt} : "establish" \in R => P \cap R \subseteq {th[t].at}
          /\ th[t].then # "send_ack" => (th[t].at \in SendAt \cup {"send_ack"} <=> "establish" \in SendAt \cup {"send_ack"})
      BY <1>2, <2>6, <3>3 DEF EndAt, SendAt, RecvAt, CarryAt, Roles
    <3>5. PICK label \in Labels \ {"idle", "recv", "send"} : label = "establish"
      BY DEF Labels, EndAt, SendAt, RecvAt
    <3>6. ThreadStep(s, Q, u, l) /\ HandlersFit(th', r, s)
      BY ONLY Inv, t \in Threads, <1>1, <3>1, <3>2, <3>4, <3>5, GoingOn
    <3> QED  BY <3>3, <3>6
  <2>8. UsedOK(r, c, o.recv, o.send, E, Q, u)
    <3> USE <1>2, <1>3, <1>4, <2>1, <2>6 DEF UsedOK, SocketType, RecvAt, SendAt, EndAt, Requested, Opening
    <3>1. OpeningOK(r, c, o.send, E, Q)
      BY DEF OpeningOK
    <3>2. ReadingOK(r, o.recv, E, Q)
      BY DEF ReadingOK
    <3>3. SendingOK(r, o.send, Q, u)
      BY DEF SendingOK
    <3>4. EndingOK(r, c, o.send, E, Q)
      BY DEF EndingOK
    <3>5. HeardOK(r, c, o.recv, o.send, E, Q)
      BY DEF HeardOK
    <3> QED  BY <3>1, <3>2, <3>3, <3>4, <3>5
  <2>9. CachesOK(r, n + k) /\ OpsFit(r, o.recv, o.send)
    BY <1>3, <2>2, SameFits
  <2> QED  BY <1>2, <2>3, <2>5, <2>7, <2>8, <2>9, UsedSlot
<1>5. crush' = "none"
  BY <1>2 DEF ConnectOps
<1> QED  BY <1>4, <1>5 DEF Kept

(* ESTABLISH is the first event of its session. *)
LEMMA EstablishKeeps ==
  ASSUME Inv, NEW t \in Threads, Establish(t)
  PROVE  Kept \/ Full
<1>1. PICK s, v, o, c, E, n, P, u, k : s = th[t].sock /\ View(s, v, o, c, E, n, P, u, k)
  BY DEF View
<1>2. /\ th[t].at = "establish" /\ crush = "none" /\ UNCHANGED pool
      /\ s \in Sockets /\ s \notin pool /\ th[t] \in ThreadType
      /\ "establish" \in P /\ P \cap RecvAt = {"establish"}
      /\ th[t].then # "send_ack"
  BY <1>1, AtPlace DEF Establish, At, Running, RecvAt, SendAt, EndAt, Roles, View
<1>3. /\ v \in SocketType /\ UsedOK(v, c, o.recv, o.send, E, P, u) /\ CachesOK(v, n + k)
      /\ OpsFit(v, o.recv, o.send) /\ o \in OpsType /\ c \in Callbacks /\ n \in Nat /\ u \in Nat
  BY <1>1, <1>2, Viewed
<1>len. Len(o.recv) \in Nat /\ Len(o.send) \in Nat
  BY <1>1, <1>2, Viewed
<1>4. ASSUME crush' = "none" PROVE Inv'
  <2>1. PICK r : r = v
    OBVIOUS
  <2>2. r \in SocketType /\ SameBytes(v, r)
    BY <1>1, <1>2, <1>3, <1>4, <2>1 DEF SocketType, SameBytes, States
  <2>3. SlotStep(s, r, o, c)
    BY <1>1, <1>2, <1>4, <2>1, SlotStays DEF Establish, View
  <2>4. PICK F, m : F = E \cup {"ESTABLISH"} /\ m = n + 0
    OBVIOUS
  <2>5. QueueStep(s, F, m)
    <3>1. PICK type \in EventTypes, len \in Nat : type = "ESTABLISH" /\ len = 0
      BY <1>1, <1>2, <1>4 DEF EventTypes, TerminalEvents, ThreadType
    <3>2. PushEvt(type, s, len) /\ UNCHANGED pool /\ crush' = "none"
      BY <1>1, <1>4, <3>1 DEF Establish
    <3>3. /\ type # "DATA" => len = 0 /\ type \notin E
          /\ type \in TerminalEvents => E \cap TerminalEvents = {}
          /\ type = "ESTABLISH" => E = {}
      BY <1>2, <1>3, <1>4, <3>1 DEF UsedOK, OpeningOK, ReadingOK, EndingOK, HeardOK, TerminalEvents, Opening,
        RecvAt, EndAt
    <3>4. QueueStep(s, E \cup {type}, n + len)
      BY <1>1, <1>2, <3>1, <3>2, <3>3, QueueGrows DEF View
    <3> QED  BY <2>4, <3>1, <3>4
  <2>6. PICK Q : Q = (P \ {"establish"}) \cup {"recv_next"}
    OBVIOUS
  <2>7. ThreadStep(s, Q, u, k) /\ HandlersFit(th', r, s)
    <3>1. /\ r.recv_used <= v.recv_used \/ th[t].at \in RecvAt
          /\ v.data_need_send - v.data_has_send <= r.data_need_send - r.data_has_send \/ th[t].at \in SendAt
          /\ UNCHANGED pool /\ th[t].at # "idle" /\ r \in SocketType
      BY <1>2, <1>3, <2>1, <2>2 DEF SocketType, RecvAt, SendAt
    <3>2. GoTo(t, "recv_next") /\ (th[t].then = "send_ack" => "recv_next" \in {"push_end", "send_ack"})
      BY <1>1, <1>2, <1>4 DEF Establish
    <3>3. PICK l : l = k
      OBVIOUS
    <3>4. /\ Q = (P \ {th[t].at}) \cup ({"recv_next"} \cap Roles)
          /\ l = IF "recv_next" \in CarryAt THEN th[t].n ELSE IF th[t].at \in CarryAt THEN 0 ELSE k
          /\ \A R \in {RecvAt, SendAt, EndAt} : "recv_next" \in R => P \cap R \subseteq {th[t].at}
          /\ th[t].then # "send_ack" => (th[t].at \in SendAt \cup {"send_ack"} <=> "recv_next" \in SendAt \cup {"send_ack"})
      BY <1>2, <2>6, <3>3 DEF EndAt, SendAt, RecvAt, CarryAt, Roles
    <3>5. PICK label \in Labels \ {"idle", "recv", "send"} : label = "recv_next"
      BY DEF Labels, EndAt, SendAt, RecvAt
    <3>6. ThreadStep(s, Q, u, l) /\ HandlersFit(th', r, s)
      BY ONLY Inv, t \in Threads, <1>1, <3>1, <3>2, <3>4, <3>5, GoingOn
    <3> QED  BY <3>3, <3>6
  <2>8. UsedOK(r, c, o.recv, o.send, F, Q, u)
    <3> USE <1>2, <1>3, <1>4, <2>1, <2>4, <2>6 DEF UsedOK, SocketType, RecvAt, SendAt, EndAt, Requested,
          Opening, TerminalEvents
    <3>1. OpeningOK(r, c, o.send, F, Q)
      BY DEF OpeningOK
    <3>2. ReadingOK(r, o.recv, F, Q)
      BY DEF ReadingOK
    <3>3. SendingOK(r, o.send, Q, u)
      BY DEF SendingOK
    <3>4. EndingOK(r, c, o.send, F, Q)
      BY DEF EndingOK, OpeningOK
    <3>5. HeardOK(r, c, o.recv, o.send, F, Q)
      BY DEF HeardOK, OpeningOK
    <3> QED  BY <3>1, <3>2, <3>3, <3>4, <3>5
  <2>9. CachesOK(r, m + k) /\ OpsFit(r, o.recv, o.send)
    <3>1. CachesOK(r, n + k) /\ OpsFit(r, o.recv, o.send)
      BY <1>3, <2>2, SameFits
    <3>2. CachesOK(r, m + k)
      <4>1. m + k = n + k
        BY <1>1, <1>2, <1>3, <1>4, <2>4, CarriedNow DEF View, RecvAt, CarryAt, ThreadType
      <4> QED  BY <3>1, <4>1
    <3> QED  BY <3>1, <3>2
  <2> QED  BY <1>2, <2>3, <2>5, <2>7, <2>8, <2>9, UsedSlot
<1>5. ASSUME crush' # "none" PROVE Full
  BY <1>2, <1>5 DEF Establish, PushEvt, Full
<1> QED  BY <1>4, <1>5 DEF Kept

(* A DATA event takes over the bytes its handler carried, even after the session has ended. *)
LEMMA RecvEventKeeps ==
  ASSUME Inv, NEW t \in Threads, RecvEvent(t)
  PROVE  Kept \/ Full
<1>1. PICK s, v, o, c, E, n, P, u, k : s = th[t].sock /\ View(s, v, o, c, E, n, P, u, k)
  BY DEF View
<1>2. /\ th[t].at = "recv_event" /\ crush = "none" /\ UNCHANGED pool
      /\ s \in Sockets /\ s \notin pool /\ th[t] \in ThreadType
      /\ "recv_event" \in P /\ P \cap RecvAt = {"recv_event"}
      /\ th[t].then # "send_ack"
  BY <1>1, AtPlace DEF RecvEvent, At, Running, RecvAt, SendAt, EndAt, Roles, View
<1>3. /\ v \in SocketType /\ UsedOK(v, c, o.recv, o.send, E, P, u) /\ CachesOK(v, n + k)
      /\ OpsFit(v, o.recv, o.send) /\ o \in OpsType /\ c \in Callbacks /\ n \in Nat /\ u \in Nat
  BY <1>1, <1>2, Viewed
<1>len. Len(o.recv) \in Nat /\ Len(o.send) \in Nat
  BY <1>1, <1>2, Viewed
<1>4. ASSUME crush' = "none" PROVE Inv'
  <2>1. PICK r : r = v
    OBVIOUS
  <2>2. r \in SocketType /\ SameBytes(v, r)
    BY <1>1, <1>2, <1>3, <1>4, <2>1 DEF SocketType, SameBytes, States
  <2>3. SlotStep(s, r, o, c)
    BY <1>1, <1>2, <1>4, <2>1, SlotStays DEF RecvEvent, View
  <2>4. PICK F, m : F = E \cup {"DATA"} /\ m = n + th[t].n
    OBVIOUS
  <2>5. QueueStep(s, F, m)
    <3>1. PICK type \in EventTypes, len \in Nat : type = "DATA" /\ len = th[t].n
      BY <1>1, <1>2, <1>4 DEF EventTypes, TerminalEvents, ThreadType
    <3>2. PushEvt(type, s, len) /\ UNCHANGED pool /\ crush' = "none"
      BY <1>1, <1>4, <3>1 DEF RecvEvent
    <3>3. /\ type # "DATA" => len = 0 /\ type \notin E
          /\ type \in TerminalEvents => E \cap TerminalEvents = {}
          /\ type = "ESTABLISH" => E = {}
      BY <1>2, <1>3, <1>4, <3>1 DEF UsedOK, OpeningOK, ReadingOK, EndingOK, HeardOK, TerminalEvents, Opening,
        RecvAt, EndAt
    <3>4. QueueStep(s, E \cup {type}, n + len)
      BY <1>1, <1>2, <3>1, <3>2, <3>3, QueueGrows DEF View
    <3> QED  BY <2>4, <3>1, <3>4
  <2>6. PICK Q : Q = (P \ {"recv_event"}) \cup {"recv_next"}
    OBVIOUS
  <2>7. ThreadStep(s, Q, u, 0) /\ HandlersFit(th', r, s)
    <3>1. /\ r.recv_used <= v.recv_used \/ th[t].at \in RecvAt
          /\ v.data_need_send - v.data_has_send <= r.data_need_send - r.data_has_send \/ th[t].at \in SendAt
          /\ UNCHANGED pool /\ th[t].at # "idle" /\ r \in SocketType
      BY <1>2, <1>3, <2>1, <2>2 DEF SocketType, RecvAt, SendAt
    <3>2. GoTo(t, "recv_next") /\ (th[t].then = "send_ack" => "recv_next" \in {"push_end", "send_ack"})
      BY <1>1, <1>2, <1>4 DEF RecvEvent
    <3>3. PICK l : l = 0
      OBVIOUS
    <3>4. /\ Q = (P \ {th[t].at}) \cup ({"recv_next"} \cap Roles)
          /\ l = IF "recv_next" \in CarryAt THEN th[t].n ELSE IF th[t].at \in CarryAt THEN 0 ELSE k
          /\ \A R \in {RecvAt, SendAt, EndAt} : "recv_next" \in R => P \cap R \subseteq {th[t].at}
          /\ th[t].then # "send_ack" => (th[t].at \in SendAt \cup {"send_ack"} <=> "recv_next" \in SendAt \cup {"send_ack"})
      BY <1>2, <2>6, <3>3 DEF EndAt, SendAt, RecvAt, CarryAt, Roles
    <3>5. PICK label \in Labels \ {"idle", "recv", "send"} : label = "recv_next"
      BY DEF Labels, EndAt, SendAt, RecvAt
    <3>6. ThreadStep(s, Q, u, l) /\ HandlersFit(th', r, s)
      BY ONLY Inv, t \in Threads, <1>1, <3>1, <3>2, <3>4, <3>5, GoingOn
    <3> QED  BY <3>3, <3>6
  <2>8. UsedOK(r, c, o.recv, o.send, F, Q, u)
    <3> USE <1>2, <1>3, <1>4, <2>1, <2>4, <2>6 DEF UsedOK, SocketType, RecvAt, SendAt, EndAt, Requested,
          Opening, TerminalEvents
    <3>1. OpeningOK(r, c, o.send, F, Q)
      BY DEF OpeningOK
    <3>2. ReadingOK(r, o.recv, F, Q)
      BY DEF ReadingOK
    <3>3. SendingOK(r, o.send, Q, u)
      BY DEF SendingOK
    <3>4. EndingOK(r, c, o.send, F, Q)
      BY DEF EndingOK
    <3>5. HeardOK(r, c, o.recv, o.send, F, Q)
      BY DEF HeardOK
    <3> QED  BY <3>1, <3>2, <3>3, <3>4, <3>5
  <2>9. CachesOK(r, m + 0) /\ OpsFit(r, o.recv, o.send)
    <3>1. CachesOK(r, n + k) /\ OpsFit(r, o.recv, o.send)
      BY <1>3, <2>2, SameFits
    <3>2. CachesOK(r, m + 0)
      <4>1. m + 0 = n + k
        BY <1>1, <1>2, <1>3, <1>4, <2>4, CarriedNow DEF View, RecvAt, CarryAt, ThreadType
      <4> QED  BY <3>1, <4>1
    <3> QED  BY <3>1, <3>2
  <2> QED  BY <1>2, <2>3, <2>5, <2>7, <2>8, <2>9, UsedSlot
<1>5. ASSUME crush' # "none" PROVE Full
  BY <1>2, <1>5 DEF RecvEvent, PushEvt, Full
<1> QED  BY <1>4, <1>5 DEF Kept

(* The token of receiving passes from the handler to the RECV_ACTIVE event. *)
LEMMA RecvActiveKeeps ==
  ASSUME Inv, NEW t \in Threads, RecvActive(t)
  PROVE  Kept \/ Full
<1>1. PICK s, v, o, c, E, n, P, u, k : s = th[t].sock /\ View(s, v, o, c, E, n, P, u, k)
  BY DEF View
<1>2. /\ th[t].at = "recv_active" /\ crush = "none" /\ UNCHANGED pool
      /\ s \in Sockets /\ s \notin pool /\ th[t] \in ThreadType
      /\ "recv_active" \in P /\ P \cap RecvAt = {"recv_active"}
      /\ th[t].then # "send_ack"
  BY <1>1, AtPlace DEF RecvActive, At, Running, RecvAt, SendAt, EndAt, Roles, View
<1>3. /\ v \in SocketType /\ UsedOK(v, c, o.recv, o.send, E, P, u) /\ CachesOK(v, n + k)
      /\ OpsFit(v, o.recv, o.send) /\ o \in OpsType /\ c \in Callbacks /\ n \in Nat /\ u \in Nat
  BY <1>1, <1>2, Viewed
<1>len. Len(o.recv) \in Nat /\ Len(o.send) \in Nat
  BY <1>1, <1>2, Viewed
<1>4. ASSUME crush' = "none" PROVE Inv'
  <2>1. PICK r : r = v
    OBVIOUS
  <2>2. r \in SocketType /\ SameBytes(v, r)
    BY <1>1, <1>2, <1>3, <1>4, <2>1 DEF SocketType, SameBytes, States
  <2>3. SlotStep(s, r, o, c)
    BY <1>1, <1>2, <1>4, <2>1, SlotStays DEF RecvActive, View
  <2>4. PICK F, m : F = E \cup {"RECV_ACTIVE"} /\ m = n + 0
    OBVIOUS
  <2>5. QueueStep(s, F, m)
    <3>1. PICK type \in EventTypes, len \in Nat : type = "RECV_ACTIVE" /\ len = 0
      BY <1>1, <1>2, <1>4 DEF EventTypes, TerminalEvents, ThreadType
    <3>2. PushEvt(type, s, len) /\ UNCHANGED pool /\ crush' = "none"
      BY <1>1, <1>4, <3>1 DEF RecvActive
    <3>3. /\ type # "DATA" => len = 0 /\ type \notin E
          /\ type \in TerminalEvents => E \cap TerminalEvents = {}
          /\ type = "ESTABLISH" => E = {}
      BY <1>2, <1>3, <1>4, <3>1 DEF UsedOK, OpeningOK, ReadingOK, EndingOK, HeardOK, TerminalEvents, Opening,
        RecvAt, EndAt
    <3>4. QueueStep(s, E \cup {type}, n + len)
      BY <1>1, <1>2, <3>1, <3>2, <3>3, QueueGrows DEF View
    <3> QED  BY <2>4, <3>1, <3>4
  <2>6. PICK Q : Q = P \ {"recv_active"}
    OBVIOUS
  <2>7. ThreadStep(s, Q, u, k) /\ HandlersFit(th', r, s)
    <3>1. /\ r.recv_used <= v.recv_used \/ th[t].at \in RecvAt
          /\ v.data_need_send - v.data_has_send <= r.data_need_send - r.data_has_send \/ th[t].at \in SendAt
          /\ UNCHANGED pool /\ th[t].at # "idle" /\ r \in SocketType
      BY <1>2, <1>3, <2>1, <2>2 DEF SocketType, RecvAt, SendAt
    <3>2. /\ Q = P \ {th[t].at} /\ Done(t) /\ (k = IF th[t].at \in CarryAt THEN 0 ELSE k)
          /\ ~Sends(th[t])
      BY <1>1, <1>2, <1>4, <2>6 DEF RecvActive, CarryAt, Sends
    <3>3. PICK y, z : y = u /\ z = k
      OBVIOUS
    <3>4. ThreadStep(s, Q, y, z) /\ HandlersFit(th', r, s)
      BY ONLY Inv, t \in Threads, <1>1, <3>1, <3>2, <3>3, FinishingOn
    <3> QED  BY <3>3, <3>4
  <2>8. UsedOK(r, c, o.recv, o.send, F, Q, u)
    <3> USE <1>2, <1>3, <1>4, <2>1, <2>4, <2>6 DEF UsedOK, SocketType, RecvAt, SendAt, EndAt, Requested,
          Opening, TerminalEvents
    <3>1. OpeningOK(r, c, o.send, F, Q)
      BY DEF OpeningOK
    <3>2. ReadingOK(r, o.recv, F, Q)
      BY DEF ReadingOK
    <3>3. SendingOK(r, o.send, Q, u)
      BY DEF SendingOK
    <3>4. EndingOK(r, c, o.send, F, Q)
      BY DEF EndingOK
    <3>5. HeardOK(r, c, o.recv, o.send, F, Q)
      BY DEF HeardOK
    <3> QED  BY <3>1, <3>2, <3>3, <3>4, <3>5
  <2>9. CachesOK(r, m + k) /\ OpsFit(r, o.recv, o.send)
    <3>1. CachesOK(r, n + k) /\ OpsFit(r, o.recv, o.send)
      BY <1>3, <2>2, SameFits
    <3>2. CachesOK(r, m + k)
      <4>1. m + k = n + k
        BY <1>1, <1>2, <1>3, <1>4, <2>4, CarriedNow DEF View, RecvAt, CarryAt, ThreadType
      <4> QED  BY <3>1, <4>1
    <3> QED  BY <3>1, <3>2
  <2> QED  BY <1>2, <2>3, <2>5, <2>7, <2>8, <2>9, UsedSlot
<1>5. ASSUME crush' # "none" PROVE Full
  BY <1>2, <1>5 DEF RecvActive, PushEvt, Full
<1> QED  BY <1>4, <1>5 DEF Kept

(* A failed connect ends a session of which nothing else is on its way. *)
LEMMA ConnectFailKeeps ==
  ASSUME Inv, NEW t \in Threads, ConnectFail(t)
  PROVE  Kept \/ Full
<1>1. PICK s, v, o, c, E, n, P, u, k : s = th[t].sock /\ View(s, v, o, c, E, n, P, u, k)
  BY DEF View
<1>2. /\ th[t].at = "connect_fail" /\ crush = "none" /\ UNCHANGED pool
      /\ s \in Sockets /\ s \notin pool /\ th[t] \in ThreadType
      /\ "connect_fail" \in P /\ P \cap EndAt = {"connect_fail"}
      /\ th[t].then # "send_ack"
  BY <1>1, AtPlace DEF ConnectFail, At, Running, RecvAt, SendAt, EndAt, Roles, View
<1>3. /\ v \in SocketType /\ UsedOK(v, c, o.recv, o.send, E, P, u) /\ CachesOK(v, n + k)
      /\ OpsFit(v, o.recv, o.send) /\ o \in OpsType /\ c \in Callbacks /\ n \in Nat /\ u \in Nat
  BY <1>1, <1>2, Viewed
<1>len. Len(o.recv) \in Nat /\ Len(o.send) \in Nat
  BY <1>1, <1>2, Viewed
<1>4. ASSUME crush' = "none" PROVE Inv'
  <2>1. PICK r : r = v
    OBVIOUS
  <2>2. r \in SocketType /\ SameBytes(v, r)
    BY <1>1, <1>2, <1>3, <1>4, <2>1 DEF SocketType, SameBytes, States
  <2>3. SlotStep(s, r, o, c)
    BY <1>1, <1>2, <1>4, <2>1, SlotStays DEF ConnectFail, View
  <2>4. PICK F, m : F = E \cup {"CONNECT_FAIL"} /\ m = n + 0
    OBVIOUS
  <2>5. QueueStep(s, F, m)
    <3>1. PICK type \in EventTypes, len \in Nat : type = "CONNECT_FAIL" /\ len = 0
      BY <1>1, <1>2, <1>4 DEF EventTypes, TerminalEvents, ThreadType
    <3>2. PushEvt(type, s, len) /\ UNCHANGED pool /\ crush' = "none"
      BY <1>1, <1>4, <3>1 DEF ConnectFail
    <3>3. /\ type # "DATA" => len = 0 /\ type \notin E
          /\ type \in TerminalEvents => E \cap TerminalEvents = {}
          /\ type = "ESTABLISH" => E = {}
      BY <1>2, <1>3, <1>4, <3>1 DEF UsedOK, OpeningOK, ReadingOK, EndingOK, HeardOK, TerminalEvents, Opening,
        RecvAt, EndAt
    <3>4. QueueStep(s, E \cup {type}, n + len)
      BY <1>1, <1>2, <3>1, <3>2, <3>3, QueueGrows DEF View
    <3> QED  BY <2>4, <3>1, <3>4
  <2>6. PICK Q : Q = P \ {"connect_fail"}
    OBVIOUS
  <2>7. ThreadStep(s, Q, u, k) /\ HandlersFit(th', r, s)
    <3>1. /\ r.recv_used <= v.recv_used \/ th[t].at \in RecvAt
          /\ v.data_need_send - v.data_has_send <= r.data_need_send - r.data_has_send \/ th[t].at \in SendAt
          /\ UNCHANGED pool /\ th[t].at # "idle" /\ r \in SocketType
      BY <1>2, <1>3, <2>1, <2>2 DEF SocketType, RecvAt, SendAt
    <3>2. /\ Q = P \ {th[t].at} /\ Done(t) /\ (k = IF th[t].at \in CarryAt THEN 0 ELSE k)
          /\ ~Sends(th[t])
      BY <1>1, <1>2, <1>4, <2>6 DEF ConnectFail, CarryAt, Sends
    <3>3. PICK y, z : y = u /\ z = k
      OBVIOUS
    <3>4. ThreadStep(s, Q, y, z) /\ HandlersFit(th', r, s)
      BY ONLY Inv, t \in Threads, <1>1, <3>1, <3>2, <3>3, FinishingOn
    <3> QED  BY <3>3, <3>4
  <2>8. UsedOK(r, c, o.recv, o.send, F, Q, u)
    <3> USE <1>2, <1>3, <1>4, <2>1, <2>4, <2>6 DEF UsedOK, SocketType, RecvAt, SendAt, EndAt, Requested,
          Opening, TerminalEvents
    <3>1. OpeningOK(r, c, o.send, F, Q)
      BY DEF OpeningOK
    <3>2. ReadingOK(r, o.recv, F, Q)
      BY DEF ReadingOK
    <3>3. SendingOK(r, o.send, Q, u)
      BY DEF SendingOK
    <3>4. EndingOK(r, c, o.send, F, Q)
      BY DEF EndingOK
    <3>5. HeardOK(r, c, o.recv, o.send, F, Q)
      BY DEF HeardOK
    <3> QED  BY <3>1, <3>2, <3>3, <3>4, <3>5
  <2>9. CachesOK(r, m + k) /\ OpsFit(r, o.recv, o.send)
    <3>1. CachesOK(r, n + k) /\ OpsFit(r, o.recv, o.send)
      BY <1>3, <2>2, SameFits
    <3>2. CachesOK(r, m + k)
      <4>1. m + k = n + k
        BY <1>1, <1>2, <1>3, <1>4, <2>4, CarriedNow DEF View, RecvAt, CarryAt, ThreadType
      <4> QED  BY <3>1, <4>1
    <3> QED  BY <3>1, <3>2
  <2> QED  BY <1>2, <2>3, <2>5, <2>7, <2>8, <2>9, UsedSlot
<1>5. ASSUME crush' # "none" PROVE Full
  BY <1>2, <1>5 DEF ConnectFail, PushEvt, Full
<1> QED  BY <1>4, <1>5 DEF Kept

(* Bytes received after the session has ended are not announced. *)
LEMMA RecvStillUpKeeps ==
  ASSUME Inv, NEW t \in Threads, RecvStillUp(t)
  PROVE  Kept
<1>1. PICK s, v, o, c, E, n, P, u, k : s = th[t].sock /\ View(s, v, o, c, E, n, P, u, k)
  BY DEF View
<1>2. /\ th[t].at = "recv_push" /\ crush = "none" /\ UNCHANGED pool
      /\ s \in Sockets /\ s \notin pool /\ th[t] \in ThreadType
      /\ "recv_push" \in P /\ P \cap RecvAt = {"recv_push"}
      /\ th[t].then # "send_ack"
  BY <1>1, AtPlace DEF RecvStillUp, At, Running, RecvAt, SendAt, EndAt, Roles, View
<1>3. /\ v \in SocketType /\ UsedOK(v, c, o.recv, o.send, E, P, u) /\ CachesOK(v, n + k)
      /\ OpsFit(v, o.recv, o.send) /\ o \in OpsType /\ c \in Callbacks /\ n \in Nat /\ u \in Nat
  BY <1>1, <1>2, Viewed
<1>len. Len(o.recv) \in Nat /\ Len(o.send) \in Nat
  BY <1>1, <1>2, Viewed
<1>4. ASSUME sock[s].state = "ESTABLISH" PROVE Inv'
  <2>1. PICK r : r = v
    OBVIOUS
  <2>2. r \in SocketType /\ SameBytes(v, r)
    BY <1>1, <1>2, <1>3, <1>4, <2>1 DEF SocketType, SameBytes, States
  <2>3. SlotStep(s, r, o, c)
    BY <1>1, <1>2, <1>4, <2>1, SlotStays DEF RecvStillUp, View
  <2>5. QueueStep(s, E, n)
    <3>1. UNCHANGED <<evt_queue, pool>>
      BY <1>4 DEF RecvStillUp
    <3> QED  BY <1>1, <1>2, <3>1, QueueStays DEF View
  <2>6. PICK Q : Q = (P \ {"recv_push"}) \cup {"recv_event"}
    OBVIOUS
  <2>7. ThreadStep(s, Q, u, th[t].n) /\ HandlersFit(th', r, s)
    <3>1. /\ r.recv_used <= v.recv_used \/ th[t].at \in RecvAt
          /\ v.data_need_send - v.data_has_send <= r.data_need_send - r.data_has_send \/ th[t].at \in SendAt
          /\ UNCHANGED pool /\ th[t].at # "idle" /\ r \in SocketType
      BY <1>2, <1>3, <2>1, <2>2 DEF SocketType, RecvAt, SendAt
    <3>2. GoTo(t, "recv_event") /\ (th[t].then = "send_ack" => "recv_event" \in {"push_end", "send_ack"})
      BY <1>1, <1>2, <1>4 DEF RecvStillUp
    <3>3. PICK l : l = th[t].n
      OBVIOUS
    <3>4. /\ Q = (P \ {th[t].at}) \cup ({"recv_event"} \cap Roles)
          /\ l = IF "recv_event" \in CarryAt THEN th[t].n ELSE IF th[t].at \in CarryAt THEN 0 ELSE k
          /\ \A R \in {RecvAt, SendAt, EndAt} : "recv_event" \in R => P \cap R \subseteq {th[t].at}
          /\ th[t].then # "send_ack" => (th[t].at \in SendAt \cup {"send_ack"} <=> "recv_event" \in SendAt \cup {"send_ack"})
      BY <1>2, <2>6, <3>3 DEF EndAt, SendAt, RecvAt, CarryAt, Roles
    <3>5. PICK label \in Labels \ {"idle", "recv", "send"} : label = "recv_event"
      BY DEF Labels, EndAt, SendAt, RecvAt
    <3>6. ThreadStep(s, Q, u, l) /\ HandlersFit(th', r, s)
      BY ONLY Inv, t \in Threads, <1>1, <3>1, <3>2, <3>4, <3>5, GoingOn
    <3> QED  BY <3>3, <3>6
  <2>8. UsedOK(r, c, o.recv, o.send, E, Q, u)
    <3> USE <1>2, <1>3, <1>4, <2>1, <2>6 DEF UsedOK, SocketType, RecvAt, SendAt, EndAt, Requested, Opening
    <3>1. OpeningOK(r, c, o.send, E, Q)
      BY DEF OpeningOK
    <3>2. ReadingOK(r, o.recv, E, Q)
      BY DEF ReadingOK
    <3>3. SendingOK(r, o.send, Q, u)
      BY DEF SendingOK
    <3>4. EndingOK(r, c, o.send, E, Q)
      BY DEF EndingOK
    <3>5. HeardOK(r, c, o.recv, o.send, E, Q)
      BY DEF HeardOK
    <3> QED  BY <3>1, <3>2, <3>3, <3>4, <3>5
  <2>9. CachesOK(r, n + th[t].n) /\ OpsFit(r, o.recv, o.send)
    <3>1. CachesOK(r, n + k) /\ OpsFit(r, o.recv, o.send)
      BY <1>3, <2>2, SameFits
    <3>2. CachesOK(r, n + th[t].n)
      <4>1. n + th[t].n = n + k
        BY <1>1, <1>2, <1>3, <1>4, CarriedNow DEF View, RecvAt, CarryAt, ThreadType
      <4> QED  BY <3>1, <4>1
    <3> QED  BY <3>1, <3>2
  <2> QED  BY <1>2, <2>3, <2>5, <2>7, <2>8, <2>9, UsedSlot
<1>5. ASSUME sock[s].state # "ESTABLISH" PROVE Inv'
  <2>1. PICK r : r = v
    OBVIOUS
  <2>2. r \in SocketType
    BY <1>1, <1>2, <1>3, <1>5, <2>1 DEF SocketType, SameBytes, States
  <2>3. SlotStep(s, r, o, c)
    BY <1>1, <1>2, <1>5, <2>1, SlotStays DEF RecvStillUp, View
  <2>5. QueueStep(s, E, n)
    <3>1. UNCHANGED <<evt_queue, pool>>
      BY <1>5 DEF RecvStillUp
    <3> QED  BY <1>1, <1>2, <3>1, QueueStays DEF View
  <2>6. PICK Q : Q = (P \ {"recv_push"}) \cup {"recv_next"}
    OBVIOUS
  <2>7. ThreadStep(s, Q, u, 0) /\ HandlersFit(th', r, s)
    <3>1. /\ r.recv_used <= v.recv_used \/ th[t].at \in RecvAt
          /\ v.data_need_send - v.data_has_send <= r.data_need_send - r.data_has_send \/ th[t].at \in SendAt
          /\ UNCHANGED pool /\ th[t].at # "idle" /\ r \in SocketType
      BY <1>2, <1>3, <2>1, <2>2 DEF SocketType, RecvAt, SendAt
    <3>2. GoTo(t, "recv_next") /\ (th[t].then = "send_ack" => "recv_next" \in {"push_end", "send_ack"})
      BY <1>1, <1>2, <1>5 DEF RecvStillUp
    <3>3. PICK l : l = 0
      OBVIOUS
    <3>4. /\ Q = (P \ {th[t].at}) \cup ({"recv_next"} \cap Roles)
          /\ l = IF "recv_next" \in CarryAt THEN th[t].n ELSE IF th[t].at \in CarryAt THEN 0 ELSE k
          /\ \A R \in {RecvAt, SendAt, EndAt} : "recv_next" \in R => P \cap R \subseteq {th[t].at}
          /\ th[t].then # "send_ack" => (th[t].at \in SendAt \cup {"send_ack"} <=> "recv_next" \in SendAt \cup {"send_ack"})
      BY <1>2, <2>6, <3>3 DEF EndAt, SendAt, RecvAt, CarryAt, Roles
    <3>5. PICK label \in Labels \ {"idle", "recv", "send"} : label = "recv_next"
      BY DEF Labels, EndAt, SendAt, RecvAt
    <3>6. ThreadStep(s, Q, u, l) /\ HandlersFit(th', r, s)
      BY ONLY Inv, t \in Threads, <1>1, <3>1, <3>2, <3>4, <3>5, GoingOn
    <3> QED  BY <3>3, <3>6
  <2>8. UsedOK(r, c, o.recv, o.send, E, Q, u)
    <3> USE <1>2, <1>3, <1>5, <2>1, <2>6 DEF UsedOK, SocketType, RecvAt, SendAt, EndAt, Requested, Opening
    <3>1. OpeningOK(r, c, o.send, E, Q)
      BY DEF OpeningOK
    <3>2. ReadingOK(r, o.recv, E, Q)
      BY DEF ReadingOK
    <3>3. SendingOK(r, o.send, Q, u)
      BY DEF SendingOK
    <3>4. EndingOK(r, c, o.send, E, Q)
      BY DEF EndingOK
    <3>5. HeardOK(r, c, o.recv, o.send, E, Q)
      BY DEF HeardOK
    <3> QED  BY <3>1, <3>2, <3>3, <3>4, <3>5
  <2>9. CachesOK(r, n + 0) /\ OpsFit(r, o.recv, o.send)
    <3>1. k \in Nat /\ v.state \notin {"CONNECT", "ESTABLISH"} /\ RecvCap \in Nat
      <4>1. v.state # "CONNECT"
        BY <1>2, <1>3 DEF UsedOK, OpeningOK
      <4> QED  BY <1>1, <1>2, <1>5, <4>1, CarriedNow, IocpAssumption DEF View, RecvAt, CarryAt, ThreadType
    <3>2. n + 0 <= n + k /\ n + 0 \in Nat /\ n + k \in Nat
      BY <1>3, <3>1
    <3>3. v.data_has_recv + (n + 0) <= v.recv_used
      BY <1>3, <3>1, <3>2 DEF CachesOK, SocketType
    <3> QED  BY <1>3, <2>1, <3>1, <3>3 DEF CachesOK
  <2> QED  BY <1>2, <2>3, <2>5, <2>7, <2>8, <2>9, UsedSlot
<1>6. \/ sock[s].state = "ESTABLISH"
      \/ sock[s].state # "ESTABLISH"
  BY <1>1, <1>2 DEF RecvStillUp
<1>7. Inv'
  BY <1>4, <1>5, <1>6
<1>8. crush' = "none"
  BY <1>2, <1>6 DEF RecvStillUp
<1> QED  BY <1>7, <1>8 DEF Kept

(* The acknowledgement leaves one send less to count. *)
LEMMA SendAckKeeps ==
  ASSUME Inv, NEW t \in Threads, SendAck(t)
  PROVE  Kept
<1>1. PICK s, v, o, c, E, n, P, u, k : s = th[t].sock /\ View(s, v, o, c, E, n, P, u, k)
  BY DEF View
<1>2. /\ th[t].at = "send_ack" /\ crush = "none" /\ UNCHANGED pool
      /\ s \in Sockets /\ s \notin pool /\ th[t] \in ThreadType
  BY <1>1, AtPlace DEF SendAck, At, Running, RecvAt, SendAt, EndAt, Roles, View
<1>3. /\ v \in SocketType /\ UsedOK(v, c, o.recv, o.send, E, P, u) /\ CachesOK(v, n + k)
      /\ OpsFit(v, o.recv, o.send) /\ o \in OpsType /\ c \in Callbacks /\ n \in Nat /\ u \in Nat
  BY <1>1, <1>2, Viewed
<1>len. Len(o.recv) \in Nat /\ Len(o.send) \in Nat
  BY <1>1, <1>2, Viewed
<1>4. ASSUME SendAck(t) PROVE Inv'
  <2>1. PICK r : r = [v EXCEPT !.send_ack = @ + 1]
    OBVIOUS
  <2>2. r \in SocketType /\ SameBytes(v, r)
    <3>1. v.send_ack + 1 \in Nat
      BY <1>3 DEF SocketType
    <3> QED  BY <1>1, <1>2, <1>3, <1>4, <2>1, <3>1 DEF SocketType, SameBytes, States
  <2>3. SlotStep(s, r, o, c)
    <3>1. sock' = [sock EXCEPT ![s] = r] /\ UNCHANGED <<ops, cb, pool>>
      BY <1>1, <1>4, <2>1 DEF SendAck, View
    <3> QED  BY <1>1, <1>2, <2>2, <3>1, SlotChanges DEF View
  <2>5. QueueStep(s, E, n)
    <3>1. UNCHANGED <<evt_queue, pool>>
      BY <1>4 DEF SendAck
    <3> QED  BY <1>1, <1>2, <3>1, QueueStays DEF View
  <2>6. PICK Q : Q = P \ {"send_ack"}
    OBVIOUS
  <2>7. ThreadStep(s, Q, u - 1, k) /\ HandlersFit(th', r, s)
    <3>1. /\ r.recv_used <= v.recv_used \/ th[t].at \in RecvAt
          /\ v.data_need_send - v.data_has_send <= r.data_need_send - r.data_has_send \/ th[t].at \in SendAt
          /\ UNCHANGED pool /\ th[t].at # "idle" /\ r \in SocketType
      BY <1>2, <1>3, <2>1, <2>2 DEF SocketType, RecvAt, SendAt
    <3>2. /\ Q = P \ {th[t].at} /\ Done(t) /\ (k = IF th[t].at \in CarryAt THEN 0 ELSE k)
          /\ Sends(th[t])
      BY <1>1, <1>2, <1>4, <2>6 DEF SendAck, CarryAt, Sends
    <3>3. PICK y, z : y = u - 1 /\ z = k
      OBVIOUS
    <3>4. ThreadStep(s, Q, y, z) /\ HandlersFit(th', r, s)
      BY ONLY Inv, t \in Threads, <1>1, <3>1, <3>2, <3>3, FinishingOn
    <3> QED  BY <3>3, <3>4
  <2>8. UsedOK(r, c, o.recv, o.send, E, Q, u - 1)
    <3> USE <1>2, <1>3, <1>len, <1>4, <2>1, <2>6 DEF UsedOK, SocketType, RecvAt, SendAt, EndAt, Requested,
          Opening
    <3>1. OpeningOK(r, c, o.send, E, Q)
      BY DEF OpeningOK
    <3>2. ReadingOK(r, o.recv, E, Q)
      BY DEF ReadingOK
    <3>3. SendingOK(r, o.send, Q, u - 1)
      <4>1. /\ r.send_ack = v.send_ack + 1 /\ r.send_req = v.send_req /\ r.send_op = v.send_op
            /\ r.state = v.state /\ v.send_req \in Nat /\ v.send_ack \in Nat
        OBVIOUS
      <4>2. v.send_req - v.send_ack = Len(o.send) + u
        BY DEF SendingOK
      <4>3. PICK x \in Nat, y \in Nat : x = Len(o.send) /\ y = u
        BY <1>len
      <4>4. r.send_req - r.send_ack = x + (y - 1)
        BY ONLY <4>1, <4>2, <4>3
      <4>5. u # 0
        <5>1. t \in SendersIn(th, s)
          BY <1>1, <1>2 DEF SendersIn, Sends, SendAck
        <5> QED  BY ONLY Inv, s \in Sockets, <1>1, <5>1, Parts, FS_EmptySet DEF View
      <4>6. ~(v.state = "CLOSE" /\ v.send_op # "SEND")
        BY <4>5 DEF SendingOK
      <4> QED  BY <4>1, <4>3, <4>4, <4>6 DEF SendingOK
    <3>4. EndingOK(r, c, o.send, E, Q)
      BY DEF EndingOK
    <3>5. HeardOK(r, c, o.recv, o.send, E, Q)
      BY DEF HeardOK
    <3> QED  BY <3>1, <3>2, <3>3, <3>4, <3>5
  <2>9. CachesOK(r, n + k) /\ OpsFit(r, o.recv, o.send)
    BY <1>3, <2>2, SameFits
  <2> QED  BY <1>2, <2>3, <2>5, <2>7, <2>8, <2>9, UsedSlot
<1>5. crush' = "none"
  BY <1>2 DEF SendAck
<1> QED  BY <1>4, <1>5 DEF Kept

(* What was received fits, so the assertion on the receive cache holds. *)
LEMMA RecvDecideKeeps ==
  ASSUME Inv, NEW t \in Threads, RecvDecide(t)
  PROVE  Kept
<1>1. PICK s, v, o, c, E, n, P, u, k : s = th[t].sock /\ View(s, v, o, c, E, n, P, u, k)
  BY DEF View
<1>2. /\ th[t].at = "recv" /\ crush = "none" /\ UNCHANGED pool
      /\ s \in Sockets /\ s \notin pool /\ th[t] \in ThreadType
      /\ "recv" \in P /\ P \cap RecvAt = {"recv"}
      /\ th[t].then # "send_ack"
  BY <1>1, AtPlace DEF RecvDecide, At, Running, RecvAt, SendAt, EndAt, Roles, View
<1>3. /\ v \in SocketType /\ UsedOK(v, c, o.recv, o.send, E, P, u) /\ CachesOK(v, n + k)
      /\ OpsFit(v, o.recv, o.send) /\ o \in OpsType /\ c \in Callbacks /\ n \in Nat /\ u \in Nat
  BY <1>1, <1>2, Viewed
<1>len. Len(o.recv) \in Nat /\ Len(o.send) \in Nat
  BY <1>1, <1>2, Viewed
<1>4. th[t].n <= RecvFree(s) /\ ~(th[t].n > RecvFree(s)) /\ th[t].n \in Nat /\ RecvCap \in Nat
        /\ v.recv_used \in Nat
  <2>1. HandlersFit(th, v, s)
    BY <1>1, <1>2, UsedView DEF View
  <2> QED  BY <1>1, <1>2, <1>3, <2>1, IocpAssumption DEF HandlersFit, RecvFree, View, ThreadType, SocketType
<1>5. ASSUME th[t].kind = "fail" /\ IocpClose(t, s, "system", "idle") /\ UNCHANGED crush PROVE Inv'
  <2>1. IocpClose(t, th[t].sock, "system", "idle") /\ UNCHANGED <<pool, evt_queue, ops, cb>>
    BY <1>1, <1>5 DEF RecvDecide
  <2> QED  BY <1>2, <2>1, IocpCloseKeeps
<1>6. ASSUME th[t].kind # "fail" /\ sock[s].state # "ESTABLISH" /\ Done(t) /\ UNCHANGED <<sock, crush>>
        PROVE Inv'
  <2>1. PICK r : r = v
    OBVIOUS
  <2>2. r \in SocketType /\ SameBytes(v, r)
    BY <1>1, <1>2, <1>3, <1>6, <2>1 DEF SocketType, SameBytes, States
  <2>3. SlotStep(s, r, o, c)
    BY <1>1, <1>2, <1>6, <2>1, SlotStays DEF RecvDecide, View
  <2>5. QueueStep(s, E, n)
    <3>1. UNCHANGED <<evt_queue, pool>>
      BY <1>6 DEF RecvDecide
    <3> QED  BY <1>1, <1>2, <3>1, QueueStays DEF View
  <2>6. PICK Q : Q = P \ {"recv"}
    OBVIOUS
  <2>7. ThreadStep(s, Q, u, k) /\ HandlersFit(th', r, s)
    <3>1. /\ r.recv_used <= v.recv_used \/ th[t].at \in RecvAt
          /\ v.data_need_send - v.data_has_send <= r.data_need_send - r.data_has_send \/ th[t].at \in SendAt
          /\ UNCHANGED pool /\ th[t].at # "idle" /\ r \in SocketType
      BY <1>2, <1>3, <2>1, <2>2 DEF SocketType, RecvAt, SendAt
    <3>2. /\ Q = P \ {th[t].at} /\ Done(t) /\ (k = IF th[t].at \in CarryAt THEN 0 ELSE k)
          /\ ~Sends(th[t])
      BY <1>1, <1>2, <1>6, <2>6 DEF RecvDecide, CarryAt, Sends
    <3>3. PICK y, z : y = u /\ z = k
      OBVIOUS
    <3>4. ThreadStep(s, Q, y, z) /\ HandlersFit(th', r, s)
      BY ONLY Inv, t \in Threads, <1>1, <3>1, <3>2, <3>3, FinishingOn
    <3> QED  BY <3>3, <3>4
  <2>8. UsedOK(r, c, o.recv, o.send, E, Q, u)
    <3> USE <1>2, <1>3, <1>6, <2>1, <2>6 DEF UsedOK, SocketType, RecvAt, SendAt, EndAt, Requested, Opening
    <3>1. OpeningOK(r, c, o.send, E, Q)
      BY DEF OpeningOK
    <3>2. ReadingOK(r, o.recv, E, Q)
      BY DEF ReadingOK
    <3>3. SendingOK(r, o.send, Q, u)
      BY DEF SendingOK
    <3>4. EndingOK(r, c, o.send, E, Q)
      BY DEF EndingOK
    <3>5. HeardOK(r, c, o.recv, o.send, E, Q)
      BY DEF HeardOK
    <3> QED  BY <3>1, <3>2, <3>3, <3>4, <3>5
  <2>9. CachesOK(r, n + k) /\ OpsFit(r, o.recv, o.send)
    BY <1>3, <2>2, SameFits
  <2> QED  BY <1>2, <2>3, <2>5, <2>7, <2>8, <2>9, UsedSlot
<1>7. ASSUME th[t].kind = "end" /\ IocpClose(t, s, "ok", "idle") /\ UNCHANGED crush PROVE Inv'
  <2>1. IocpClose(t, th[t].sock, "ok", "idle") /\ UNCHANGED <<pool, evt_queue, ops, cb>>
    BY <1>1, <1>7 DEF RecvDecide
  <2> QED  BY <1>2, <2>1, IocpCloseKeeps
<1>8. ASSUME th[t].kind = "posted" /\ sock[s].state = "ESTABLISH" /\ GoTo(t, "recv_next")
        /\ UNCHANGED <<sock, crush>> PROVE Inv'
  <2>1. PICK r : r = v
    OBVIOUS
  <2>2. r \in SocketType /\ SameBytes(v, r)
    BY <1>1, <1>2, <1>3, <1>8, <2>1 DEF SocketType, SameBytes, States
  <2>3. SlotStep(s, r, o, c)
    BY <1>1, <1>2, <1>8, <2>1, SlotStays DEF RecvDecide, View
  <2>5. QueueStep(s, E, n)
    <3>1. UNCHANGED <<evt_queue, pool>>
      BY <1>8 DEF RecvDecide
    <3> QED  BY <1>1, <1>2, <3>1, QueueStays DEF View
  <2>6. PICK Q : Q = (P \ {"recv"}) \cup {"recv_next"}
    OBVIOUS
  <2>7. ThreadStep(s, Q, u, k) /\ HandlersFit(th', r, s)
    <3>1. /\ r.recv_used <= v.recv_used \/ th[t].at \in RecvAt
          /\ v.data_need_send - v.data_has_send <= r.data_need_send - r.data_has_send \/ th[t].at \in SendAt
          /\ UNCHANGED pool /\ th[t].at # "idle" /\ r \in SocketType
      BY <1>2, <1>3, <2>1, <2>2 DEF SocketType, RecvAt, SendAt
    <3>2. GoTo(t, "recv_next") /\ (th[t].then = "send_ack" => "recv_next" \in {"push_end", "send_ack"})
      BY <1>1, <1>2, <1>8 DEF RecvDecide
    <3>3. PICK l : l = k
      OBVIOUS
    <3>4. /\ Q = (P \ {th[t].at}) \cup ({"recv_next"} \cap Roles)
          /\ l = IF "recv_next" \in CarryAt THEN th[t].n ELSE IF th[t].at \in CarryAt THEN 0 ELSE k
          /\ \A R \in {RecvAt, SendAt, EndAt} : "recv_next" \in R => P \cap R \subseteq {th[t].at}
          /\ th[t].then # "send_ack" => (th[t].at \in SendAt \cup {"send_ack"} <=> "recv_next" \in SendAt \cup {"send_ack"})
      BY <1>2, <2>6, <3>3 DEF EndAt, SendAt, RecvAt, CarryAt, Roles
    <3>5. PICK label \in Labels \ {"idle", "recv", "send"} : label = "recv_next"
      BY DEF Labels, EndAt, SendAt, RecvAt
    <3>6. ThreadStep(s, Q, u, l) /\ HandlersFit(th', r, s)
      BY ONLY Inv, t \in Threads, <1>1, <3>1, <3>2, <3>4, <3>5, GoingOn
    <3> QED  BY <3>3, <3>6
  <2>8. UsedOK(r, c, o.recv, o.send, E, Q, u)
    <3> USE <1>2, <1>3, <1>8, <2>1, <2>6 DEF UsedOK, SocketType, RecvAt, SendAt, EndAt, Requested, Opening
    <3>1. OpeningOK(r, c, o.send, E, Q)
      BY DEF OpeningOK
    <3>2. ReadingOK(r, o.recv, E, Q)
      BY DEF ReadingOK
    <3>3. SendingOK(r, o.send, Q, u)
      BY DEF SendingOK
    <3>4. EndingOK(r, c, o.send, E, Q)
      BY DEF EndingOK
    <3>5. HeardOK(r, c, o.recv, o.send, E, Q)
      BY DEF HeardOK
    <3> QED  BY <3>1, <3>2, <3>3, <3>4, <3>5
  <2>9. CachesOK(r, n + k) /\ OpsFit(r, o.recv, o.send)
    BY <1>3, <2>2, SameFits
  <2> QED  BY <1>2, <2>3, <2>5, <2>7, <2>8, <2>9, UsedSlot
<1>9. ASSUME th[t].kind = "io" /\ sock[s].state = "ESTABLISH" /\ UNCHANGED crush
             /\ sock' = [sock EXCEPT ![s].recv_used = @ + th[t].n] /\ GoTo(t, "recv_push") PROVE Inv'
  <2>1. PICK r : r = [v EXCEPT !.recv_used = v.recv_used + th[t].n]
    OBVIOUS
  <2>2. r \in SocketType
    <3>1. v.recv_used + th[t].n \in Nat
      BY <1>3, <1>4 DEF SocketType
    <3> QED  BY <1>1, <1>2, <1>3, <1>9, <2>1, <3>1 DEF SocketType, SameBytes, States
  <2>3. SlotStep(s, r, o, c)
    <3>1. sock' = [sock EXCEPT ![s] = r] /\ UNCHANGED <<ops, cb, pool>>
      BY <1>1, <1>9, <2>1 DEF RecvDecide, View
    <3> QED  BY <1>1, <1>2, <2>2, <3>1, SlotChanges DEF View
  <2>5. QueueStep(s, E, n)
    <3>1. UNCHANGED <<evt_queue, pool>>
      BY <1>9 DEF RecvDecide
    <3> QED  BY <1>1, <1>2, <3>1, QueueStays DEF View
  <2>6. PICK Q : Q = (P \ {"recv"}) \cup {"recv_push"}
    OBVIOUS
  <2>7. ThreadStep(s, Q, u, th[t].n) /\ HandlersFit(th', r, s)
    <3>1. /\ r.recv_used <= v.recv_used \/ th[t].at \in RecvAt
          /\ v.data_need_send - v.data_has_send <= r.data_need_send - r.data_has_send \/ th[t].at \in SendAt
          /\ UNCHANGED pool /\ th[t].at # "idle" /\ r \in SocketType
      BY <1>2, <1>3, <2>1, <2>2 DEF SocketType, RecvAt, SendAt
    <3>2. GoTo(t, "recv_push") /\ (th[t].then = "send_ack" => "recv_push" \in {"push_end", "send_ack"})
      BY <1>1, <1>2, <1>9 DEF RecvDecide
    <3>3. PICK l : l = th[t].n
      OBVIOUS
    <3>4. /\ Q = (P \ {th[t].at}) \cup ({"recv_push"} \cap Roles)
          /\ l = IF "recv_push" \in CarryAt THEN th[t].n ELSE IF th[t].at \in CarryAt THEN 0 ELSE k
          /\ \A R \in {RecvAt, SendAt, EndAt} : "recv_push" \in R => P \cap R \subseteq {th[t].at}
          /\ th[t].then # "send_ack" => (th[t].at \in SendAt \cup {"send_ack"} <=> "recv_push" \in SendAt \cup {"send_ack"})
      BY <1>2, <2>6, <3>3 DEF EndAt, SendAt, RecvAt, CarryAt, Roles
    <3>5. PICK label \in Labels \ {"idle", "recv", "send"} : label = "recv_push"
      BY DEF Labels, EndAt, SendAt, RecvAt
    <3>6. ThreadStep(s, Q, u, l) /\ HandlersFit(th', r, s)
      BY ONLY Inv, t \in Threads, <1>1, <3>1, <3>2, <3>4, <3>5, GoingOn
    <3> QED  BY <3>3, <3>6
  <2>8. UsedOK(r, c, o.recv, o.send, E, Q, u)
    <3> USE <1>2, <1>3, <1>9, <2>1, <2>6 DEF UsedOK, SocketType, RecvAt, SendAt, EndAt, Requested, Opening
    <3>1. OpeningOK(r, c, o.send, E, Q)
      BY DEF OpeningOK
    <3>2. ReadingOK(r, o.recv, E, Q)
      BY DEF ReadingOK
    <3>3. SendingOK(r, o.send, Q, u)
      BY DEF SendingOK, Spent
    <3>4. EndingOK(r, c, o.send, E, Q)
      BY DEF EndingOK
    <3>5. HeardOK(r, c, o.recv, o.send, E, Q)
      BY DEF HeardOK
    <3> QED  BY <3>1, <3>2, <3>3, <3>4, <3>5
  <2>9. CachesOK(r, n + th[t].n) /\ OpsFit(r, o.recv, o.send)
    <3>1. k = 0 /\ th[t].n \in Nat /\ th[t].n <= RecvCap - v.recv_used /\ RecvCap \in Nat
      BY <1>1, <1>2, <1>4, CarriedNow, IocpAssumption DEF View, RecvAt, CarryAt, RecvFree
    <3>2. /\ r.recv_used = v.recv_used + th[t].n /\ r.data_has_recv = v.data_has_recv
          /\ r.data_need_send = v.data_need_send /\ r.data_has_send = v.data_has_send
          /\ r.try_close_send_count = v.try_close_send_count /\ r.state = v.state
          /\ v.recv_used \in Nat /\ v.data_has_recv \in Nat
      BY <1>3, <2>1 DEF SocketType
    <3>3. /\ v.recv_used <= RecvCap /\ v.data_has_recv + (n + 0) <= v.recv_used
          /\ v.state \in {"CONNECT", "ESTABLISH"} => v.data_has_recv + (n + 0) = v.recv_used
      BY <1>3, <3>1 DEF CachesOK
    <3>4. v.recv_used + th[t].n <= RecvCap
      BY <3>1, <3>2
    <3>5. PICK x \in Nat, y \in Nat, z \in Nat, w \in Nat : x = v.recv_used /\ y = th[t].n /\ z = n
            /\ w = v.data_has_recv
      BY <1>3, <3>1, <3>2
    <3>6. (w + (z + 0) <= x => w + (z + y) <= x + y) /\ (w + (z + 0) = x => w + (z + y) = x + y)
      BY ONLY <3>5
    <3>7. CachesOK(r, n + th[t].n)
      BY <1>3, <3>2, <3>3, <3>4, <3>5, <3>6 DEF CachesOK
    <3>8. o.recv = <<>>
      BY <1>2, <1>3, CarriedNow DEF UsedOK, ReadingOK, RecvAt
    <3> QED  BY <1>3, <3>2, <3>7, <3>8 DEF OpsFit
  <2> QED  BY <1>2, <2>3, <2>5, <2>7, <2>8, <2>9, UsedSlot
<1>10. \/ th[t].kind = "fail" /\ IocpClose(t, s, "system", "idle") /\ UNCHANGED crush
       \/ th[t].kind # "fail" /\ sock[s].state # "ESTABLISH" /\ Done(t) /\ UNCHANGED <<sock, crush>>
       \/ th[t].kind = "end" /\ IocpClose(t, s, "ok", "idle") /\ UNCHANGED crush
       \/ th[t].kind = "posted" /\ sock[s].state = "ESTABLISH" /\ GoTo(t, "recv_next")
            /\ UNCHANGED <<sock, crush>>
       \/ th[t].kind = "io" /\ sock[s].state = "ESTABLISH" /\ UNCHANGED crush
            /\ sock' = [sock EXCEPT ![s].recv_used = @ + th[t].n] /\ GoTo(t, "recv_push")
  BY <1>1, <1>2, <1>4 DEF RecvDecide
<1>11. Inv'
  BY <1>4, <1>5, <1>6, <1>7, <1>8, <1>9, <1>10
<1>12. crush' = "none"
  BY <1>2, <1>10
<1> QED  BY <1>11, <1>12 DEF Kept

(* The next receive is posted by the one handler that holds the token. *)
LEMMA RecvNextKeeps ==
  ASSUME Inv, NEW t \in Threads, RecvNext(t)
  PROVE  Kept
<1>1. PICK s, v, o, c, E, n, P, u, k : s = th[t].sock /\ View(s, v, o, c, E, n, P, u, k)
  BY DEF View
<1>2. /\ th[t].at = "recv_next" /\ crush = "none" /\ UNCHANGED pool
      /\ s \in Sockets /\ s \notin pool /\ th[t] \in ThreadType
      /\ "recv_next" \in P /\ P \cap RecvAt = {"recv_next"}
      /\ th[t].then # "send_ack"
  BY <1>1, AtPlace DEF RecvNext, At, Running, RecvAt, SendAt, EndAt, Roles, View
<1>3. /\ v \in SocketType /\ UsedOK(v, c, o.recv, o.send, E, P, u) /\ CachesOK(v, n + k)
      /\ OpsFit(v, o.recv, o.send) /\ o \in OpsType /\ c \in Callbacks /\ n \in Nat /\ u \in Nat
  BY <1>1, <1>2, Viewed
<1>len. Len(o.recv) \in Nat /\ Len(o.send) \in Nat
  BY <1>1, <1>2, Viewed
<1>4. ASSUME RecvFree(s) > 0 /\ sock' = [sock EXCEPT ![s].recv_req = @ + 1]
             /\ Post(s, "recv", "io", RecvFree(s)) /\ Done(t) PROVE Inv'
  <2>1. PICK r : r = [v EXCEPT !.recv_req = @ + 1]
    OBVIOUS
  <2>2. r \in SocketType /\ SameBytes(v, r)
    <3>1. v.recv_req + 1 \in Nat
      BY <1>3 DEF SocketType
    <3> QED  BY <1>1, <1>2, <1>3, <1>4, <2>1, <3>1 DEF SocketType, SameBytes, States
  <2>0. PICK x, p : x = [kind |-> "io", len |-> RecvFree(s)] /\ p = [recv |-> <<x>>, send |-> o.send]
    OBVIOUS
  <2>3. SlotStep(s, r, p, c) /\ p.recv = <<x>> /\ p.send = o.send /\ o.recv = <<>>
    <3>1. sock' = [sock EXCEPT ![s] = r] /\ UNCHANGED <<cb, pool>>
            /\ ops' = [ops EXCEPT ![s].recv = Append(@, x)]
      <4>1. sock' = [sock EXCEPT ![s] = r]
        BY ONLY <1>1, <1>4, <2>1 DEF View, PostSendReq
      <4>2. UNCHANGED <<cb, pool>>
        BY <1>4 DEF RecvNext
      <4>3. ops' = [ops EXCEPT ![s].recv = Append(@, x)]
        BY <1>4, <2>0 DEF Post, PostSendReq
      <4> QED  BY <4>1, <4>2, <4>3
    <3>2. o.recv = <<>>
      BY <1>2, <1>3 DEF UsedOK, ReadingOK, SendingOK, RecvAt, SendAt, OpsType
    <3>3. x \in OpType
      <4>1. RecvFree(s) = RecvCap - v.recv_used
        BY ONLY <1>1 DEF RecvFree, View
      <4>2. RecvCap - v.recv_used \in Nat
        <5>1. v.recv_used \in Nat
          BY ONLY <1>3 DEF SocketType
        <5>2. v.recv_used <= RecvCap
          BY ONLY <1>3 DEF CachesOK
        <5> QED  BY ONLY <5>1, <5>2, IocpAssumption
      <4> QED  BY ONLY <2>0, <4>1, <4>2 DEF OpType
    <3>4. cb' = [cb EXCEPT ![s] = c] /\ pool' \subseteq Sockets
            /\ (\A y \in Sockets : y # s => (y \in pool' <=> y \in pool))
      BY <1>1, <3>1, Parts DEF View, Types
    <3>5. o = ops[s]
      BY <1>1 DEF View
    <3> QED  BY <1>2, <1>3, <2>0, <2>2, <3>1, <3>2, <3>3, <3>4, <3>5, PostsRecv, PostsSend
  <2>r. PICK rq, sq : rq = p.recv /\ sq = p.send
    OBVIOUS
  <2>s. rq # <<>> /\ Len(rq) = 1 /\ o.recv = <<>> /\ sq = o.send
    BY <2>3, <2>r
  <2>5. QueueStep(s, E, n)
    <3>1. UNCHANGED <<evt_queue, pool>>
      BY <1>4 DEF RecvNext
    <3> QED  BY <1>1, <1>2, <3>1, QueueStays DEF View
  <2>6. PICK Q : Q = P \ {"recv_next"}
    OBVIOUS
  <2>7. ThreadStep(s, Q, u, k) /\ HandlersFit(th', r, s)
    <3>1. /\ r.recv_used <= v.recv_used \/ th[t].at \in RecvAt
          /\ v.data_need_send - v.data_has_send <= r.data_need_send - r.data_has_send \/ th[t].at \in SendAt
          /\ UNCHANGED pool /\ th[t].at # "idle" /\ r \in SocketType
      BY <1>2, <1>3, <2>1, <2>2 DEF SocketType, RecvAt, SendAt
    <3>2. /\ Q = P \ {th[t].at} /\ Done(t) /\ (k = IF th[t].at \in CarryAt THEN 0 ELSE k)
          /\ ~Sends(th[t])
      BY <1>1, <1>2, <1>4, <2>6 DEF RecvNext, CarryAt, Sends
    <3>3. PICK y, z : y = u /\ z = k
      OBVIOUS
    <3>4. ThreadStep(s, Q, y, z) /\ HandlersFit(th', r, s)
      BY ONLY Inv, t \in Threads, <1>1, <3>1, <3>2, <3>3, FinishingOn
    <3> QED  BY <3>3, <3>4
  <2>8. UsedOK(r, c, rq, sq, E, Q, u)
    <3> USE <1>2, <1>3, <1>len, <1>4, <2>1, <2>s, <2>6 DEF UsedOK, SocketType, RecvAt, SendAt, EndAt,
          Requested, Opening
    <3>1. OpeningOK(r, c, sq, E, Q)
      BY DEF OpeningOK
    <3>2. ReadingOK(r, rq, E, Q)
      <4>1. /\ r.recv_req = v.recv_req + 1 /\ r.recv_ack = v.recv_ack
            /\ v.recv_req \in Nat /\ v.recv_ack \in Nat
        OBVIOUS
      <4>2. v.recv_req - v.recv_ack = 0 /\ Len(rq) = 1 /\ rq # <<>>
        BY DEF ReadingOK
      <4>3. r.recv_req - r.recv_ack = 1
        BY ONLY <1>3, <4>1, <4>2
      <4>4. r.recv_req - r.recv_ack = Len(rq)
        BY ONLY <4>2, <4>3
      <4>5. /\ Q \cap RecvAt = {} /\ "RECV_ACTIVE" \notin E /\ (r.state # "CONNECT" => r.recv_op = "RECV")
        BY DEF ReadingOK
      <4> QED  BY <4>2, <4>4, <4>5 DEF ReadingOK
    <3>3. SendingOK(r, sq, Q, u)
      BY DEF SendingOK, Spent
    <3>4. EndingOK(r, c, sq, E, Q)
      BY DEF EndingOK
    <3>5. HeardOK(r, c, rq, sq, E, Q)
      BY DEF HeardOK
    <3> QED  BY <3>1, <3>2, <3>3, <3>4, <3>5
  <2>9. CachesOK(r, n + k) /\ OpsFit(r, p.recv, p.send)
    <3>1. CachesOK(r, n + k) /\ OpsFit(r, o.recv, o.send)
      BY <1>3, <2>2, SameFits
    <3>3. OpsFit(r, p.recv, p.send)
      <4>1. p.recv = <<x>> /\ DOMAIN <<x>> = {1} /\ <<x>>[1] = x /\ p.send = o.send
        BY <2>0, <2>3
      <4>2. x.len <= RecvCap - r.recv_used
        <5>1. x.len = RecvCap - v.recv_used
          BY <1>1, <2>0 DEF RecvFree, SendUsed, View
        <5>2. r.recv_used = v.recv_used /\ r.data_need_send = v.data_need_send
                /\ r.data_has_send = v.data_has_send
          BY <2>2 DEF SameBytes
        <5>3. /\ v.recv_used \in Nat /\ v.data_need_send \in Nat /\ v.data_has_send \in Nat /\ RecvCap \in Nat
              /\ v.recv_used <= RecvCap /\ v.data_has_send <= v.data_need_send
          BY <1>3, IocpAssumption DEF SocketType, CachesOK
        <5> QED  BY <5>1, <5>2, <5>3
      <4>3. \A i \in DOMAIN p.recv : p.recv[i].len <= RecvCap - r.recv_used
        BY <4>1, <4>2
      <4> QED  BY <3>1, <4>1, <4>3 DEF OpsFit
    <3> QED  BY <3>1, <3>3
  <2> QED  BY <1>2, <2>3, <2>5, <2>7, <2>8, <2>9, <2>r, UsedSlot
<1>5. ASSUME IocpClose(t, s, "system", "idle") /\ UNCHANGED <<ops, peer>> PROVE Inv'
  <2>1. IocpClose(t, th[t].sock, "system", "idle") /\ UNCHANGED <<pool, evt_queue, ops, cb>>
    BY <1>1, <1>5 DEF RecvNext
  <2> QED  BY <1>2, <2>1, IocpCloseKeeps
<1>6. ASSUME sock[s].state = "ESTABLISH" /\ UNCHANGED <<sock, ops, peer>> /\ GoTo(t, "recv_active") PROVE Inv'
  <2>1. PICK r : r = v
    OBVIOUS
  <2>2. r \in SocketType /\ SameBytes(v, r)
    BY <1>1, <1>2, <1>3, <1>6, <2>1 DEF SocketType, SameBytes, States
  <2>3. SlotStep(s, r, o, c)
    BY <1>1, <1>2, <1>6, <2>1, SlotStays DEF RecvNext, View
  <2>5. QueueStep(s, E, n)
    <3>1. UNCHANGED <<evt_queue, pool>>
      BY <1>6 DEF RecvNext
    <3> QED  BY <1>1, <1>2, <3>1, QueueStays DEF View
  <2>6. PICK Q : Q = (P \ {"recv_next"}) \cup {"recv_active"}
    OBVIOUS
  <2>7. ThreadStep(s, Q, u, k) /\ HandlersFit(th', r, s)
    <3>1. /\ r.recv_used <= v.recv_used \/ th[t].at \in RecvAt
          /\ v.data_need_send - v.data_has_send <= r.data_need_send - r.data_has_send \/ th[t].at \in SendAt
          /\ UNCHANGED pool /\ th[t].at # "idle" /\ r \in SocketType
      BY <1>2, <1>3, <2>1, <2>2 DEF SocketType, RecvAt, SendAt
    <3>2. GoTo(t, "recv_active") /\ (th[t].then = "send_ack" => "recv_active" \in {"push_end", "send_ack"})
      BY <1>1, <1>2, <1>6 DEF RecvNext
    <3>3. PICK l : l = k
      OBVIOUS
    <3>4. /\ Q = (P \ {th[t].at}) \cup ({"recv_active"} \cap Roles)
          /\ l = IF "recv_active" \in CarryAt THEN th[t].n ELSE IF th[t].at \in CarryAt THEN 0 ELSE k
          /\ \A R \in {RecvAt, SendAt, EndAt} : "recv_active" \in R => P \cap R \subseteq {th[t].at}
          /\ th[t].then # "send_ack" => (th[t].at \in SendAt \cup {"send_ack"} <=> "recv_active" \in SendAt \cup {"send_ack"})
      BY <1>2, <2>6, <3>3 DEF EndAt, SendAt, RecvAt, CarryAt, Roles
    <3>5. PICK label \in Labels \ {"idle", "recv", "send"} : label = "recv_active"
      BY DEF Labels, EndAt, SendAt, RecvAt
    <3>6. ThreadStep(s, Q, u, l) /\ HandlersFit(th', r, s)
      BY ONLY Inv, t \in Threads, <1>1, <3>1, <3>2, <3>4, <3>5, GoingOn
    <3> QED  BY <3>3, <3>6
  <2>8. UsedOK(r, c, o.recv, o.send, E, Q, u)
    <3> USE <1>2, <1>3, <1>6, <2>1, <2>6 DEF UsedOK, SocketType, RecvAt, SendAt, EndAt, Requested, Opening
    <3>1. OpeningOK(r, c, o.send, E, Q)
      BY DEF OpeningOK
    <3>2. ReadingOK(r, o.recv, E, Q)
      BY DEF ReadingOK
    <3>3. SendingOK(r, o.send, Q, u)
      BY DEF SendingOK
    <3>4. EndingOK(r, c, o.send, E, Q)
      BY DEF EndingOK
    <3>5. HeardOK(r, c, o.recv, o.send, E, Q)
      BY DEF HeardOK
    <3> QED  BY <3>1, <3>2, <3>3, <3>4, <3>5
  <2>9. CachesOK(r, n + k) /\ OpsFit(r, o.recv, o.send)
    BY <1>3, <2>2, SameFits
  <2> QED  BY <1>2, <2>3, <2>5, <2>7, <2>8, <2>9, UsedSlot
<1>7. ASSUME sock[s].state # "ESTABLISH" /\ UNCHANGED <<sock, ops, peer>> /\ Done(t) PROVE Inv'
  <2>1. PICK r : r = v
    OBVIOUS
  <2>2. r \in SocketType /\ SameBytes(v, r)
    BY <1>1, <1>2, <1>3, <1>7, <2>1 DEF SocketType, SameBytes, States
  <2>3. SlotStep(s, r, o, c)
    BY <1>1, <1>2, <1>7, <2>1, SlotStays DEF RecvNext, View
  <2>5. QueueStep(s, E, n)
    <3>1. UNCHANGED <<evt_queue, pool>>
      BY <1>7 DEF RecvNext
    <3> QED  BY <1>1, <1>2, <3>1, QueueStays DEF View
  <2>6. PICK Q : Q = P \ {"recv_next"}
    OBVIOUS
  <2>7. ThreadStep(s, Q, u, k) /\ HandlersFit(th', r, s)
    <3>1. /\ r.recv_used <= v.recv_used \/ th[t].at \in RecvAt
          /\ v.data_need_send - v.data_has_send <= r.data_need_send - r.data_has_send \/ th[t].at \in SendAt
          /\ UNCHANGED pool /\ th[t].at # "idle" /\ r \in SocketType
      BY <1>2, <1>3, <2>1, <2>2 DEF SocketType, RecvAt, SendAt
    <3>2. /\ Q = P \ {th[t].at} /\ Done(t) /\ (k = IF th[t].at \in CarryAt THEN 0 ELSE k)
          /\ ~Sends(th[t])
      BY <1>1, <1>2, <1>7, <2>6 DEF RecvNext, CarryAt, Sends
    <3>3. PICK y, z : y = u /\ z = k
      OBVIOUS
    <3>4. ThreadStep(s, Q, y, z) /\ HandlersFit(th', r, s)
      BY ONLY Inv, t \in Threads, <1>1, <3>1, <3>2, <3>3, FinishingOn
    <3> QED  BY <3>3, <3>4
  <2>8. UsedOK(r, c, o.recv, o.send, E, Q, u)
    <3> USE <1>2, <1>3, <1>7, <2>1, <2>6 DEF UsedOK, SocketType, RecvAt, SendAt, EndAt, Requested, Opening
    <3>1. OpeningOK(r, c, o.send, E, Q)
      BY DEF OpeningOK
    <3>2. ReadingOK(r, o.recv, E, Q)
      BY DEF ReadingOK
    <3>3. SendingOK(r, o.send, Q, u)
      BY DEF SendingOK
    <3>4. EndingOK(r, c, o.send, E, Q)
      BY DEF EndingOK
    <3>5. HeardOK(r, c, o.recv, o.send, E, Q)
      BY DEF HeardOK
    <3> QED  BY <3>1, <3>2, <3>3, <3>4, <3>5
  <2>9. CachesOK(r, n + k) /\ OpsFit(r, o.recv, o.send)
    BY <1>3, <2>2, SameFits
  <2> QED  BY <1>2, <2>3, <2>5, <2>7, <2>8, <2>9, UsedSlot
<1>8. \/ RecvFree(s) > 0 /\ sock' = [sock EXCEPT ![s].recv_req = @ + 1]
           /\ Post(s, "recv", "io", RecvFree(s)) /\ Done(t)
      \/ IocpClose(t, s, "system", "idle") /\ UNCHANGED <<ops, peer>>
      \/ sock[s].state = "ESTABLISH" /\ UNCHANGED <<sock, ops, peer>> /\ GoTo(t, "recv_active")
      \/ sock[s].state # "ESTABLISH" /\ UNCHANGED <<sock, ops, peer>> /\ Done(t)
  BY <1>1, <1>2 DEF RecvNext
<1>9. Inv'
  BY <1>4, <1>5, <1>6, <1>7, <1>8
<1>10. crush' = "none"
  BY <1>2, <1>8 DEF RecvNext
<1> QED  BY <1>9, <1>10 DEF Kept

(* What was sent was in the cache, so the assertion on the send cache holds. *)
LEMMA SendDecideKeeps ==
  ASSUME Inv, NEW t \in Threads, SendDecide(t)
  PROVE  Kept
<1>1. PICK s, v, o, c, E, n, P, u, k : s = th[t].sock /\ View(s, v, o, c, E, n, P, u, k)
  BY DEF View
<1>2. /\ th[t].at = "send" /\ crush = "none" /\ UNCHANGED pool
      /\ s \in Sockets /\ s \notin pool /\ th[t] \in ThreadType
      /\ "send" \in P /\ P \cap SendAt = {"send"}
      /\ th[t].then # "send_ack"
  BY <1>1, AtPlace DEF SendDecide, At, Running, RecvAt, SendAt, EndAt, Roles, View
<1>3. /\ v \in SocketType /\ UsedOK(v, c, o.recv, o.send, E, P, u) /\ CachesOK(v, n + k)
      /\ OpsFit(v, o.recv, o.send) /\ o \in OpsType /\ c \in Callbacks /\ n \in Nat /\ u \in Nat
  BY <1>1, <1>2, Viewed
<1>len. Len(o.recv) \in Nat /\ Len(o.send) \in Nat
  BY <1>1, <1>2, Viewed
<1>4. th[t].n <= SendUsed(s) /\ ~(th[t].n > SendUsed(s)) /\ th[t].n \in Nat
  <2>1. HandlersFit(th, v, s)
    BY <1>1, <1>2, UsedView DEF View
  <2> QED  BY <1>1, <1>2, <1>3, <2>1 DEF HandlersFit, SendUsed, View, ThreadType, SocketType
<1>5. ASSUME IocpClose(t, s, "system", "send_ack") /\ UNCHANGED <<peer, crush>> PROVE Inv'
  <2>1. IocpClose(t, th[t].sock, "system", "send_ack") /\ UNCHANGED <<pool, evt_queue, ops, cb>>
    BY <1>1, <1>5 DEF SendDecide
  <2> QED  BY <1>2, <2>1, IocpCloseKeeps
<1>6. ASSUME GoTo(t, "send_ack") /\ UNCHANGED <<sock, peer, crush>> PROVE Inv'
  <2>1. PICK r : r = v
    OBVIOUS
  <2>2. r \in SocketType /\ SameBytes(v, r)
    BY <1>1, <1>2, <1>3, <1>6, <2>1 DEF SocketType, SameBytes, States
  <2>3. SlotStep(s, r, o, c)
    BY <1>1, <1>2, <1>6, <2>1, SlotStays DEF SendDecide, View
  <2>5. QueueStep(s, E, n)
    <3>1. UNCHANGED <<evt_queue, pool>>
      BY <1>6 DEF SendDecide
    <3> QED  BY <1>1, <1>2, <3>1, QueueStays DEF View
  <2>6. PICK Q : Q = P \ {"send"}
    OBVIOUS
  <2>7. ThreadStep(s, Q, u, k) /\ HandlersFit(th', r, s)
    <3>1. /\ r.recv_used <= v.recv_used \/ th[t].at \in RecvAt
          /\ v.data_need_send - v.data_has_send <= r.data_need_send - r.data_has_send \/ th[t].at \in SendAt
          /\ UNCHANGED pool /\ th[t].at # "idle" /\ r \in SocketType
      BY <1>2, <1>3, <2>1, <2>2 DEF SocketType, RecvAt, SendAt
    <3>2. GoTo(t, "send_ack") /\ (th[t].then = "send_ack" => "send_ack" \in {"push_end", "send_ack"})
      BY <1>1, <1>2, <1>6 DEF SendDecide
    <3>3. PICK l : l = k
      OBVIOUS
    <3>4. /\ Q = (P \ {th[t].at}) \cup ({"send_ack"} \cap Roles)
          /\ l = IF "send_ack" \in CarryAt THEN th[t].n ELSE IF th[t].at \in CarryAt THEN 0 ELSE k
          /\ \A R \in {RecvAt, SendAt, EndAt} : "send_ack" \in R => P \cap R \subseteq {th[t].at}
          /\ th[t].then # "send_ack" => (th[t].at \in SendAt \cup {"send_ack"} <=> "send_ack" \in SendAt \cup {"send_ack"})
      BY <1>2, <2>6, <3>3 DEF EndAt, SendAt, RecvAt, CarryAt, Roles
    <3>5. PICK label \in Labels \ {"idle", "recv", "send"} : label = "send_ack"
      BY DEF Labels, EndAt, SendAt, RecvAt
    <3>6. ThreadStep(s, Q, u, l) /\ HandlersFit(th', r, s)
      BY ONLY Inv, t \in Threads, <1>1, <3>1, <3>2, <3>4, <3>5, GoingOn
    <3> QED  BY <3>3, <3>6
  <2>8. UsedOK(r, c, o.recv, o.send, E, Q, u)
    <3> USE <1>2, <1>3, <1>6, <2>1, <2>6 DEF UsedOK, SocketType, RecvAt, SendAt, EndAt, Requested, Opening
    <3>1. OpeningOK(r, c, o.send, E, Q)
      BY DEF OpeningOK
    <3>2. ReadingOK(r, o.recv, E, Q)
      BY DEF ReadingOK
    <3>3. SendingOK(r, o.send, Q, u)
      BY DEF SendingOK
    <3>4. EndingOK(r, c, o.send, E, Q)
      BY DEF EndingOK
    <3>5. HeardOK(r, c, o.recv, o.send, E, Q)
      BY DEF HeardOK
    <3> QED  BY <3>1, <3>2, <3>3, <3>4, <3>5
  <2>9. CachesOK(r, n + k) /\ OpsFit(r, o.recv, o.send)
    BY <1>3, <2>2, SameFits
  <2> QED  BY <1>2, <2>3, <2>5, <2>7, <2>8, <2>9, UsedSlot
<1>7. ASSUME GoTo(t, "send_next") /\ UNCHANGED <<sock, peer, crush>> PROVE Inv'
  <2>1. PICK r : r = v
    OBVIOUS
  <2>2. r \in SocketType /\ SameBytes(v, r)
    BY <1>1, <1>2, <1>3, <1>7, <2>1 DEF SocketType, SameBytes, States
  <2>3. SlotStep(s, r, o, c)
    BY <1>1, <1>2, <1>7, <2>1, SlotStays DEF SendDecide, View
  <2>5. QueueStep(s, E, n)
    <3>1. UNCHANGED <<evt_queue, pool>>
      BY <1>7 DEF SendDecide
    <3> QED  BY <1>1, <1>2, <3>1, QueueStays DEF View
  <2>6. PICK Q : Q = (P \ {"send"}) \cup {"send_next"}
    OBVIOUS
  <2>7. ThreadStep(s, Q, u, k) /\ HandlersFit(th', r, s)
    <3>1. /\ r.recv_used <= v.recv_used \/ th[t].at \in RecvAt
          /\ v.data_need_send - v.data_has_send <= r.data_need_send - r.data_has_send \/ th[t].at \in SendAt
          /\ UNCHANGED pool /\ th[t].at # "idle" /\ r \in SocketType
      BY <1>2, <1>3, <2>1, <2>2 DEF SocketType, RecvAt, SendAt
    <3>2. GoTo(t, "send_next") /\ (th[t].then = "send_ack" => "send_next" \in {"push_end", "send_ack"})
      BY <1>1, <1>2, <1>7 DEF SendDecide
    <3>3. PICK l : l = k
      OBVIOUS
    <3>4. /\ Q = (P \ {th[t].at}) \cup ({"send_next"} \cap Roles)
          /\ l = IF "send_next" \in CarryAt THEN th[t].n ELSE IF th[t].at \in CarryAt THEN 0 ELSE k
          /\ \A R \in {RecvAt, SendAt, EndAt} : "send_next" \in R => P \cap R \subseteq {th[t].at}
          /\ th[t].then # "send_ack" => (th[t].at \in SendAt \cup {"send_ack"} <=> "send_next" \in SendAt \cup {"send_ack"})
      BY <1>2, <2>6, <3>3 DEF EndAt, SendAt, RecvAt, CarryAt, Roles
    <3>5. PICK label \in Labels \ {"idle", "recv", "send"} : label = "send_next"
      BY DEF Labels, EndAt, SendAt, RecvAt
    <3>6. ThreadStep(s, Q, u, l) /\ HandlersFit(th', r, s)
      BY ONLY Inv, t \in Threads, <1>1, <3>1, <3>2, <3>4, <3>5, GoingOn
    <3> QED  BY <3>3, <3>6
  <2>8. UsedOK(r, c, o.recv, o.send, E, Q, u)
    <3> USE <1>2, <1>3, <1>7, <2>1, <2>6 DEF UsedOK, SocketType, RecvAt, SendAt, EndAt, Requested, Opening
    <3>1. OpeningOK(r, c, o.send, E, Q)
      BY DEF OpeningOK
    <3>2. ReadingOK(r, o.recv, E, Q)
      BY DEF ReadingOK
    <3>3. SendingOK(r, o.send, Q, u)
      BY DEF SendingOK
    <3>4. EndingOK(r, c, o.send, E, Q)
      BY DEF EndingOK
    <3>5. HeardOK(r, c, o.recv, o.send, E, Q)
      BY DEF HeardOK
    <3> QED  BY <3>1, <3>2, <3>3, <3>4, <3>5
  <2>9. CachesOK(r, n + k) /\ OpsFit(r, o.recv, o.send)
    BY <1>3, <2>2, SameFits
  <2> QED  BY <1>2, <2>3, <2>5, <2>7, <2>8, <2>9, UsedSlot
<1>8. ASSUME th[t].n > 0 /\ UNCHANGED crush
             /\ sock' = [sock EXCEPT ![s].data_has_send = @ + th[t].n] /\ GoTo(t, "send_next") PROVE Inv'
  <2>1. PICK r : r = [v EXCEPT !.data_has_send = v.data_has_send + th[t].n]
    OBVIOUS
  <2>2. r \in SocketType
    <3>1. v.data_has_send + th[t].n \in Nat
      BY <1>3, <1>4 DEF SocketType
    <3> QED  BY <1>1, <1>2, <1>3, <1>8, <2>1, <3>1 DEF SocketType, SameBytes, States
  <2>3. SlotStep(s, r, o, c)
    <3>1. sock' = [sock EXCEPT ![s] = r] /\ UNCHANGED <<ops, cb, pool>>
      BY <1>1, <1>8, <2>1 DEF SendDecide, View
    <3> QED  BY <1>1, <1>2, <2>2, <3>1, SlotChanges DEF View
  <2>5. QueueStep(s, E, n)
    <3>1. UNCHANGED <<evt_queue, pool>>
      BY <1>8 DEF SendDecide
    <3> QED  BY <1>1, <1>2, <3>1, QueueStays DEF View
  <2>6. PICK Q : Q = (P \ {"send"}) \cup {"send_next"}
    OBVIOUS
  <2>7. ThreadStep(s, Q, u, k) /\ HandlersFit(th', r, s)
    <3>1. /\ r.recv_used <= v.recv_used \/ th[t].at \in RecvAt
          /\ v.data_need_send - v.data_has_send <= r.data_need_send - r.data_has_send \/ th[t].at \in SendAt
          /\ UNCHANGED pool /\ th[t].at # "idle" /\ r \in SocketType
      BY <1>2, <1>3, <2>1, <2>2 DEF SocketType, RecvAt, SendAt
    <3>2. GoTo(t, "send_next") /\ (th[t].then = "send_ack" => "send_next" \in {"push_end", "send_ack"})
      BY <1>1, <1>2, <1>8 DEF SendDecide
    <3>3. PICK l : l = k
      OBVIOUS
    <3>4. /\ Q = (P \ {th[t].at}) \cup ({"send_next"} \cap Roles)
          /\ l = IF "send_next" \in CarryAt THEN th[t].n ELSE IF th[t].at \in CarryAt THEN 0 ELSE k
          /\ \A R \in {RecvAt, SendAt, EndAt} : "send_next" \in R => P \cap R \subseteq {th[t].at}
          /\ th[t].then # "send_ack" => (th[t].at \in SendAt \cup {"send_ack"} <=> "send_next" \in SendAt \cup {"send_ack"})
      BY <1>2, <2>6, <3>3 DEF EndAt, SendAt, RecvAt, CarryAt, Roles
    <3>5. PICK label \in Labels \ {"idle", "recv", "send"} : label = "send_next"
      BY DEF Labels, EndAt, SendAt, RecvAt
    <3>6. ThreadStep(s, Q, u, l) /\ HandlersFit(th', r, s)
      BY ONLY Inv, t \in Threads, <1>1, <3>1, <3>2, <3>4, <3>5, GoingOn
    <3> QED  BY <3>3, <3>6
  <2>8. UsedOK(r, c, o.recv, o.send, E, Q, u)
    <3> USE <1>2, <1>3, <1>8, <2>1, <2>6 DEF UsedOK, SocketType, RecvAt, SendAt, EndAt, Requested, Opening
    <3>1. OpeningOK(r, c, o.send, E, Q)
      BY DEF OpeningOK
    <3>2. ReadingOK(r, o.recv, E, Q)
      BY DEF ReadingOK
    <3>3. SendingOK(r, o.send, Q, u)
      BY DEF SendingOK
    <3>4. EndingOK(r, c, o.send, E, Q)
      BY DEF EndingOK
    <3>5. HeardOK(r, c, o.recv, o.send, E, Q)
      BY DEF HeardOK
    <3> QED  BY <3>1, <3>2, <3>3, <3>4, <3>5
  <2>9. CachesOK(r, n + k) /\ OpsFit(r, o.recv, o.send)
    <3>1. th[t].n \in Nat /\ th[t].n <= v.data_need_send - v.data_has_send
      BY <1>1, <1>4 DEF View, SendUsed
    <3>2. /\ r.recv_used = v.recv_used /\ r.data_has_recv = v.data_has_recv
          /\ r.data_need_send = v.data_need_send /\ r.data_has_send = v.data_has_send + th[t].n
          /\ r.try_close_send_count = v.try_close_send_count /\ r.state = v.state
          /\ v.data_need_send \in Nat /\ v.data_has_send \in Nat
      BY <1>3, <2>1 DEF SocketType
    <3>3. v.data_has_send <= v.data_need_send /\ v.data_need_send - v.data_has_send <= SendCap
            /\ SendCap \in Nat
      BY <1>3, IocpAssumption DEF CachesOK
    <3>4. PICK x \in Nat, y \in Nat, z \in Nat : x = v.data_need_send /\ y = v.data_has_send /\ z = th[t].n
      BY <3>1, <3>2
    <3>5. y + z <= x /\ x - (y + z) <= SendCap
      BY ONLY <3>1, <3>3, <3>4
    <3>6. CachesOK(r, n + k)
      BY <1>3, <3>2, <3>4, <3>5 DEF CachesOK
    <3>7. o.send = <<>>
      BY <1>2, <1>3 DEF UsedOK, SendingOK, SendAt
    <3> QED  BY <1>3, <3>2, <3>6, <3>7 DEF OpsFit
  <2> QED  BY <1>2, <2>3, <2>5, <2>7, <2>8, <2>9, UsedSlot
<1>9. \/ IocpClose(t, s, "system", "send_ack") /\ UNCHANGED <<peer, crush>>
      \/ GoTo(t, "send_ack") /\ UNCHANGED <<sock, peer, crush>>
      \/ GoTo(t, "send_next") /\ UNCHANGED <<sock, peer, crush>>
      \/ th[t].n > 0 /\ UNCHANGED crush /\ sock' = [sock EXCEPT ![s].data_has_send = @ + th[t].n]
           /\ GoTo(t, "send_next")
  BY <1>1, <1>2, <1>4 DEF SendDecide
<1>10. Inv'
  BY <1>4, <1>5, <1>6, <1>7, <1>8, <1>9
<1>11. crush' = "none"
  BY <1>2, <1>9
<1> QED  BY <1>10, <1>11 DEF Kept

(* The next send is posted before this one is acknowledged. *)
LEMMA SendNextKeeps ==
  ASSUME Inv, NEW t \in Threads, SendNext(t)
  PROVE  Kept
<1>1. PICK s, v, o, c, E, n, P, u, k : s = th[t].sock /\ View(s, v, o, c, E, n, P, u, k)
  BY DEF View
<1>2. /\ th[t].at = "send_next" /\ crush = "none" /\ UNCHANGED pool
      /\ s \in Sockets /\ s \notin pool /\ th[t] \in ThreadType
      /\ "send_next" \in P /\ P \cap SendAt = {"send_next"}
      /\ th[t].then # "send_ack"
  BY <1>1, AtPlace DEF SendNext, At, Running, RecvAt, SendAt, EndAt, Roles, View
<1>3. /\ v \in SocketType /\ UsedOK(v, c, o.recv, o.send, E, P, u) /\ CachesOK(v, n + k)
      /\ OpsFit(v, o.recv, o.send) /\ o \in OpsType /\ c \in Callbacks /\ n \in Nat /\ u \in Nat
  BY <1>1, <1>2, Viewed
<1>len. Len(o.recv) \in Nat /\ Len(o.send) \in Nat
  BY <1>1, <1>2, Viewed
<1>4. ASSUME GoTo(t, "send_ack") /\ UNCHANGED <<sock, ops, peer>> PROVE Inv'
  <2>1. PICK r : r = v
    OBVIOUS
  <2>2. r \in SocketType /\ SameBytes(v, r)
    BY <1>1, <1>2, <1>3, <1>4, <2>1 DEF SocketType, SameBytes, States
  <2>3. SlotStep(s, r, o, c)
    BY <1>1, <1>2, <1>4, <2>1, SlotStays DEF SendNext, View
  <2>5. QueueStep(s, E, n)
    <3>1. UNCHANGED <<evt_queue, pool>>
      BY <1>4 DEF SendNext
    <3> QED  BY <1>1, <1>2, <3>1, QueueStays DEF View
  <2>6. PICK Q : Q = P \ {"send_next"}
    OBVIOUS
  <2>7. ThreadStep(s, Q, u, k) /\ HandlersFit(th', r, s)
    <3>1. /\ r.recv_used <= v.recv_used \/ th[t].at \in RecvAt
          /\ v.data_need_send - v.data_has_send <= r.data_need_send - r.data_has_send \/ th[t].at \in SendAt
          /\ UNCHANGED pool /\ th[t].at # "idle" /\ r \in SocketType
      BY <1>2, <1>3, <2>1, <2>2 DEF SocketType, RecvAt, SendAt
    <3>2. GoTo(t, "send_ack") /\ (th[t].then = "send_ack" => "send_ack" \in {"push_end", "send_ack"})
      BY <1>1, <1>2, <1>4 DEF SendNext
    <3>3. PICK l : l = k
      OBVIOUS
    <3>4. /\ Q = (P \ {th[t].at}) \cup ({"send_ack"} \cap Roles)
          /\ l = IF "send_ack" \in CarryAt THEN th[t].n ELSE IF th[t].at \in CarryAt THEN 0 ELSE k
          /\ \A R \in {RecvAt, SendAt, EndAt} : "send_ack" \in R => P \cap R \subseteq {th[t].at}
          /\ th[t].then # "send_ack" => (th[t].at \in SendAt \cup {"send_ack"} <=> "send_ack" \in SendAt \cup {"send_ack"})
      BY <1>2, <2>6, <3>3 DEF EndAt, SendAt, RecvAt, CarryAt, Roles
    <3>5. PICK label \in Labels \ {"idle", "recv", "send"} : label = "send_ack"
      BY DEF Labels, EndAt, SendAt, RecvAt
    <3>6. ThreadStep(s, Q, u, l) /\ HandlersFit(th', r, s)
      BY ONLY Inv, t \in Threads, <1>1, <3>1, <3>2, <3>4, <3>5, GoingOn
    <3> QED  BY <3>3, <3>6
  <2>8. UsedOK(r, c, o.recv, o.send, E, Q, u)
    <3> USE <1>2, <1>3, <1>4, <2>1, <2>6 DEF UsedOK, SocketType, RecvAt, SendAt, EndAt, Requested, Opening
    <3>1. OpeningOK(r, c, o.send, E, Q)
      BY DEF OpeningOK
    <3>2. ReadingOK(r, o.recv, E, Q)
      BY DEF ReadingOK
    <3>3. SendingOK(r, o.send, Q, u)
      BY DEF SendingOK
    <3>4. EndingOK(r, c, o.send, E, Q)
      BY DEF EndingOK
    <3>5. HeardOK(r, c, o.recv, o.send, E, Q)
      BY DEF HeardOK
    <3> QED  BY <3>1, <3>2, <3>3, <3>4, <3>5
  <2>9. CachesOK(r, n + k) /\ OpsFit(r, o.recv, o.send)
    BY <1>3, <2>2, SameFits
  <2> QED  BY <1>2, <2>3, <2>5, <2>7, <2>8, <2>9, UsedSlot
<1>5. ASSUME SendUsed(s) > 0 /\ sock' = [sock EXCEPT ![s].send_req = @ + 1]
             /\ Post(s, "send", "io", SendUsed(s)) /\ GoTo(t, "send_ack") PROVE Inv'
  <2>1. PICK r : r = [v EXCEPT !.send_req = @ + 1]
    OBVIOUS
  <2>2. r \in SocketType /\ SameBytes(v, r)
    <3>1. v.send_req + 1 \in Nat
      BY <1>3 DEF SocketType
    <3> QED  BY <1>1, <1>2, <1>3, <1>5, <2>1, <3>1 DEF SocketType, SameBytes, States
  <2>0. PICK x, p : x = [kind |-> "io", len |-> SendUsed(s)] /\ p = [recv |-> o.recv, send |-> <<x>>]
    OBVIOUS
  <2>3. SlotStep(s, r, p, c) /\ p.recv = o.recv /\ p.send = <<x>> /\ o.send = <<>>
    <3>1. sock' = [sock EXCEPT ![s] = r] /\ UNCHANGED <<cb, pool>>
            /\ ops' = [ops EXCEPT ![s].send = Append(@, x)]
      <4>1. sock' = [sock EXCEPT ![s] = r]
        BY ONLY <1>1, <1>5, <2>1 DEF View, PostSendReq
      <4>2. UNCHANGED <<cb, pool>>
        BY <1>5 DEF SendNext
      <4>3. ops' = [ops EXCEPT ![s].send = Append(@, x)]
        BY <1>5, <2>0 DEF Post, PostSendReq
      <4> QED  BY <4>1, <4>2, <4>3
    <3>2. o.send = <<>>
      BY <1>2, <1>3 DEF UsedOK, ReadingOK, SendingOK, RecvAt, SendAt, OpsType
    <3>3. x \in OpType
      <4>1. SendUsed(s) \in Nat
        BY <1>1, <1>2, <1>3, IocpAssumption DEF SendUsed, SocketType, View, CachesOK
      <4> QED  BY ONLY <2>0, <4>1 DEF OpType
    <3>4. cb' = [cb EXCEPT ![s] = c] /\ pool' \subseteq Sockets
            /\ (\A y \in Sockets : y # s => (y \in pool' <=> y \in pool))
      BY <1>1, <3>1, Parts DEF View, Types
    <3>5. o = ops[s]
      BY <1>1 DEF View
    <3> QED  BY <1>2, <1>3, <2>0, <2>2, <3>1, <3>2, <3>3, <3>4, <3>5, PostsRecv, PostsSend
  <2>r. PICK rq, sq : rq = p.recv /\ sq = p.send
    OBVIOUS
  <2>s. sq # <<>> /\ Len(sq) = 1 /\ o.send = <<>> /\ rq = o.recv
    BY <2>3, <2>r
  <2>5. QueueStep(s, E, n)
    <3>1. UNCHANGED <<evt_queue, pool>>
      BY <1>5 DEF SendNext
    <3> QED  BY <1>1, <1>2, <3>1, QueueStays DEF View
  <2>6. PICK Q : Q = P \ {"send_next"}
    OBVIOUS
  <2>7. ThreadStep(s, Q, u, k) /\ HandlersFit(th', r, s)
    <3>1. /\ r.recv_used <= v.recv_used \/ th[t].at \in RecvAt
          /\ v.data_need_send - v.data_has_send <= r.data_need_send - r.data_has_send \/ th[t].at \in SendAt
          /\ UNCHANGED pool /\ th[t].at # "idle" /\ r \in SocketType
      BY <1>2, <1>3, <2>1, <2>2 DEF SocketType, RecvAt, SendAt
    <3>2. GoTo(t, "send_ack") /\ (th[t].then = "send_ack" => "send_ack" \in {"push_end", "send_ack"})
      BY <1>1, <1>2, <1>5 DEF SendNext
    <3>3. PICK l : l = k
      OBVIOUS
    <3>4. /\ Q = (P \ {th[t].at}) \cup ({"send_ack"} \cap Roles)
          /\ l = IF "send_ack" \in CarryAt THEN th[t].n ELSE IF th[t].at \in CarryAt THEN 0 ELSE k
          /\ \A R \in {RecvAt, SendAt, EndAt} : "send_ack" \in R => P \cap R \subseteq {th[t].at}
          /\ th[t].then # "send_ack" => (th[t].at \in SendAt \cup {"send_ack"} <=> "send_ack" \in SendAt \cup {"send_ack"})
      BY <1>2, <2>6, <3>3 DEF EndAt, SendAt, RecvAt, CarryAt, Roles
    <3>5. PICK label \in Labels \ {"idle", "recv", "send"} : label = "send_ack"
      BY DEF Labels, EndAt, SendAt, RecvAt
    <3>6. ThreadStep(s, Q, u, l) /\ HandlersFit(th', r, s)
      BY ONLY Inv, t \in Threads, <1>1, <3>1, <3>2, <3>4, <3>5, GoingOn
    <3> QED  BY <3>3, <3>6
  <2>8. UsedOK(r, c, rq, sq, E, Q, u)
    <3> USE <1>2, <1>3, <1>len, <1>5, <2>1, <2>s, <2>6 DEF UsedOK, SocketType, RecvAt, SendAt, EndAt,
          Requested, Opening
    <3>1. OpeningOK(r, c, sq, E, Q)
      BY DEF OpeningOK
    <3>2. ReadingOK(r, rq, E, Q)
      BY DEF ReadingOK
    <3>3. SendingOK(r, sq, Q, u)
      <4>1. /\ r.send_req = v.send_req + 1 /\ r.send_ack = v.send_ack
            /\ v.send_req \in Nat /\ v.send_ack \in Nat
        OBVIOUS
      <4>2. v.send_req - v.send_ack = 0 + u /\ Len(sq) = 1 /\ sq # <<>>
        BY DEF SendingOK
      <4>3. r.send_req - r.send_ack = 1 + u
        BY ONLY <1>3, <4>1, <4>2
      <4>4. r.send_req - r.send_ack = Len(sq) + u
        BY ONLY <4>2, <4>3
      <4>5. r.send_op = v.send_op /\ v.send_op = "SEND"
        BY DEF SendingOK
      <4> QED  BY <4>2, <4>4, <4>5 DEF SendingOK
    <3>4. EndingOK(r, c, sq, E, Q)
      BY DEF EndingOK, SendingOK
    <3>5. HeardOK(r, c, rq, sq, E, Q)
      BY DEF HeardOK, SendingOK
    <3> QED  BY <3>1, <3>2, <3>3, <3>4, <3>5
  <2>9. CachesOK(r, n + k) /\ OpsFit(r, p.recv, p.send)
    <3>1. CachesOK(r, n + k) /\ OpsFit(r, o.recv, o.send)
      BY <1>3, <2>2, SameFits
    <3>3. OpsFit(r, p.recv, p.send)
      <4>1. p.send = <<x>> /\ DOMAIN <<x>> = {1} /\ <<x>>[1] = x /\ p.recv = o.recv
        BY <2>0, <2>3
      <4>2. x.len <= r.data_need_send - r.data_has_send
        <5>1. x.len = v.data_need_send - v.data_has_send
          BY <1>1, <2>0 DEF RecvFree, SendUsed, View
        <5>2. r.recv_used = v.recv_used /\ r.data_need_send = v.data_need_send
                /\ r.data_has_send = v.data_has_send
          BY <2>2 DEF SameBytes
        <5>3. /\ v.recv_used \in Nat /\ v.data_need_send \in Nat /\ v.data_has_send \in Nat /\ RecvCap \in Nat
              /\ v.recv_used <= RecvCap /\ v.data_has_send <= v.data_need_send
          BY <1>3, IocpAssumption DEF SocketType, CachesOK
        <5> QED  BY <5>1, <5>2, <5>3
      <4>3. \A i \in DOMAIN p.send : p.send[i].len <= r.data_need_send - r.data_has_send
        BY <4>1, <4>2
      <4> QED  BY <3>1, <4>1, <4>3 DEF OpsFit
    <3> QED  BY <3>1, <3>3
  <2> QED  BY <1>2, <2>3, <2>5, <2>7, <2>8, <2>9, <2>r, UsedSlot
<1>6. ASSUME IocpClose(t, s, "system", "send_ack") /\ UNCHANGED <<ops, peer>> PROVE Inv'
  <2>1. IocpClose(t, th[t].sock, "system", "send_ack") /\ UNCHANGED <<pool, evt_queue, ops, cb>>
    BY <1>1, <1>6 DEF SendNext
  <2> QED  BY <1>2, <2>1, IocpCloseKeeps
<1>7. \/ GoTo(t, "send_ack") /\ UNCHANGED <<sock, ops, peer>>
      \/ SendUsed(s) > 0 /\ sock' = [sock EXCEPT ![s].send_req = @ + 1]
           /\ Post(s, "send", "io", SendUsed(s)) /\ GoTo(t, "send_ack")
      \/ IocpClose(t, s, "system", "send_ack") /\ UNCHANGED <<ops, peer>>
  BY <1>1, <1>2 DEF SendNext
<1>8. Inv'
  BY <1>4, <1>5, <1>6, <1>7
<1>9. crush' = "none"
  BY <1>2, <1>7 DEF SendNext
<1> QED  BY <1>8, <1>9 DEF Kept

(* The connect is posted, or the session ends before it was up. *)
LEMMA ConnectReqKeeps ==
  ASSUME Inv, NEW t \in Threads, ConnectReq(t)
  PROVE  Kept
<1>1. PICK s, v, o, c, E, n, P, u, k : s = th[t].sock /\ View(s, v, o, c, E, n, P, u, k)
  BY DEF View
<1>2. /\ th[t].at = "connect_req" /\ crush = "none" /\ UNCHANGED pool
      /\ s \in Sockets /\ s \notin pool /\ th[t] \in ThreadType
      /\ "connect_req" \in P /\ P \cap RecvAt = {"connect_req"}
      /\ th[t].then # "send_ack"
  BY <1>1, AtPlace DEF ConnectReq, At, Running, RecvAt, SendAt, EndAt, Roles, View
<1>3. /\ v \in SocketType /\ UsedOK(v, c, o.recv, o.send, E, P, u) /\ CachesOK(v, n + k)
      /\ OpsFit(v, o.recv, o.send) /\ o \in OpsType /\ c \in Callbacks /\ n \in Nat /\ u \in Nat
  BY <1>1, <1>2, Viewed
<1>len. Len(o.recv) \in Nat /\ Len(o.send) \in Nat
  BY <1>1, <1>2, Viewed
<1>4. ASSUME ConnectError(t, s) /\ UNCHANGED <<ops, peer>> PROVE Inv'
  <2>1. PICK r : r = [v EXCEPT !.state = "TERMINATE", !.open = FALSE]
    OBVIOUS
  <2>2. r \in SocketType /\ SameBytes(v, r)
    BY <1>1, <1>2, <1>3, <1>4, <2>1 DEF SocketType, SameBytes, States
  <2>3. SlotStep(s, r, o, c)
    <3>1. sock' = [sock EXCEPT ![s] = r] /\ UNCHANGED <<ops, cb, pool>>
      BY <1>1, <1>4, <2>1, ZenonT(60) DEF ConnectReq, View, ConnectError
    <3> QED  BY <1>1, <1>2, <2>2, <3>1, SlotChanges DEF View
  <2>5. QueueStep(s, E, n)
    <3>1. UNCHANGED <<evt_queue, pool>>
      BY <1>4 DEF ConnectReq
    <3> QED  BY <1>1, <1>2, <3>1, QueueStays DEF View
  <2>6. PICK Q : Q = (P \ {"connect_req"}) \cup {"connect_fail"}
    OBVIOUS
  <2>7. ThreadStep(s, Q, u, k) /\ HandlersFit(th', r, s)
    <3>1. /\ r.recv_used <= v.recv_used \/ th[t].at \in RecvAt
          /\ v.data_need_send - v.data_has_send <= r.data_need_send - r.data_has_send \/ th[t].at \in SendAt
          /\ UNCHANGED pool /\ th[t].at # "idle" /\ r \in SocketType
      BY <1>2, <1>3, <2>1, <2>2 DEF SocketType, RecvAt, SendAt
    <3>2. GoTo(t, "connect_fail") /\ (th[t].then = "send_ack" => "connect_fail" \in {"push_end", "send_ack"})
      BY <1>1, <1>2, <1>4 DEF ConnectReq, ConnectError
    <3>3. PICK l : l = k
      OBVIOUS
    <3>4. /\ Q = (P \ {th[t].at}) \cup ({"connect_fail"} \cap Roles)
          /\ l = IF "connect_fail" \in CarryAt THEN th[t].n ELSE IF th[t].at \in CarryAt THEN 0 ELSE k
          /\ \A R \in {RecvAt, SendAt, EndAt} : "connect_fail" \in R => P \cap R \subseteq {th[t].at}
          /\ th[t].then # "send_ack" => (th[t].at \in SendAt \cup {"send_ack"} <=> "connect_fail" \in SendAt \cup {"send_ack"})
      BY <1>2, <1>3, <2>6, <3>3 DEF EndAt, SendAt, RecvAt, CarryAt, Roles, UsedOK, OpeningOK
    <3>5. PICK label \in Labels \ {"idle", "recv", "send"} : label = "connect_fail"
      BY DEF Labels, EndAt, SendAt, RecvAt
    <3>6. ThreadStep(s, Q, u, l) /\ HandlersFit(th', r, s)
      BY ONLY Inv, t \in Threads, <1>1, <3>1, <3>2, <3>4, <3>5, GoingOn
    <3> QED  BY <3>3, <3>6
  <2>8. UsedOK(r, c, o.recv, o.send, E, Q, u)
    <3> USE <1>2, <1>3, <1>4, <2>1, <2>6 DEF UsedOK, SocketType, RecvAt, SendAt, EndAt, Requested, Opening
    <3>1. OpeningOK(r, c, o.send, E, Q)
      BY DEF OpeningOK
    <3>2. ReadingOK(r, o.recv, E, Q)
      BY DEF ReadingOK
    <3>3. SendingOK(r, o.send, Q, u)
      BY DEF SendingOK
    <3>4. EndingOK(r, c, o.send, E, Q)
      BY DEF EndingOK, OpeningOK
    <3>5. HeardOK(r, c, o.recv, o.send, E, Q)
      BY DEF HeardOK, OpeningOK, ReadingOK
    <3> QED  BY <3>1, <3>2, <3>3, <3>4, <3>5
  <2>9. CachesOK(r, n + k) /\ OpsFit(r, o.recv, o.send)
    BY <1>3, <2>2, SameFits
  <2> QED  BY <1>2, <2>3, <2>5, <2>7, <2>8, <2>9, UsedSlot
<1>5. ASSUME /\ sock' = [sock EXCEPT ![s].open = TRUE, ![s].recv_op = "CONNECT", ![s].recv_req = @ + 1]
             /\ ops' = [ops EXCEPT ![s].recv = Append(@, [kind |-> "io", len |-> 0])] /\ Done(t) PROVE Inv'
  <2>1. PICK r : r = [v EXCEPT !.open = TRUE, !.recv_op = "CONNECT", !.recv_req = @ + 1]
    OBVIOUS
  <2>2. r \in SocketType /\ SameBytes(v, r)
    <3>1. v.recv_req + 1 \in Nat
      BY <1>3 DEF SocketType
    <3> QED  BY <1>1, <1>2, <1>3, <1>5, <2>1, <3>1 DEF SocketType, SameBytes, States
  <2>0. PICK x, p : x = [kind |-> "io", len |-> 0] /\ p = [recv |-> <<x>>, send |-> o.send]
    OBVIOUS
  <2>3. SlotStep(s, r, p, c) /\ p.recv = <<x>> /\ p.send = o.send /\ o.recv = <<>>
    <3>1. sock' = [sock EXCEPT ![s] = r] /\ UNCHANGED <<cb, pool>>
            /\ ops' = [ops EXCEPT ![s].recv = Append(@, x)]
      <4>1. sock' = [sock EXCEPT ![s] = r]
        BY ONLY <1>1, <1>5, <2>1 DEF View, PostSendReq
      <4>2. UNCHANGED <<cb, pool>>
        BY <1>5 DEF ConnectReq
      <4>3. ops' = [ops EXCEPT ![s].recv = Append(@, x)]
        BY <1>5, <2>0 DEF Post, PostSendReq
      <4> QED  BY <4>1, <4>2, <4>3
    <3>2. o.recv = <<>>
      BY ONLY <1>2, <1>3 DEF UsedOK, ReadingOK, SendingOK, RecvAt, SendAt, OpsType
    <3>3. x \in OpType
      BY <2>0 DEF OpType
    <3>4. cb' = [cb EXCEPT ![s] = c] /\ pool' \subseteq Sockets
            /\ (\A y \in Sockets : y # s => (y \in pool' <=> y \in pool))
      BY <1>1, <3>1, Parts DEF View, Types
    <3>5. o = ops[s]
      BY <1>1 DEF View
    <3> QED  BY <1>2, <1>3, <2>0, <2>2, <3>1, <3>2, <3>3, <3>4, <3>5, PostsRecv, PostsSend
  <2>r. PICK rq, sq : rq = p.recv /\ sq = p.send
    OBVIOUS
  <2>s. rq # <<>> /\ Len(rq) = 1 /\ o.recv = <<>> /\ sq = o.send
    BY <2>3, <2>r
  <2>5. QueueStep(s, E, n)
    <3>1. UNCHANGED <<evt_queue, pool>>
      BY <1>5 DEF ConnectReq
    <3> QED  BY <1>1, <1>2, <3>1, QueueStays DEF View
  <2>6. PICK Q : Q = P \ {"connect_req"}
    OBVIOUS
  <2>7. ThreadStep(s, Q, u, k) /\ HandlersFit(th', r, s)
    <3>1. /\ r.recv_used <= v.recv_used \/ th[t].at \in RecvAt
          /\ v.data_need_send - v.data_has_send <= r.data_need_send - r.data_has_send \/ th[t].at \in SendAt
          /\ UNCHANGED pool /\ th[t].at # "idle" /\ r \in SocketType
      BY <1>2, <1>3, <2>1, <2>2 DEF SocketType, RecvAt, SendAt
    <3>2. /\ Q = P \ {th[t].at} /\ Done(t) /\ (k = IF th[t].at \in CarryAt THEN 0 ELSE k)
          /\ ~Sends(th[t])
      BY <1>1, <1>2, <1>5, <2>6 DEF ConnectReq, CarryAt, Sends
    <3>3. PICK y, z : y = u /\ z = k
      OBVIOUS
    <3>4. ThreadStep(s, Q, y, z) /\ HandlersFit(th', r, s)
      BY ONLY Inv, t \in Threads, <1>1, <3>1, <3>2, <3>3, FinishingOn
    <3> QED  BY <3>3, <3>4
  <2>8. UsedOK(r, c, rq, sq, E, Q, u)
    <3> USE <1>2, <1>3, <1>len, <1>5, <2>1, <2>s, <2>6 DEF UsedOK, SocketType, RecvAt, SendAt, EndAt,
          Requested, Opening
    <3>1. OpeningOK(r, c, sq, E, Q)
      BY DEF OpeningOK
    <3>2. ReadingOK(r, rq, E, Q)
      <4>1. /\ r.recv_req = v.recv_req + 1 /\ r.recv_ack = v.recv_ack
            /\ v.recv_req \in Nat /\ v.recv_ack \in Nat
        OBVIOUS
      <4>2. v.recv_req - v.recv_ack = 0 /\ Len(rq) = 1 /\ rq # <<>>
        BY DEF ReadingOK
      <4>3. r.recv_req - r.recv_ack = 1
        BY ONLY <1>3, <4>1, <4>2
      <4>4. r.recv_req - r.recv_ack = Len(rq)
        BY ONLY <4>2, <4>3
      <4>5. /\ Q \cap RecvAt = {} /\ "RECV_ACTIVE" \notin E /\ (r.state # "CONNECT" => r.recv_op = "RECV")
        BY DEF ReadingOK, OpeningOK
      <4> QED  BY <4>2, <4>4, <4>5 DEF ReadingOK, OpeningOK
    <3>3. SendingOK(r, sq, Q, u)
      BY DEF SendingOK, Spent
    <3>4. EndingOK(r, c, sq, E, Q)
      BY DEF EndingOK, OpeningOK
    <3>5. HeardOK(r, c, rq, sq, E, Q)
      BY DEF HeardOK, OpeningOK
    <3> QED  BY <3>1, <3>2, <3>3, <3>4, <3>5
  <2>9. CachesOK(r, n + k) /\ OpsFit(r, p.recv, p.send)
    <3>1. CachesOK(r, n + k) /\ OpsFit(r, o.recv, o.send)
      BY <1>3, <2>2, SameFits
    <3>3. OpsFit(r, p.recv, p.send)
      <4>1. p.recv = <<x>> /\ DOMAIN <<x>> = {1} /\ <<x>>[1] = x /\ p.send = o.send
        BY <2>0, <2>3
      <4>2. x.len <= RecvCap - r.recv_used
        <5>1. x.len = 0
          BY <1>1, <2>0 DEF RecvFree, SendUsed, View
        <5>2. r.recv_used = v.recv_used /\ r.data_need_send = v.data_need_send
                /\ r.data_has_send = v.data_has_send
          BY <2>2 DEF SameBytes
        <5>3. /\ v.recv_used \in Nat /\ v.data_need_send \in Nat /\ v.data_has_send \in Nat /\ RecvCap \in Nat
              /\ v.recv_used <= RecvCap /\ v.data_has_send <= v.data_need_send
          BY <1>3, IocpAssumption DEF SocketType, CachesOK
        <5> QED  BY <5>1, <5>2, <5>3
      <4>3. \A i \in DOMAIN p.recv : p.recv[i].len <= RecvCap - r.recv_used
        BY <4>1, <4>2
      <4> QED  BY <3>1, <4>1, <4>3 DEF OpsFit
    <3> QED  BY <3>1, <3>3
  <2> QED  BY <1>2, <2>3, <2>5, <2>7, <2>8, <2>9, <2>r, UsedSlot
<1>6. \/ ConnectError(t, s) /\ UNCHANGED <<ops, peer>>
      \/ /\ sock' = [sock EXCEPT ![s].open = TRUE, ![s].recv_op = "CONNECT", ![s].recv_req = @ + 1]
              /\ ops' = [ops EXCEPT ![s].recv = Append(@, [kind |-> "io", len |-> 0])] /\ Done(t)
  BY <1>1, <1>2 DEF ConnectReq
<1>7. Inv'
  BY <1>4, <1>5, <1>6
<1>8. crush' = "none"
  BY <1>2, <1>6 DEF ConnectReq
<1> QED  BY <1>7, <1>8 DEF Kept

(* The session is up, with the operation codes still to come, or has failed. *)
LEMMA ConnectedKeeps ==
  ASSUME Inv, NEW t \in Threads, Connected(t)
  PROVE  Kept
<1>1. PICK s, v, o, c, E, n, P, u, k : s = th[t].sock /\ View(s, v, o, c, E, n, P, u, k)
  BY DEF View
<1>2. /\ th[t].at = "connect" /\ crush = "none" /\ UNCHANGED pool
      /\ s \in Sockets /\ s \notin pool /\ th[t] \in ThreadType
      /\ "connect" \in P /\ P \cap RecvAt = {"connect"}
      /\ th[t].then # "send_ack"
  BY <1>1, AtPlace DEF Connected, At, Running, RecvAt, SendAt, EndAt, Roles, View
<1>3. /\ v \in SocketType /\ UsedOK(v, c, o.recv, o.send, E, P, u) /\ CachesOK(v, n + k)
      /\ OpsFit(v, o.recv, o.send) /\ o \in OpsType /\ c \in Callbacks /\ n \in Nat /\ u \in Nat
  BY <1>1, <1>2, Viewed
<1>len. Len(o.recv) \in Nat /\ Len(o.send) \in Nat
  BY <1>1, <1>2, Viewed
<1>4. ASSUME ConnectError(t, s) PROVE Inv'
  <2>1. PICK r : r = [v EXCEPT !.state = "TERMINATE", !.open = FALSE]
    OBVIOUS
  <2>2. r \in SocketType /\ SameBytes(v, r)
    BY <1>1, <1>2, <1>3, <1>4, <2>1 DEF SocketType, SameBytes, States
  <2>3. SlotStep(s, r, o, c)
    <3>1. sock' = [sock EXCEPT ![s] = r] /\ UNCHANGED <<ops, cb, pool>>
      BY <1>1, <1>4, <2>1 DEF Connected, View, ConnectError
    <3> QED  BY <1>1, <1>2, <2>2, <3>1, SlotChanges DEF View
  <2>5. QueueStep(s, E, n)
    <3>1. UNCHANGED <<evt_queue, pool>>
      BY <1>4 DEF Connected
    <3> QED  BY <1>1, <1>2, <3>1, QueueStays DEF View
  <2>6. PICK Q : Q = (P \ {"connect"}) \cup {"connect_fail"}
    OBVIOUS
  <2>7. ThreadStep(s, Q, u, k) /\ HandlersFit(th', r, s)
    <3>1. /\ r.recv_used <= v.recv_used \/ th[t].at \in RecvAt
          /\ v.data_need_send - v.data_has_send <= r.data_need_send - r.data_has_send \/ th[t].at \in SendAt
          /\ UNCHANGED pool /\ th[t].at # "idle" /\ r \in SocketType
      BY <1>2, <1>3, <2>1, <2>2 DEF SocketType, RecvAt, SendAt
    <3>2. GoTo(t, "connect_fail") /\ (th[t].then = "send_ack" => "connect_fail" \in {"push_end", "send_ack"})
      BY <1>1, <1>2, <1>4 DEF Connected, ConnectError
    <3>3. PICK l : l = k
      OBVIOUS
    <3>4. /\ Q = (P \ {th[t].at}) \cup ({"connect_fail"} \cap Roles)
          /\ l = IF "connect_fail" \in CarryAt THEN th[t].n ELSE IF th[t].at \in CarryAt THEN 0 ELSE k
          /\ \A R \in {RecvAt, SendAt, EndAt} : "connect_fail" \in R => P \cap R \subseteq {th[t].at}
          /\ th[t].then # "send_ack" => (th[t].at \in SendAt \cup {"send_ack"} <=> "connect_fail" \in SendAt \cup {"send_ack"})
      BY <1>2, <1>3, <2>6, <3>3 DEF EndAt, SendAt, RecvAt, CarryAt, Roles, UsedOK, OpeningOK
    <3>5. PICK label \in Labels \ {"idle", "recv", "send"} : label = "connect_fail"
      BY DEF Labels, EndAt, SendAt, RecvAt
    <3>6. ThreadStep(s, Q, u, l) /\ HandlersFit(th', r, s)
      BY ONLY Inv, t \in Threads, <1>1, <3>1, <3>2, <3>4, <3>5, GoingOn
    <3> QED  BY <3>3, <3>6
  <2>8. UsedOK(r, c, o.recv, o.send, E, Q, u)
    <3> USE <1>2, <1>3, <1>4, <2>1, <2>6 DEF UsedOK, SocketType, RecvAt, SendAt, EndAt, Requested, Opening
    <3>1. OpeningOK(r, c, o.send, E, Q)
      BY DEF OpeningOK
    <3>2. ReadingOK(r, o.recv, E, Q)
      BY DEF ReadingOK
    <3>3. SendingOK(r, o.send, Q, u)
      BY DEF SendingOK
    <3>4. EndingOK(r, c, o.send, E, Q)
      BY DEF EndingOK, OpeningOK
    <3>5. HeardOK(r, c, o.recv, o.send, E, Q)
      BY DEF HeardOK, OpeningOK, ReadingOK
    <3> QED  BY <3>1, <3>2, <3>3, <3>4, <3>5
  <2>9. CachesOK(r, n + k) /\ OpsFit(r, o.recv, o.send)
    BY <1>3, <2>2, SameFits
  <2> QED  BY <1>2, <2>3, <2>5, <2>7, <2>8, <2>9, UsedSlot
<1>5. ASSUME sock' = [sock EXCEPT ![s].state = "ESTABLISH"] /\ GoTo(t, "connect_ops") PROVE Inv'
  <2>1. PICK r : r = [v EXCEPT !.state = "ESTABLISH"]
    OBVIOUS
  <2>2. r \in SocketType /\ SameBytes(v, r)
    BY <1>1, <1>2, <1>3, <1>5, <2>1 DEF SocketType, SameBytes, States, UsedOK, OpeningOK
  <2>3. SlotStep(s, r, o, c)
    <3>1. sock' = [sock EXCEPT ![s] = r] /\ UNCHANGED <<ops, cb, pool>>
      BY <1>1, <1>5, <2>1 DEF Connected, View
    <3> QED  BY <1>1, <1>2, <2>2, <3>1, SlotChanges DEF View
  <2>5. QueueStep(s, E, n)
    <3>1. UNCHANGED <<evt_queue, pool>>
      BY <1>5 DEF Connected
    <3> QED  BY <1>1, <1>2, <3>1, QueueStays DEF View
  <2>6. PICK Q : Q = (P \ {"connect"}) \cup {"connect_ops"}
    OBVIOUS
  <2>7. ThreadStep(s, Q, u, k) /\ HandlersFit(th', r, s)
    <3>1. /\ r.recv_used <= v.recv_used \/ th[t].at \in RecvAt
          /\ v.data_need_send - v.data_has_send <= r.data_need_send - r.data_has_send \/ th[t].at \in SendAt
          /\ UNCHANGED pool /\ th[t].at # "idle" /\ r \in SocketType
      BY <1>2, <1>3, <2>1, <2>2 DEF SocketType, RecvAt, SendAt
    <3>2. GoTo(t, "connect_ops") /\ (th[t].then = "send_ack" => "connect_ops" \in {"push_end", "send_ack"})
      BY <1>1, <1>2, <1>5 DEF Connected
    <3>3. PICK l : l = k
      OBVIOUS
    <3>4. /\ Q = (P \ {th[t].at}) \cup ({"connect_ops"} \cap Roles)
          /\ l = IF "connect_ops" \in CarryAt THEN th[t].n ELSE IF th[t].at \in CarryAt THEN 0 ELSE k
          /\ \A R \in {RecvAt, SendAt, EndAt} : "connect_ops" \in R => P \cap R \subseteq {th[t].at}
          /\ th[t].then # "send_ack" => (th[t].at \in SendAt \cup {"send_ack"} <=> "connect_ops" \in SendAt \cup {"send_ack"})
      BY <1>2, <2>6, <3>3 DEF EndAt, SendAt, RecvAt, CarryAt, Roles
    <3>5. PICK label \in Labels \ {"idle", "recv", "send"} : label = "connect_ops"
      BY DEF Labels, EndAt, SendAt, RecvAt
    <3>6. ThreadStep(s, Q, u, l) /\ HandlersFit(th', r, s)
      BY ONLY Inv, t \in Threads, <1>1, <3>1, <3>2, <3>4, <3>5, GoingOn
    <3> QED  BY <3>3, <3>6
  <2>8. UsedOK(r, c, o.recv, o.send, E, Q, u)
    <3> USE <1>2, <1>3, <1>5, <2>1, <2>6 DEF UsedOK, SocketType, RecvAt, SendAt, EndAt, Requested, Opening
    <3>1. OpeningOK(r, c, o.send, E, Q)
      BY DEF OpeningOK
    <3>2. ReadingOK(r, o.recv, E, Q)
      BY DEF ReadingOK
    <3>3. SendingOK(r, o.send, Q, u)
      BY DEF SendingOK
    <3>4. EndingOK(r, c, o.send, E, Q)
      BY DEF EndingOK, OpeningOK
    <3>5. HeardOK(r, c, o.recv, o.send, E, Q)
      BY DEF HeardOK, OpeningOK
    <3> QED  BY <3>1, <3>2, <3>3, <3>4, <3>5
  <2>9. CachesOK(r, n + k) /\ OpsFit(r, o.recv, o.send)
    BY <1>3, <2>2, SameFits
  <2> QED  BY <1>2, <2>3, <2>5, <2>7, <2>8, <2>9, UsedSlot
<1>6. \/ ConnectError(t, s)
      \/ sock' = [sock EXCEPT ![s].state = "ESTABLISH"] /\ GoTo(t, "connect_ops")
  BY <1>1, <1>2 DEF Connected
<1>7. Inv'
  BY <1>4, <1>5, <1>6
<1>8. crush' = "none"
  BY <1>2, <1>6 DEF Connected
<1> QED  BY <1>7, <1>8 DEF Kept

(* The event that ends the session is its only one. *)
LEMMA PushEndKeeps ==
  ASSUME Inv, NEW t \in Threads, PushEnd(t)
  PROVE  Kept \/ Full
<1>1. PICK s, v, o, c, E, n, P, u, k : s = th[t].sock /\ View(s, v, o, c, E, n, P, u, k)
  BY DEF View
<1>2. /\ th[t].at = "push_end" /\ crush = "none" /\ UNCHANGED pool
      /\ s \in Sockets /\ s \notin pool /\ th[t] \in ThreadType
      /\ "push_end" \in P /\ P \cap EndAt = {"push_end"}
  BY <1>1, AtPlace DEF PushEnd, At, Running, RecvAt, SendAt, EndAt, Roles, View
<1>3. /\ v \in SocketType /\ UsedOK(v, c, o.recv, o.send, E, P, u) /\ CachesOK(v, n + k)
      /\ OpsFit(v, o.recv, o.send) /\ o \in OpsType /\ c \in Callbacks /\ n \in Nat /\ u \in Nat
  BY <1>1, <1>2, Viewed
<1>len. Len(o.recv) \in Nat /\ Len(o.send) \in Nat
  BY <1>1, <1>2, Viewed
<1>4. PICK ev : ev = EndEvent(v.error)
  OBVIOUS
<1>5. PushEvt(ev, s, 0) /\ ev \in {"SYSTEM_ERROR", "MODULE_ERROR", "TERMINATE"}
  BY <1>1, <1>4 DEF PushEnd, EndEvent, View
<1>6. ASSUME crush' = "none" /\ PushEvt(ev, s, 0) /\ ev \in {"SYSTEM_ERROR", "MODULE_ERROR", "TERMINATE"}
        /\ th[t].then = "idle" PROVE Inv'
  <2>1. PICK r : r = v
    OBVIOUS
  <2>2. r \in SocketType /\ SameBytes(v, r)
    BY <1>1, <1>2, <1>3, <1>6, <2>1 DEF SocketType, SameBytes, States
  <2>3. SlotStep(s, r, o, c)
    BY <1>1, <1>2, <1>6, <2>1, SlotStays DEF PushEnd, View
  <2>4. PICK F, m : F = E \cup {ev} /\ m = n + 0
    OBVIOUS
  <2>5. QueueStep(s, F, m)
    <3>1. PICK type \in EventTypes, len \in Nat : type = ev /\ len = 0
      BY <1>1, <1>2, <1>6 DEF EventTypes, TerminalEvents, ThreadType
    <3>2. PushEvt(type, s, len) /\ UNCHANGED pool /\ crush' = "none"
      BY <1>1, <1>6, <3>1 DEF PushEnd
    <3>3. /\ type # "DATA" => len = 0 /\ type \notin E
          /\ type \in TerminalEvents => E \cap TerminalEvents = {}
          /\ type = "ESTABLISH" => E = {}
      BY <1>2, <1>3, <1>6, <3>1 DEF UsedOK, OpeningOK, ReadingOK, EndingOK, HeardOK, TerminalEvents, Opening,
        RecvAt, EndAt
    <3>4. QueueStep(s, E \cup {type}, n + len)
      BY <1>1, <1>2, <3>1, <3>2, <3>3, QueueGrows DEF View
    <3> QED  BY <2>4, <3>1, <3>4
  <2>6. PICK Q : Q = P \ {"push_end"}
    OBVIOUS
  <2>7. ThreadStep(s, Q, u, k) /\ HandlersFit(th', r, s)
    <3>1. /\ r.recv_used <= v.recv_used \/ th[t].at \in RecvAt
          /\ v.data_need_send - v.data_has_send <= r.data_need_send - r.data_has_send \/ th[t].at \in SendAt
          /\ UNCHANGED pool /\ th[t].at # "idle" /\ r \in SocketType
      BY <1>2, <1>3, <2>1, <2>2 DEF SocketType, RecvAt, SendAt
    <3>2. /\ Q = P \ {th[t].at} /\ Done(t) /\ (k = IF th[t].at \in CarryAt THEN 0 ELSE k)
          /\ ~Sends(th[t])
      BY <1>1, <1>2, <1>6, <2>6 DEF PushEnd, CarryAt, Sends
    <3>3. PICK y, z : y = u /\ z = k
      OBVIOUS
    <3>4. ThreadStep(s, Q, y, z) /\ HandlersFit(th', r, s)
      BY ONLY Inv, t \in Threads, <1>1, <3>1, <3>2, <3>3, FinishingOn
    <3> QED  BY <3>3, <3>4
  <2>8. UsedOK(r, c, o.recv, o.send, F, Q, u)
    <3> USE <1>2, <1>3, <1>6, <2>1, <2>4, <2>6 DEF UsedOK, SocketType, RecvAt, SendAt, EndAt, Requested,
          Opening, TerminalEvents
    <3>1. OpeningOK(r, c, o.send, F, Q)
      BY DEF OpeningOK
    <3>2. ReadingOK(r, o.recv, F, Q)
      BY DEF ReadingOK
    <3>3. SendingOK(r, o.send, Q, u)
      BY DEF SendingOK
    <3>4. EndingOK(r, c, o.send, F, Q)
      BY DEF EndingOK
    <3>5. HeardOK(r, c, o.recv, o.send, F, Q)
      BY DEF HeardOK
    <3> QED  BY <3>1, <3>2, <3>3, <3>4, <3>5
  <2>9. CachesOK(r, m + k) /\ OpsFit(r, o.recv, o.send)
    <3>1. CachesOK(r, n + k) /\ OpsFit(r, o.recv, o.send)
      BY <1>3, <2>2, SameFits
    <3>2. CachesOK(r, m + k)
      <4>1. m + k = n + k
        BY <1>1, <1>2, <1>3, <1>6, <2>4, CarriedNow DEF View, RecvAt, CarryAt, ThreadType
      <4> QED  BY <3>1, <4>1
    <3> QED  BY <3>1, <3>2
  <2> QED  BY <1>2, <2>3, <2>5, <2>7, <2>8, <2>9, UsedSlot
<1>7. ASSUME crush' = "none" /\ PushEvt(ev, s, 0) /\ ev \in {"SYSTEM_ERROR", "MODULE_ERROR", "TERMINATE"}
        /\ th[t].then = "send_ack" PROVE Inv'
  <2>1. PICK r : r = v
    OBVIOUS
  <2>2. r \in SocketType /\ SameBytes(v, r)
    BY <1>1, <1>2, <1>3, <1>7, <2>1 DEF SocketType, SameBytes, States
  <2>3. SlotStep(s, r, o, c)
    BY <1>1, <1>2, <1>7, <2>1, SlotStays DEF PushEnd, View
  <2>4. PICK F, m : F = E \cup {ev} /\ m = n + 0
    OBVIOUS
  <2>5. QueueStep(s, F, m)
    <3>1. PICK type \in EventTypes, len \in Nat : type = ev /\ len = 0
      BY <1>1, <1>2, <1>7 DEF EventTypes, TerminalEvents, ThreadType
    <3>2. PushEvt(type, s, len) /\ UNCHANGED pool /\ crush' = "none"
      BY <1>1, <1>7, <3>1 DEF PushEnd
    <3>3. /\ type # "DATA" => len = 0 /\ type \notin E
          /\ type \in TerminalEvents => E \cap TerminalEvents = {}
          /\ type = "ESTABLISH" => E = {}
      BY <1>2, <1>3, <1>7, <3>1 DEF UsedOK, OpeningOK, ReadingOK, EndingOK, HeardOK, TerminalEvents, Opening,
        RecvAt, EndAt
    <3>4. QueueStep(s, E \cup {type}, n + len)
      BY <1>1, <1>2, <3>1, <3>2, <3>3, QueueGrows DEF View
    <3> QED  BY <2>4, <3>1, <3>4
  <2>6. PICK Q : Q = P \ {"push_end"}
    OBVIOUS
  <2>7. ThreadStep(s, Q, u, k) /\ HandlersFit(th', r, s)
    <3>1. /\ r.recv_used <= v.recv_used \/ th[t].at \in RecvAt
          /\ v.data_need_send - v.data_has_send <= r.data_need_send - r.data_has_send \/ th[t].at \in SendAt
          /\ UNCHANGED pool /\ th[t].at # "idle" /\ r \in SocketType
      BY <1>2, <1>3, <2>1, <2>2 DEF SocketType, RecvAt, SendAt
    <3>2. GoTo(t, "send_ack") /\ (th[t].then = "send_ack" => "send_ack" \in {"push_end", "send_ack"})
      BY <1>1, <1>2, <1>7 DEF PushEnd
    <3>3. PICK l : l = k
      OBVIOUS
    <3>4. /\ Q = (P \ {th[t].at}) \cup ({"send_ack"} \cap Roles)
          /\ l = IF "send_ack" \in CarryAt THEN th[t].n ELSE IF th[t].at \in CarryAt THEN 0 ELSE k
          /\ \A R \in {RecvAt, SendAt, EndAt} : "send_ack" \in R => P \cap R \subseteq {th[t].at}
          /\ th[t].then # "send_ack" => (th[t].at \in SendAt \cup {"send_ack"} <=> "send_ack" \in SendAt \cup {"send_ack"})
      BY <1>2, <1>7, <2>6, <3>3 DEF EndAt, SendAt, RecvAt, CarryAt, Roles
    <3>5. PICK label \in Labels \ {"idle", "recv", "send"} : label = "send_ack"
      BY DEF Labels, EndAt, SendAt, RecvAt
    <3>6. ThreadStep(s, Q, u, l) /\ HandlersFit(th', r, s)
      BY ONLY Inv, t \in Threads, <1>1, <3>1, <3>2, <3>4, <3>5, GoingOn
    <3> QED  BY <3>3, <3>6
  <2>8. UsedOK(r, c, o.recv, o.send, F, Q, u)
    <3> USE <1>2, <1>3, <1>7, <2>1, <2>4, <2>6 DEF UsedOK, SocketType, RecvAt, SendAt, EndAt, Requested,
          Opening, TerminalEvents
    <3>1. OpeningOK(r, c, o.send, F, Q)
      BY DEF OpeningOK
    <3>2. ReadingOK(r, o.recv, F, Q)
      BY DEF ReadingOK
    <3>3. SendingOK(r, o.send, Q, u)
      BY DEF SendingOK
    <3>4. EndingOK(r, c, o.send, F, Q)
      BY DEF EndingOK
    <3>5. HeardOK(r, c, o.recv, o.send, F, Q)
      BY DEF HeardOK
    <3> QED  BY <3>1, <3>2, <3>3, <3>4, <3>5
  <2>9. CachesOK(r, m + k) /\ OpsFit(r, o.recv, o.send)
    <3>1. CachesOK(r, n + k) /\ OpsFit(r, o.recv, o.send)
      BY <1>3, <2>2, SameFits
    <3>2. CachesOK(r, m + k)
      <4>1. m + k = n + k
        BY <1>1, <1>2, <1>3, <1>7, <2>4, CarriedNow DEF View, RecvAt, CarryAt, ThreadType
      <4> QED  BY <3>1, <4>1
    <3> QED  BY <3>1, <3>2
  <2> QED  BY <1>2, <2>3, <2>5, <2>7, <2>8, <2>9, UsedSlot
<1>8. ASSUME crush' # "none" PROVE Full
  BY <1>2, <1>8 DEF PushEnd, PushEvt, Full
<1>9. th[t].then \in {"idle", "send_ack"}
  BY <1>2 DEF ThreadType
<1> QED  BY <1>5, <1>6, <1>7, <1>8, <1>9 DEF Kept

(* The completion of a receive: its acknowledgement is counted at once. *)
LEMMA TakeRecvKeeps ==
  ASSUME Inv, NEW t \in Threads, NEW s \in Sockets, TakeRecv(t, s)
  PROVE  Kept
<1>1. PICK v, o, c, E, n, P, u, k : View(s, v, o, c, E, n, P, u, k)
  BY DEF View
<1>2. PICK a \in Results : Take(t, s, "recv", a) /\ Begin(t, "recv", s, a.kind, a.n)
  BY DEF TakeRecv
<1>3. /\ th[t].at = "idle" /\ crush = "none" /\ s \notin pool /\ o.recv # <<>> /\ Len(o.recv) = 1
      /\ a.n \in Nat /\ a.n <= o.recv[1].len /\ o.recv[1].len \in Nat
      /\ a.kind \in {"none", "posted", "request", "fail", "end", "io"}
      /\ ops' = [ops EXCEPT ![s] = [recv |-> <<>>, send |-> o.send]]
  BY <1>1, <1>2, TakesRecv DEF View
<1>4. /\ v \in SocketType /\ UsedOK(v, c, o.recv, o.send, E, P, u) /\ CachesOK(v, n + k)
      /\ OpsFit(v, o.recv, o.send) /\ o \in OpsType /\ c \in Callbacks /\ n \in Nat /\ u \in Nat
  BY <1>1, <1>3, Viewed
<1>5. v.recv_op = "RECV" /\ UNCHANGED <<pool, evt_queue, cb, crush>>
  BY <1>1 DEF TakeRecv, View
<1>6. PICK r : r = [v EXCEPT !.recv_ack = @ + 1]
  OBVIOUS
<1>7. r \in SocketType /\ SameBytes(v, r)
  <2>1. v.recv_ack + 1 \in Nat
    BY <1>4 DEF SocketType
  <2> QED  BY <1>4, <1>6, <2>1 DEF SocketType, SameBytes
<1>8. PICK p : p = [recv |-> <<>>, send |-> o.send]
  OBVIOUS
<1>9. SlotStep(s, r, p, c) /\ p.recv = <<>> /\ p.send = o.send
  <2>1. p \in OpsType
    BY <1>4, <1>8 DEF OpsType
  <2>2. sock' = [sock EXCEPT ![s] = r] /\ cb' = [cb EXCEPT ![s] = c] /\ ops' = [ops EXCEPT ![s] = p]
    BY <1>1, <1>3, <1>5, <1>6, <1>8, Parts DEF TakeRecv, View, Types
  <2> QED  BY <1>4, <1>5, <1>7, <1>8, <2>1, <2>2, Parts DEF SlotStep, Types
<1>10. QueueStep(s, E, n)
  BY <1>1, <1>3, <1>5, QueueStays DEF View
<1>11. PICK Q, w : Q = P \cup {"recv"} /\ w = u
  OBVIOUS
<1>12. ThreadStep(s, Q, w, k) /\ HandlersFit(th', r, s)
  <2>1. PICK label, kind, m : label = "recv" /\ kind = a.kind /\ m = a.n
    OBVIOUS
  <2>2. PICK h : h = [at |-> label, sock |-> s, kind |-> kind, n |-> m, then |-> "idle"]
    OBVIOUS
  <2>3. Begins(t, s, label, kind, m, h)
    BY <1>2, <1>3, <2>1, <2>2 DEF Begins, Roles, RecvAt, SendAt, EndAt, CarryAt
  <2>4. \A R \in {RecvAt, SendAt, EndAt} : label \in R => P \cap R = {}
    BY <1>3, <1>4, <1>5, <2>1 DEF UsedOK, ReadingOK, SendingOK, EndingOK, Requested, RecvAt, SendAt, EndAt
  <2>5. w = u + (IF label \in SendAt THEN 1 ELSE 0) /\ Q = P \cup {label}
    BY <1>4, <1>11, <2>1 DEF SendAt
  <2>6. r.recv_used <= v.recv_used /\ v.data_need_send - v.data_has_send <= r.data_need_send - r.data_has_send
    BY <1>4, <1>7 DEF SameBytes, SocketType
  <2>7. /\ label = "recv" => m <= RecvCap - r.recv_used
        /\ label = "send" => m <= r.data_need_send - r.data_has_send
    <3>1. o.recv[1].len <= RecvCap - v.recv_used
      <4>1. 1 \in DOMAIN o.recv
        BY <1>3, <1>4 DEF OpsType
      <4> QED  BY <1>4, <4>1 DEF OpsFit
    <3>2. /\ r.recv_used = v.recv_used /\ r.data_need_send = v.data_need_send
               /\ r.data_has_send = v.data_has_send
          /\ v.recv_used \in Nat /\ v.data_need_send \in Nat /\ v.data_has_send \in Nat /\ RecvCap \in Nat
      BY <1>4, <1>7, IocpAssumption DEF SameBytes, SocketType
    <3> QED  BY <1>3, <2>1, <3>1, <3>2
  <2>8. UNCHANGED pool /\ s \notin pool /\ r \in SocketType
    BY <1>3, <1>5, <1>7
  <2>9. ThreadStep(s, Q, w, k) /\ HandlersFit(th', r, s)
    BY ONLY Inv, t \in Threads, s \in Sockets, <1>1, <2>3, <2>4, <2>5, <2>6, <2>7, <2>8, BeginningOn
  <2> QED  BY <2>9
<1>13. PICK rq, sq : rq = <<>> /\ sq = o.send /\ rq = <<>> /\ Len(rq) = 0
  OBVIOUS
<1>14. r.recv_req - r.recv_ack = 0
  <2>1. v.recv_req - v.recv_ack = 1
    BY <1>3, <1>4 DEF UsedOK, ReadingOK, SendingOK
  <2>2. v.recv_req \in Nat /\ v.recv_ack \in Nat /\ r.recv_req = v.recv_req /\ r.recv_ack = v.recv_ack + 1
          /\ u \in Nat
    BY <1>4, <1>6 DEF SocketType
  <2> QED  BY ONLY <1>11, <2>1, <2>2
<1>15. Len(o.recv) \in Nat /\ Len(o.send) \in Nat
  BY <1>1, <1>3, Viewed
<1>16. UsedOK(r, c, rq, sq, E, Q, w)
  <2> USE <1>3, <1>4, <1>5, <1>6, <1>11, <1>13 DEF UsedOK, SocketType, RecvAt, SendAt, EndAt, Requested, Opening
  <2>1. OpeningOK(r, c, sq, E, Q)
    BY DEF OpeningOK, ReadingOK
  <2>2. ReadingOK(r, rq, E, Q)
    <3>1. Len(rq) = 0 /\ rq = <<>> /\ r.recv_req - r.recv_ack = Len(rq)
      BY <1>13, <1>14
    <3>2. /\ "RECV_ACTIVE" \in E => Q \cap RecvAt = {}
          /\ "RECV_ACTIVE" \in E \/ Q \cap (RecvAt \ {"connect_req", "connect", "connect_ops"}) # {} => r.recv_op = "RECV"
      BY DEF ReadingOK, SendingOK, OpeningOK
    <3> QED  BY <3>1, <3>2 DEF ReadingOK
  <2>3. SendingOK(r, sq, Q, w)
    BY DEF SendingOK, Spent
  <2>4. EndingOK(r, c, sq, E, Q)
    BY DEF EndingOK
  <2>5. HeardOK(r, c, rq, sq, E, Q)
    BY DEF HeardOK
  <2> QED  BY <2>1, <2>2, <2>3, <2>4, <2>5
<1>17. CachesOK(r, n + k) /\ OpsFit(r, rq, sq)
  <2>1. CachesOK(r, n + k) /\ OpsFit(r, o.recv, o.send)
    BY <1>4, <1>7, SameFits
  <2> QED  BY <1>13, <2>1 DEF OpsFit
<1>18. Inv'
  <2>1. SlotStep(s, r, p, c) /\ p.recv = rq /\ p.send = sq
    BY <1>9, <1>13
  <2> QED  BY <1>3, <1>5, <1>10, <1>12, <1>16, <1>17, <2>1, UsedSlot
<1> QED  BY <1>3, <1>5, <1>18 DEF Kept

(* The request to connect. *)
LEMMA TakeConnectReqKeeps ==
  ASSUME Inv, NEW t \in Threads, NEW s \in Sockets, TakeConnectReq(t, s)
  PROVE  Kept
<1>1. PICK v, o, c, E, n, P, u, k : View(s, v, o, c, E, n, P, u, k)
  BY DEF View
<1>2. PICK a \in Results : Take(t, s, "recv", a) /\ Begin(t, "connect_req", s, "request", 0)
  BY DEF TakeConnectReq
<1>3. /\ th[t].at = "idle" /\ crush = "none" /\ s \notin pool /\ o.recv # <<>> /\ Len(o.recv) = 1
      /\ a.n \in Nat /\ a.n <= o.recv[1].len /\ o.recv[1].len \in Nat
      /\ a.kind \in {"none", "posted", "request", "fail", "end", "io"}
      /\ ops' = [ops EXCEPT ![s] = [recv |-> <<>>, send |-> o.send]]
  BY <1>1, <1>2, TakesRecv DEF View
<1>4. /\ v \in SocketType /\ UsedOK(v, c, o.recv, o.send, E, P, u) /\ CachesOK(v, n + k)
      /\ OpsFit(v, o.recv, o.send) /\ o \in OpsType /\ c \in Callbacks /\ n \in Nat /\ u \in Nat
  BY <1>1, <1>3, Viewed
<1>5. v.recv_op = "CONNECT_REQ" /\ UNCHANGED <<pool, evt_queue, cb, crush>>
  BY <1>1 DEF TakeConnectReq, View
<1>6. PICK r : r = [v EXCEPT !.recv_ack = @ + 1]
  OBVIOUS
<1>7. r \in SocketType /\ SameBytes(v, r)
  <2>1. v.recv_ack + 1 \in Nat
    BY <1>4 DEF SocketType
  <2> QED  BY <1>4, <1>6, <2>1 DEF SocketType, SameBytes
<1>8. PICK p : p = [recv |-> <<>>, send |-> o.send]
  OBVIOUS
<1>9. SlotStep(s, r, p, c) /\ p.recv = <<>> /\ p.send = o.send
  <2>1. p \in OpsType
    BY <1>4, <1>8 DEF OpsType
  <2>2. sock' = [sock EXCEPT ![s] = r] /\ cb' = [cb EXCEPT ![s] = c] /\ ops' = [ops EXCEPT ![s] = p]
    BY <1>1, <1>3, <1>5, <1>6, <1>8, Parts DEF TakeConnectReq, View, Types
  <2> QED  BY <1>4, <1>5, <1>7, <1>8, <2>1, <2>2, Parts DEF SlotStep, Types
<1>10. QueueStep(s, E, n)
  BY <1>1, <1>3, <1>5, QueueStays DEF View
<1>11. PICK Q, w : Q = P \cup {"connect_req"} /\ w = u
  OBVIOUS
<1>12. ThreadStep(s, Q, w, k) /\ HandlersFit(th', r, s)
  <2>1. PICK label, kind, m : label = "connect_req" /\ kind = "request" /\ m = 0
    OBVIOUS
  <2>2. PICK h : h = [at |-> label, sock |-> s, kind |-> kind, n |-> m, then |-> "idle"]
    OBVIOUS
  <2>3. Begins(t, s, label, kind, m, h)
    BY <1>2, <1>3, <2>1, <2>2 DEF Begins, Roles, RecvAt, SendAt, EndAt, CarryAt
  <2>4. \A R \in {RecvAt, SendAt, EndAt} : label \in R => P \cap R = {}
    BY <1>3, <1>4, <1>5, <2>1 DEF UsedOK, ReadingOK, SendingOK, EndingOK, Requested, RecvAt, SendAt, EndAt
  <2>5. w = u + (IF label \in SendAt THEN 1 ELSE 0) /\ Q = P \cup {label}
    BY <1>4, <1>11, <2>1 DEF SendAt
  <2>6. r.recv_used <= v.recv_used /\ v.data_need_send - v.data_has_send <= r.data_need_send - r.data_has_send
    BY <1>4, <1>7 DEF SameBytes, SocketType
  <2>7. /\ label = "recv" => m <= RecvCap - r.recv_used
        /\ label = "send" => m <= r.data_need_send - r.data_has_send
    <3>1. o.recv[1].len <= RecvCap - v.recv_used
      <4>1. 1 \in DOMAIN o.recv
        BY <1>3, <1>4 DEF OpsType
      <4> QED  BY <1>4, <4>1 DEF OpsFit
    <3>2. /\ r.recv_used = v.recv_used /\ r.data_need_send = v.data_need_send
               /\ r.data_has_send = v.data_has_send
          /\ v.recv_used \in Nat /\ v.data_need_send \in Nat /\ v.data_has_send \in Nat /\ RecvCap \in Nat
      BY <1>4, <1>7, IocpAssumption DEF SameBytes, SocketType
    <3> QED  BY <1>3, <2>1, <3>1, <3>2
  <2>8. UNCHANGED pool /\ s \notin pool /\ r \in SocketType
    BY <1>3, <1>5, <1>7
  <2>9. ThreadStep(s, Q, w, k) /\ HandlersFit(th', r, s)
    BY ONLY Inv, t \in Threads, s \in Sockets, <1>1, <2>3, <2>4, <2>5, <2>6, <2>7, <2>8, BeginningOn
  <2> QED  BY <2>9
<1>13. PICK rq, sq : rq = <<>> /\ sq = o.send /\ rq = <<>> /\ Len(rq) = 0
  OBVIOUS
<1>14. r.recv_req - r.recv_ack = 0
  <2>1. v.recv_req - v.recv_ack = 1
    BY <1>3, <1>4 DEF UsedOK, ReadingOK, SendingOK
  <2>2. v.recv_req \in Nat /\ v.recv_ack \in Nat /\ r.recv_req = v.recv_req /\ r.recv_ack = v.recv_ack + 1
          /\ u \in Nat
    BY <1>4, <1>6 DEF SocketType
  <2> QED  BY ONLY <1>11, <2>1, <2>2
<1>15. Len(o.recv) \in Nat /\ Len(o.send) \in Nat
  BY <1>1, <1>3, Viewed
<1>16. UsedOK(r, c, rq, sq, E, Q, w)
  <2> USE <1>3, <1>4, <1>5, <1>6, <1>11, <1>13 DEF UsedOK, SocketType, RecvAt, SendAt, EndAt, Requested, Opening
  <2>1. OpeningOK(r, c, sq, E, Q)
    BY DEF OpeningOK, ReadingOK
  <2>2. ReadingOK(r, rq, E, Q)
    <3>1. Len(rq) = 0 /\ rq = <<>> /\ r.recv_req - r.recv_ack = Len(rq)
      BY <1>13, <1>14
    <3>2. /\ "RECV_ACTIVE" \in E => Q \cap RecvAt = {}
          /\ "RECV_ACTIVE" \in E \/ Q \cap (RecvAt \ {"connect_req", "connect", "connect_ops"}) # {} => r.recv_op = "RECV"
      BY DEF ReadingOK, SendingOK, OpeningOK
    <3> QED  BY <3>1, <3>2 DEF ReadingOK
  <2>3. SendingOK(r, sq, Q, w)
    BY DEF SendingOK, Spent
  <2>4. EndingOK(r, c, sq, E, Q)
    BY DEF EndingOK
  <2>5. HeardOK(r, c, rq, sq, E, Q)
    BY DEF HeardOK
  <2> QED  BY <2>1, <2>2, <2>3, <2>4, <2>5
<1>17. CachesOK(r, n + k) /\ OpsFit(r, rq, sq)
  <2>1. CachesOK(r, n + k) /\ OpsFit(r, o.recv, o.send)
    BY <1>4, <1>7, SameFits
  <2> QED  BY <1>13, <2>1 DEF OpsFit
<1>18. Inv'
  <2>1. SlotStep(s, r, p, c) /\ p.recv = rq /\ p.send = sq
    BY <1>9, <1>13
  <2> QED  BY <1>3, <1>5, <1>10, <1>12, <1>16, <1>17, <2>1, UsedSlot
<1> QED  BY <1>3, <1>5, <1>18 DEF Kept

(* The completion of a connect. *)
LEMMA TakeConnectKeeps ==
  ASSUME Inv, NEW t \in Threads, NEW s \in Sockets, TakeConnect(t, s)
  PROVE  Kept
<1>1. PICK v, o, c, E, n, P, u, k : View(s, v, o, c, E, n, P, u, k)
  BY DEF View
<1>2. PICK a \in Results : Take(t, s, "recv", a) /\ Begin(t, "connect", s, a.kind, 0)
  BY DEF TakeConnect
<1>3. /\ th[t].at = "idle" /\ crush = "none" /\ s \notin pool /\ o.recv # <<>> /\ Len(o.recv) = 1
      /\ a.n \in Nat /\ a.n <= o.recv[1].len /\ o.recv[1].len \in Nat
      /\ a.kind \in {"none", "posted", "request", "fail", "end", "io"}
      /\ ops' = [ops EXCEPT ![s] = [recv |-> <<>>, send |-> o.send]]
  BY <1>1, <1>2, TakesRecv DEF View
<1>4. /\ v \in SocketType /\ UsedOK(v, c, o.recv, o.send, E, P, u) /\ CachesOK(v, n + k)
      /\ OpsFit(v, o.recv, o.send) /\ o \in OpsType /\ c \in Callbacks /\ n \in Nat /\ u \in Nat
  BY <1>1, <1>3, Viewed
<1>5. v.recv_op = "CONNECT" /\ UNCHANGED <<pool, evt_queue, cb, crush>>
  BY <1>1 DEF TakeConnect, View
<1>6. PICK r : r = [v EXCEPT !.recv_ack = @ + 1]
  OBVIOUS
<1>7. r \in SocketType /\ SameBytes(v, r)
  <2>1. v.recv_ack + 1 \in Nat
    BY <1>4 DEF SocketType
  <2> QED  BY <1>4, <1>6, <2>1 DEF SocketType, SameBytes
<1>8. PICK p : p = [recv |-> <<>>, send |-> o.send]
  OBVIOUS
<1>9. SlotStep(s, r, p, c) /\ p.recv = <<>> /\ p.send = o.send
  <2>1. p \in OpsType
    BY <1>4, <1>8 DEF OpsType
  <2>2. sock' = [sock EXCEPT ![s] = r] /\ cb' = [cb EXCEPT ![s] = c] /\ ops' = [ops EXCEPT ![s] = p]
    BY <1>1, <1>3, <1>5, <1>6, <1>8, Parts DEF TakeConnect, View, Types
  <2> QED  BY <1>4, <1>5, <1>7, <1>8, <2>1, <2>2, Parts DEF SlotStep, Types
<1>10. QueueStep(s, E, n)
  BY <1>1, <1>3, <1>5, QueueStays DEF View
<1>11. PICK Q, w : Q = P \cup {"connect"} /\ w = u
  OBVIOUS
<1>12. ThreadStep(s, Q, w, k) /\ HandlersFit(th', r, s)
  <2>1. PICK label, kind, m : label = "connect" /\ kind = a.kind /\ m = 0
    OBVIOUS
  <2>2. PICK h : h = [at |-> label, sock |-> s, kind |-> kind, n |-> m, then |-> "idle"]
    OBVIOUS
  <2>3. Begins(t, s, label, kind, m, h)
    BY <1>2, <1>3, <2>1, <2>2 DEF Begins, Roles, RecvAt, SendAt, EndAt, CarryAt
  <2>4. \A R \in {RecvAt, SendAt, EndAt} : label \in R => P \cap R = {}
    BY <1>3, <1>4, <1>5, <2>1 DEF UsedOK, ReadingOK, SendingOK, EndingOK, Requested, RecvAt, SendAt, EndAt
  <2>5. w = u + (IF label \in SendAt THEN 1 ELSE 0) /\ Q = P \cup {label}
    BY <1>4, <1>11, <2>1 DEF SendAt
  <2>6. r.recv_used <= v.recv_used /\ v.data_need_send - v.data_has_send <= r.data_need_send - r.data_has_send
    BY <1>4, <1>7 DEF SameBytes, SocketType
  <2>7. /\ label = "recv" => m <= RecvCap - r.recv_used
        /\ label = "send" => m <= r.data_need_send - r.data_has_send
    <3>1. o.recv[1].len <= RecvCap - v.recv_used
      <4>1. 1 \in DOMAIN o.recv
        BY <1>3, <1>4 DEF OpsType
      <4> QED  BY <1>4, <4>1 DEF OpsFit
    <3>2. /\ r.recv_used = v.recv_used /\ r.data_need_send = v.data_need_send
               /\ r.data_has_send = v.data_has_send
          /\ v.recv_used \in Nat /\ v.data_need_send \in Nat /\ v.data_has_send \in Nat /\ RecvCap \in Nat
      BY <1>4, <1>7, IocpAssumption DEF SameBytes, SocketType
    <3> QED  BY <1>3, <2>1, <3>1, <3>2
  <2>8. UNCHANGED pool /\ s \notin pool /\ r \in SocketType
    BY <1>3, <1>5, <1>7
  <2>9. ThreadStep(s, Q, w, k) /\ HandlersFit(th', r, s)
    BY ONLY Inv, t \in Threads, s \in Sockets, <1>1, <2>3, <2>4, <2>5, <2>6, <2>7, <2>8, BeginningOn
  <2> QED  BY <2>9
<1>13. PICK rq, sq : rq = <<>> /\ sq = o.send /\ rq = <<>> /\ Len(rq) = 0
  OBVIOUS
<1>14. r.recv_req - r.recv_ack = 0
  <2>1. v.recv_req - v.recv_ack = 1
    BY <1>3, <1>4 DEF UsedOK, ReadingOK, SendingOK
  <2>2. v.recv_req \in Nat /\ v.recv_ack \in Nat /\ r.recv_req = v.recv_req /\ r.recv_ack = v.recv_ack + 1
          /\ u \in Nat
    BY <1>4, <1>6 DEF SocketType
  <2> QED  BY ONLY <1>11, <2>1, <2>2
<1>15. Len(o.recv) \in Nat /\ Len(o.send) \in Nat
  BY <1>1, <1>3, Viewed
<1>16. UsedOK(r, c, rq, sq, E, Q, w)
  <2> USE <1>3, <1>4, <1>5, <1>6, <1>11, <1>13 DEF UsedOK, SocketType, RecvAt, SendAt, EndAt, Requested, Opening
  <2>1. OpeningOK(r, c, sq, E, Q)
    BY DEF OpeningOK, ReadingOK
  <2>2. ReadingOK(r, rq, E, Q)
    <3>1. Len(rq) = 0 /\ rq = <<>> /\ r.recv_req - r.recv_ack = Len(rq)
      BY <1>13, <1>14
    <3>2. /\ "RECV_ACTIVE" \in E => Q \cap RecvAt = {}
          /\ "RECV_ACTIVE" \in E \/ Q \cap (RecvAt \ {"connect_req", "connect", "connect_ops"}) # {} => r.recv_op = "RECV"
      BY DEF ReadingOK, SendingOK, OpeningOK
    <3> QED  BY <3>1, <3>2 DEF ReadingOK
  <2>3. SendingOK(r, sq, Q, w)
    BY DEF SendingOK, Spent
  <2>4. EndingOK(r, c, sq, E, Q)
    BY DEF EndingOK
  <2>5. HeardOK(r, c, rq, sq, E, Q)
    BY DEF HeardOK
  <2> QED  BY <2>1, <2>2, <2>3, <2>4, <2>5
<1>17. CachesOK(r, n + k) /\ OpsFit(r, rq, sq)
  <2>1. CachesOK(r, n + k) /\ OpsFit(r, o.recv, o.send)
    BY <1>4, <1>7, SameFits
  <2> QED  BY <1>13, <2>1 DEF OpsFit
<1>18. Inv'
  <2>1. SlotStep(s, r, p, c) /\ p.recv = rq /\ p.send = sq
    BY <1>9, <1>13
  <2> QED  BY <1>3, <1>5, <1>10, <1>12, <1>16, <1>17, <2>1, UsedSlot
<1> QED  BY <1>3, <1>5, <1>18 DEF Kept

(* The completion of a send, which stays to be acknowledged. *)
LEMMA TakeSendKeeps ==
  ASSUME Inv, NEW t \in Threads, NEW s \in Sockets, TakeSend(t, s)
  PROVE  Kept
<1>1. PICK v, o, c, E, n, P, u, k : View(s, v, o, c, E, n, P, u, k)
  BY DEF View
<1>2. PICK a \in Results : Take(t, s, "send", a) /\ Begin(t, "send", s, a.kind, a.n)
  BY DEF TakeSend
<1>3. /\ th[t].at = "idle" /\ crush = "none" /\ s \notin pool /\ o.send # <<>> /\ Len(o.send) = 1
      /\ a.n \in Nat /\ a.n <= o.send[1].len /\ o.send[1].len \in Nat
      /\ a.kind \in {"none", "posted", "request", "fail", "end", "io"}
      /\ ops' = [ops EXCEPT ![s] = [recv |-> o.recv, send |-> <<>>]]
  BY <1>1, <1>2, TakesSend DEF View
<1>4. /\ v \in SocketType /\ UsedOK(v, c, o.recv, o.send, E, P, u) /\ CachesOK(v, n + k)
      /\ OpsFit(v, o.recv, o.send) /\ o \in OpsType /\ c \in Callbacks /\ n \in Nat /\ u \in Nat
  BY <1>1, <1>3, Viewed
<1>5. v.send_op = "SEND" /\ UNCHANGED <<pool, evt_queue, cb, crush>>
  BY <1>1 DEF TakeSend, View
<1>6. PICK r : r = v
  OBVIOUS
<1>7. r \in SocketType /\ SameBytes(v, r)
  BY <1>4, <1>6 DEF SameBytes
<1>8. PICK p : p = [recv |-> o.recv, send |-> <<>>]
  OBVIOUS
<1>9. SlotStep(s, r, p, c) /\ p.recv = o.recv /\ p.send = <<>>
  <2>1. p \in OpsType
    BY <1>4, <1>8 DEF OpsType
  <2>2. sock' = [sock EXCEPT ![s] = r] /\ cb' = [cb EXCEPT ![s] = c] /\ ops' = [ops EXCEPT ![s] = p]
    BY <1>1, <1>3, <1>5, <1>6, <1>8, Parts DEF TakeSend, View, Types
  <2> QED  BY <1>4, <1>5, <1>7, <1>8, <2>1, <2>2, Parts DEF SlotStep, Types
<1>10. QueueStep(s, E, n)
  BY <1>1, <1>3, <1>5, QueueStays DEF View
<1>11. PICK Q, w : Q = P \cup {"send"} /\ w = u + 1
  OBVIOUS
<1>12. ThreadStep(s, Q, w, k) /\ HandlersFit(th', r, s)
  <2>1. PICK label, kind, m : label = "send" /\ kind = a.kind /\ m = a.n
    OBVIOUS
  <2>2. PICK h : h = [at |-> label, sock |-> s, kind |-> kind, n |-> m, then |-> "idle"]
    OBVIOUS
  <2>3. Begins(t, s, label, kind, m, h)
    BY <1>2, <1>3, <2>1, <2>2 DEF Begins, Roles, RecvAt, SendAt, EndAt, CarryAt
  <2>4. \A R \in {RecvAt, SendAt, EndAt} : label \in R => P \cap R = {}
    BY <1>3, <1>4, <1>5, <2>1 DEF UsedOK, ReadingOK, SendingOK, EndingOK, Requested, RecvAt, SendAt, EndAt
  <2>5. w = u + (IF label \in SendAt THEN 1 ELSE 0) /\ Q = P \cup {label}
    BY <1>4, <1>11, <2>1 DEF SendAt
  <2>6. r.recv_used <= v.recv_used /\ v.data_need_send - v.data_has_send <= r.data_need_send - r.data_has_send
    BY <1>4, <1>7 DEF SameBytes, SocketType
  <2>7. /\ label = "recv" => m <= RecvCap - r.recv_used
        /\ label = "send" => m <= r.data_need_send - r.data_has_send
    <3>1. o.send[1].len <= v.data_need_send - v.data_has_send
      <4>1. 1 \in DOMAIN o.send
        BY <1>3, <1>4 DEF OpsType
      <4> QED  BY <1>4, <4>1 DEF OpsFit
    <3>2. /\ r.recv_used = v.recv_used /\ r.data_need_send = v.data_need_send
               /\ r.data_has_send = v.data_has_send
          /\ v.recv_used \in Nat /\ v.data_need_send \in Nat /\ v.data_has_send \in Nat /\ RecvCap \in Nat
      BY <1>4, <1>7, IocpAssumption DEF SameBytes, SocketType
    <3> QED  BY <1>3, <2>1, <3>1, <3>2
  <2>8. UNCHANGED pool /\ s \notin pool /\ r \in SocketType
    BY <1>3, <1>5, <1>7
  <2>9. ThreadStep(s, Q, w, k) /\ HandlersFit(th', r, s)
    BY ONLY Inv, t \in Threads, s \in Sockets, <1>1, <2>3, <2>4, <2>5, <2>6, <2>7, <2>8, BeginningOn
  <2> QED  BY <2>9
<1>13. PICK rq, sq : rq = o.recv /\ sq = <<>> /\ sq = <<>> /\ Len(sq) = 0
  OBVIOUS
<1>14. r.send_req - r.send_ack = 0 + w
  <2>1. v.send_req - v.send_ack = 1 + u
    BY <1>3, <1>4 DEF UsedOK, ReadingOK, SendingOK
  <2>2. v.send_req \in Nat /\ v.send_ack \in Nat /\ r.send_req = v.send_req /\ r.send_ack = v.send_ack
          /\ u \in Nat
    BY <1>4, <1>6 DEF SocketType
  <2> QED  BY ONLY <1>11, <2>1, <2>2
<1>15. Len(o.recv) \in Nat /\ Len(o.send) \in Nat
  BY <1>1, <1>3, Viewed
<1>16. UsedOK(r, c, rq, sq, E, Q, w)
  <2> USE <1>3, <1>4, <1>5, <1>6, <1>11, <1>13 DEF UsedOK, SocketType, RecvAt, SendAt, EndAt, Requested, Opening
  <2>1. OpeningOK(r, c, sq, E, Q)
    BY DEF OpeningOK, SendingOK
  <2>2. ReadingOK(r, rq, E, Q)
    BY DEF ReadingOK
  <2>3. SendingOK(r, sq, Q, w)
    <3>1. Len(sq) = 0 /\ sq = <<>> /\ r.send_req - r.send_ack = Len(sq) + w
      BY <1>13, <1>14
    <3>2. /\ r.send_op = "CLOSE_REQ" => Q \cap SendAt = {}
          /\ r.state \in {"ESTABLISH", "CLOSE"} => r.send_op = "SEND" \/ "connect_ops" \in Q
      BY DEF SendingOK, OpeningOK
    <3> QED  BY <3>1, <3>2 DEF SendingOK
  <2>4. EndingOK(r, c, sq, E, Q)
    BY DEF EndingOK
  <2>5. HeardOK(r, c, rq, sq, E, Q)
    BY DEF HeardOK
  <2> QED  BY <2>1, <2>2, <2>3, <2>4, <2>5
<1>17. CachesOK(r, n + k) /\ OpsFit(r, rq, sq)
  <2>1. CachesOK(r, n + k) /\ OpsFit(r, o.recv, o.send)
    BY <1>4, <1>7, SameFits
  <2> QED  BY <1>13, <2>1 DEF OpsFit
<1>18. Inv'
  <2>1. SlotStep(s, r, p, c) /\ p.recv = rq /\ p.send = sq
    BY <1>9, <1>13
  <2> QED  BY <1>3, <1>5, <1>10, <1>12, <1>16, <1>17, <2>1, UsedSlot
<1> QED  BY <1>3, <1>5, <1>18 DEF Kept

(* The close request, which is the last operation for sending. *)
LEMMA TakeCloseReqKeeps ==
  ASSUME Inv, NEW t \in Threads, NEW s \in Sockets, TakeCloseReq(t, s)
  PROVE  Kept
<1>1. PICK v, o, c, E, n, P, u, k : View(s, v, o, c, E, n, P, u, k)
  BY DEF View
<1>2. PICK a \in Results : Take(t, s, "send", a) /\ Begin(t, "closesocket", s, "request", 0)
  BY DEF TakeCloseReq
<1>3. /\ th[t].at = "idle" /\ crush = "none" /\ s \notin pool /\ o.send # <<>> /\ Len(o.send) = 1
      /\ a.n \in Nat /\ a.n <= o.send[1].len /\ o.send[1].len \in Nat
      /\ a.kind \in {"none", "posted", "request", "fail", "end", "io"}
      /\ ops' = [ops EXCEPT ![s] = [recv |-> o.recv, send |-> <<>>]]
  BY <1>1, <1>2, TakesSend DEF View
<1>4. /\ v \in SocketType /\ UsedOK(v, c, o.recv, o.send, E, P, u) /\ CachesOK(v, n + k)
      /\ OpsFit(v, o.recv, o.send) /\ o \in OpsType /\ c \in Callbacks /\ n \in Nat /\ u \in Nat
  BY <1>1, <1>3, Viewed
<1>5. v.send_op = "CLOSE_REQ" /\ UNCHANGED <<pool, evt_queue, cb, crush>>
  BY <1>1 DEF TakeCloseReq, View
<1>6. PICK r : r = [v EXCEPT !.send_ack = @ + 1]
  OBVIOUS
<1>7. r \in SocketType /\ SameBytes(v, r)
  <2>1. v.send_ack + 1 \in Nat
    BY <1>4 DEF SocketType
  <2> QED  BY <1>4, <1>6, <2>1 DEF SocketType, SameBytes
<1>8. PICK p : p = [recv |-> o.recv, send |-> <<>>]
  OBVIOUS
<1>9. SlotStep(s, r, p, c) /\ p.recv = o.recv /\ p.send = <<>>
  <2>1. p \in OpsType
    BY <1>4, <1>8 DEF OpsType
  <2>2. sock' = [sock EXCEPT ![s] = r] /\ cb' = [cb EXCEPT ![s] = c] /\ ops' = [ops EXCEPT ![s] = p]
    BY <1>1, <1>3, <1>5, <1>6, <1>8, Parts DEF TakeCloseReq, View, Types
  <2> QED  BY <1>4, <1>5, <1>7, <1>8, <2>1, <2>2, Parts DEF SlotStep, Types
<1>10. QueueStep(s, E, n)
  BY <1>1, <1>3, <1>5, QueueStays DEF View
<1>11. PICK Q, w : Q = P \cup {"closesocket"} /\ w = u
  OBVIOUS
<1>12. ThreadStep(s, Q, w, k) /\ HandlersFit(th', r, s)
  <2>1. PICK label, kind, m : label = "closesocket" /\ kind = "request" /\ m = 0
    OBVIOUS
  <2>2. PICK h : h = [at |-> label, sock |-> s, kind |-> kind, n |-> m, then |-> "idle"]
    OBVIOUS
  <2>3. Begins(t, s, label, kind, m, h)
    BY <1>2, <1>3, <2>1, <2>2 DEF Begins, Roles, RecvAt, SendAt, EndAt, CarryAt
  <2>4. \A R \in {RecvAt, SendAt, EndAt} : label \in R => P \cap R = {}
    BY <1>3, <1>4, <1>5, <2>1 DEF UsedOK, ReadingOK, SendingOK, EndingOK, Requested, RecvAt, SendAt, EndAt
  <2>5. w = u + (IF label \in SendAt THEN 1 ELSE 0) /\ Q = P \cup {label}
    BY <1>4, <1>11, <2>1 DEF SendAt
  <2>6. r.recv_used <= v.recv_used /\ v.data_need_send - v.data_has_send <= r.data_need_send - r.data_has_send
    BY <1>4, <1>7 DEF SameBytes, SocketType
  <2>7. /\ label = "recv" => m <= RecvCap - r.recv_used
        /\ label = "send" => m <= r.data_need_send - r.data_has_send
    <3>1. o.send[1].len <= v.data_need_send - v.data_has_send
      <4>1. 1 \in DOMAIN o.send
        BY <1>3, <1>4 DEF OpsType
      <4> QED  BY <1>4, <4>1 DEF OpsFit
    <3>2. /\ r.recv_used = v.recv_used /\ r.data_need_send = v.data_need_send
               /\ r.data_has_send = v.data_has_send
          /\ v.recv_used \in Nat /\ v.data_need_send \in Nat /\ v.data_has_send \in Nat /\ RecvCap \in Nat
      BY <1>4, <1>7, IocpAssumption DEF SameBytes, SocketType
    <3> QED  BY <1>3, <2>1, <3>1, <3>2
  <2>8. UNCHANGED pool /\ s \notin pool /\ r \in SocketType
    BY <1>3, <1>5, <1>7
  <2>9. ThreadStep(s, Q, w, k) /\ HandlersFit(th', r, s)
    BY ONLY Inv, t \in Threads, s \in Sockets, <1>1, <2>3, <2>4, <2>5, <2>6, <2>7, <2>8, BeginningOn
  <2> QED  BY <2>9
<1>13. PICK rq, sq : rq = o.recv /\ sq = <<>> /\ sq = <<>> /\ Len(sq) = 0
  OBVIOUS
<1>14. r.send_req - r.send_ack = 0 + w
  <2>1. v.send_req - v.send_ack = 1 + u
    BY <1>3, <1>4 DEF UsedOK, ReadingOK, SendingOK
  <2>2. v.send_req \in Nat /\ v.send_ack \in Nat /\ r.send_req = v.send_req /\ r.send_ack = v.send_ack + 1
          /\ u \in Nat
    BY <1>4, <1>6 DEF SocketType
  <2> QED  BY ONLY <1>11, <2>1, <2>2
<1>15. Len(o.recv) \in Nat /\ Len(o.send) \in Nat
  BY <1>1, <1>3, Viewed
<1>16. UsedOK(r, c, rq, sq, E, Q, w)
  <2> USE <1>3, <1>4, <1>5, <1>6, <1>11, <1>13 DEF UsedOK, SocketType, RecvAt, SendAt, EndAt, Requested, Opening
  <2>1. OpeningOK(r, c, sq, E, Q)
    BY DEF OpeningOK, SendingOK
  <2>2. ReadingOK(r, rq, E, Q)
    BY DEF ReadingOK
  <2>3. SendingOK(r, sq, Q, w)
    <3>1. Len(sq) = 0 /\ sq = <<>> /\ r.send_req - r.send_ack = Len(sq) + w
      BY <1>13, <1>14
    <3>2. /\ r.send_op = "CLOSE_REQ" => Q \cap SendAt = {}
          /\ r.state = "TERMINATE"
      BY DEF SendingOK, EndingOK
    <3> QED  BY <3>1, <3>2 DEF SendingOK
  <2>4. EndingOK(r, c, sq, E, Q)
    BY DEF EndingOK
  <2>5. HeardOK(r, c, rq, sq, E, Q)
    BY DEF HeardOK, EndingOK
  <2> QED  BY <2>1, <2>2, <2>3, <2>4, <2>5
<1>17. CachesOK(r, n + k) /\ OpsFit(r, rq, sq)
  <2>1. CachesOK(r, n + k) /\ OpsFit(r, o.recv, o.send)
    BY <1>4, <1>7, SameFits
  <2> QED  BY <1>13, <2>1 DEF OpsFit
<1>18. Inv'
  <2>1. SlotStep(s, r, p, c) /\ p.recv = rq /\ p.send = sq
    BY <1>9, <1>13
  <2> QED  BY <1>3, <1>5, <1>10, <1>12, <1>16, <1>17, <2>1, UsedSlot
<1> QED  BY <1>3, <1>5, <1>18 DEF Kept

(***************************************************************************)
(* The main thread's steps that leave the events and the handlers alone.   *)
(***************************************************************************)
(* A slot in use keeps its operations, *)
LEMMA MainChanges ==
  ASSUME Inv, NEW s \in Sockets, s \notin pool,
         NEW v, NEW o, NEW c, NEW E, NEW n, NEW P, NEW u, NEW k, View(s, v, o, c, E, n, P, u, k),
         NEW r \in SocketType, sock' = [sock EXCEPT ![s] = r], UNCHANGED <<pool, evt_queue, ops, th, cb>>,
         r.recv_used <= v.recv_used,
         v.data_need_send - v.data_has_send <= r.data_need_send - r.data_has_send,
         UsedOK(r, c, o.recv, o.send, E, P, u), CachesOK(r, n + k), OpsFit(r, o.recv, o.send)
  PROVE  Inv'
<1>1. SlotStep(s, r, o, c)
  BY SlotChanges DEF View
<1>2. QueueStep(s, E, n)
  BY QueueStays DEF View
<1>3. ThreadStep(s, P, u, k) /\ HandlersFit(th', r, s)
  <2>1. UNCHANGED <<th, pool>>
    OBVIOUS
  <2> QED  BY <2>1, HandlersWait
<1> QED  BY <1>1, <1>2, <1>3, UsedSlot

(* ... or has one posted on its free structure for sending. *)
LEMMA MainPosts ==
  ASSUME Inv, NEW s \in Sockets, s \notin pool,
         NEW v, NEW o, NEW c, NEW E, NEW n, NEW P, NEW u, NEW k, View(s, v, o, c, E, n, P, u, k),
         v.send_req = v.send_ack, NEW x \in OpType, x.len = 0,
         NEW r \in SocketType, r.send_req = v.send_req + 1, r.send_ack = v.send_ack,
         sock' = [sock EXCEPT ![s] = r], ops' = [ops EXCEPT ![s].send = Append(@, x)],
         UNCHANGED <<pool, evt_queue, th, cb>>, SameBytes(v, r),
         r.state \in {"ESTABLISH", "CLOSE"} => r.send_op = "SEND",
         OpeningOK(r, c, <<x>>, E, P), ReadingOK(r, o.recv, E, P),
         EndingOK(r, c, <<x>>, E, P), HeardOK(r, c, o.recv, <<x>>, E, P)
  PROVE  Inv'
<1>1. /\ v \in SocketType /\ o \in OpsType /\ c \in Callbacks /\ u \in Nat
      /\ CachesOK(v, n + k) /\ OpsFit(v, o.recv, o.send)
  BY Viewed
<1>2. u = 0 /\ o.send = <<>> /\ P \cap SendAt = {}
  BY NoSends
<1>3. PICK p : p = [recv |-> o.recv, send |-> <<x>>]
  OBVIOUS
<1>4. SlotStep(s, r, p, c)
  <2>1. /\ cb' = [cb EXCEPT ![s] = c] /\ c \in Callbacks /\ pool' \subseteq Sockets
        /\ \A y \in Sockets : y # s => (y \in pool' <=> y \in pool)
    BY <1>1, Parts DEF View, Types
  <2>2. o = ops[s]
    BY DEF View
  <2> QED  BY <1>2, <1>3, <2>1, <2>2, PostsSend
<1>5. QueueStep(s, E, n)
  BY QueueStays DEF View
<1>6. ThreadStep(s, P, u, k) /\ HandlersFit(th', r, s)
  <2>1. UNCHANGED <<th, pool>>
    OBVIOUS
  <2>2. r.recv_used <= v.recv_used /\ v.data_need_send - v.data_has_send <= r.data_need_send - r.data_has_send
    BY <1>1 DEF SameBytes, SocketType
  <2> QED  BY <2>1, <2>2, HandlersWait
<1>7. PICK S : S = <<x>> /\ S # <<>> /\ Len(S) = 1
  <2>1. Len(<<x>>) = 1 /\ <<x>> # <<>>
    BY ONLY x \in OpType
  <2> QED  BY ONLY <2>1
<1>8. SendingOK(r, S, P, u)
  <2>1. v.send_req \in Nat /\ v.send_ack \in Nat
    BY <1>1 DEF SocketType
  <2>2. r.send_req - r.send_ack = Len(S) + u
    BY <1>2, <1>7, <2>1
  <2> QED  BY <1>2, <1>7, <2>2 DEF SendingOK
<1>9. UsedOK(r, c, o.recv, S, E, P, u)
  BY <1>7, <1>8 DEF UsedOK
<1>10. CachesOK(r, n + k) /\ OpsFit(r, o.recv, S)
  <2>1. CachesOK(r, n + k) /\ OpsFit(r, o.recv, o.send)
    BY <1>1, SameFits
  <2> QED  BY <1>2, <1>7, <2>1, PostedFits
<1>11. p.recv = o.recv /\ p.send = S
  BY <1>3, <1>7
<1> QED  BY <1>4, <1>5, <1>6, <1>9, <1>10, <1>11, UsedSlot

(* A session that is up is closed, *)
LEMMA MainCloses ==
  ASSUME Inv, NEW s \in Sockets, s \notin pool, sock[s].state = "ESTABLISH", cb[s] = "up",
         NEW e \in {"ok", "system", "overflow"}, sock' = [sock EXCEPT ![s] = MainClosed(s, e)],
         UNCHANGED <<pool, evt_queue, ops, th, cb>>
  PROVE  Inv'
<1>1. PICK v, o, c, E, n, P, u, k : View(s, v, o, c, E, n, P, u, k)
  BY DEF View
<1>2. v.state = "ESTABLISH" /\ c = "up"
  BY <1>1 DEF View
<1>3. /\ v \in SocketType /\ UsedOK(v, c, o.recv, o.send, E, P, u) /\ CachesOK(v, n + k)
      /\ OpsFit(v, o.recv, o.send)
  BY <1>1, Viewed
<1>4. PICK r : r = [v EXCEPT !.timer_send = FALSE, !.timer_close = TRUE, !.state = "CLOSE", !.error = e]
  OBVIOUS
<1>5. r \in SocketType /\ SameBytes(v, r)
  BY <1>2, <1>3, <1>4 DEF SocketType, SameBytes, States
<1>6. sock' = [sock EXCEPT ![s] = r]
  BY <1>1, <1>4 DEF View, MainClosed, ModTimerClose
<1>7. UsedOK(r, c, o.recv, o.send, E, P, u)
  <2> USE <1>2, <1>3, <1>4 DEF UsedOK, SocketType, RecvAt, SendAt, EndAt, Requested, Opening
  <2>1. OpeningOK(r, c, o.send, E, P)
    BY DEF OpeningOK
  <2>2. ReadingOK(r, o.recv, E, P)
    BY DEF ReadingOK
  <2>3. SendingOK(r, o.send, P, u)
    BY DEF SendingOK, OpeningOK, HeardOK
  <2>4. EndingOK(r, c, o.send, E, P)
    BY DEF EndingOK, HeardOK, OpeningOK
  <2>5. HeardOK(r, c, o.recv, o.send, E, P)
    BY DEF HeardOK, EndingOK
  <2> QED  BY <2>1, <2>2, <2>3, <2>4, <2>5
<1>8. CachesOK(r, n + k) /\ OpsFit(r, o.recv, o.send)
  BY <1>3, <1>5, SameFits
<1>9. r.recv_used <= v.recv_used /\ v.data_need_send - v.data_has_send <= r.data_need_send - r.data_has_send
  BY <1>3, <1>5 DEF SameBytes, SocketType
<1> QED  BY <1>1, <1>5, <1>6, <1>7, <1>8, <1>9, MainChanges

(* ... unless an io thread has begun to close it. *)
LEMMA MainCloseKeeps ==
  ASSUME Inv, NEW s \in Sockets, s \notin pool, cb[s] = "up",
         NEW e \in {"ok", "system", "overflow"}, MainClose(s, e),
         UNCHANGED <<pool, evt_queue, ops, th, cb>>
  PROVE  Inv'
<1>1. CASE sock[s].state = "ESTABLISH"
  BY <1>1, MainCloses DEF MainClose
<1>2. CASE sock[s].state # "ESTABLISH"
  BY <1>2, NothingChanges DEF MainClose
<1> QED  BY <1>1, <1>2

(* An orderly close spends its turns. *)
LEMMA TriesGrow ==
  ASSUME Inv, NEW s \in Sockets, s \notin pool, NEW m \in Nat, sock[s].try_close_send_count <= m, m <= MaxTry,
         sock' = [sock EXCEPT ![s].try_close_send_count = m], UNCHANGED <<pool, evt_queue, ops, th, cb>>
  PROVE  Inv'
<1>1. PICK v, o, c, E, n, P, u, k : View(s, v, o, c, E, n, P, u, k)
  BY DEF View
<1>3. /\ v \in SocketType /\ UsedOK(v, c, o.recv, o.send, E, P, u) /\ CachesOK(v, n + k)
      /\ OpsFit(v, o.recv, o.send) /\ v.try_close_send_count <= m
  BY <1>1, Viewed DEF View
<1>4. PICK r : r = [v EXCEPT !.try_close_send_count = m]
  OBVIOUS
<1>5. r \in SocketType
  BY <1>3, <1>4 DEF SocketType
<1>6. sock' = [sock EXCEPT ![s] = r]
  BY <1>1, <1>4 DEF View
<1>7. UsedOK(r, c, o.recv, o.send, E, P, u)
  <2> USE <1>3, <1>4, IocpAssumption DEF UsedOK, SocketType, Requested
  <2>1. OpeningOK(r, c, o.send, E, P)
    BY DEF OpeningOK
  <2>2. ReadingOK(r, o.recv, E, P)
    BY DEF ReadingOK
  <2>3. SendingOK(r, o.send, P, u)
    <3>1. v.try_close_send_count >= MaxTry => r.try_close_send_count >= MaxTry
      BY ONLY <1>3, <1>4, m \in Nat, IocpAssumption DEF SocketType
    <3>2. Spent(v) => Spent(r)
      BY <3>1 DEF Spent
    <3> QED  BY <3>2 DEF SendingOK
  <2>4. EndingOK(r, c, o.send, E, P)
    BY DEF EndingOK
  <2>5. HeardOK(r, c, o.recv, o.send, E, P)
    BY DEF HeardOK
  <2> QED  BY <2>1, <2>2, <2>3, <2>4, <2>5
<1>8. /\ r.recv_used = v.recv_used /\ r.data_has_recv = v.data_has_recv /\ r.state = v.state
      /\ r.data_need_send = v.data_need_send /\ r.data_has_send = v.data_has_send /\ r.try_close_send_count = m
  BY <1>3, <1>4 DEF SocketType
<1>9. CachesOK(r, n + k) /\ OpsFit(r, o.recv, o.send)
  BY <1>3, <1>8 DEF CachesOK, OpsFit
<1>10. r.recv_used <= v.recv_used /\ v.data_need_send - v.data_has_send <= r.data_need_send - r.data_has_send
  BY <1>3, <1>8 DEF SocketType
<1> QED  BY <1>1, <1>5, <1>6, <1>7, <1>9, <1>10, MainChanges

(* A byte more is to be sent. *)
LEMMA ByteAccepted ==
  ASSUME Inv, NEW s \in Sockets, s \notin pool, sock[s].state = "ESTABLISH", SendUsed(s) < SendCap,
         sock' = [sock EXCEPT ![s].data_need_send = @ + 1], UNCHANGED <<pool, evt_queue, ops, th, cb>>
  PROVE  Inv'
<1>1. PICK v, o, c, E, n, P, u, k : View(s, v, o, c, E, n, P, u, k)
  BY DEF View
<1>3. /\ v \in SocketType /\ UsedOK(v, c, o.recv, o.send, E, P, u) /\ CachesOK(v, n + k)
      /\ OpsFit(v, o.recv, o.send) /\ o \in OpsType /\ v.state = "ESTABLISH"
  BY <1>1, Viewed DEF View
<1>4. PICK r : r = [v EXCEPT !.data_need_send = @ + 1]
  OBVIOUS
<1>5. r \in SocketType
  BY <1>3, <1>4 DEF SocketType
<1>6. sock' = [sock EXCEPT ![s] = r]
  BY <1>1, <1>4 DEF View
<1>7. UsedOK(r, c, o.recv, o.send, E, P, u)
  <2> USE <1>3, <1>4 DEF UsedOK, SocketType, Requested
  <2>1. OpeningOK(r, c, o.send, E, P)
    BY DEF OpeningOK
  <2>2. ReadingOK(r, o.recv, E, P)
    BY DEF ReadingOK
  <2>3. SendingOK(r, o.send, P, u)
    BY DEF SendingOK
  <2>4. EndingOK(r, c, o.send, E, P)
    BY DEF EndingOK
  <2>5. HeardOK(r, c, o.recv, o.send, E, P)
    BY DEF HeardOK
  <2> QED  BY <2>1, <2>2, <2>3, <2>4, <2>5
<1>8. /\ r.recv_used = v.recv_used /\ r.data_has_recv = v.data_has_recv /\ r.state = v.state
      /\ r.data_need_send = v.data_need_send + 1 /\ r.data_has_send = v.data_has_send
      /\ r.try_close_send_count = v.try_close_send_count
      /\ v.data_need_send \in Nat /\ v.data_has_send \in Nat /\ v.recv_used \in Nat
  BY <1>3, <1>4 DEF SocketType
<1>9. v.data_need_send - v.data_has_send < SendCap /\ v.data_has_send <= v.data_need_send /\ SendCap \in Nat
  BY <1>1, <1>3, IocpAssumption DEF SendUsed, View, CachesOK
<1>10. CachesOK(r, n + k)
  <2>1. r.data_has_send <= r.data_need_send /\ r.data_need_send - r.data_has_send <= SendCap
    BY <1>8, <1>9
  <2> QED  BY <1>3, <1>8, <2>1 DEF CachesOK
<1>11. OpsFit(r, o.recv, o.send)
  <2>1. \A i \in DOMAIN o.send : o.send[i].len \in Nat /\ o.send[i].len <= v.data_need_send - v.data_has_send
    <3>1. PICK q \in Seq(OpType) : q = o.send
      BY <1>3 DEF OpsType
    <3>2. \A i \in DOMAIN q : q[i].len \in Nat
      <4>1. \A m \in OpType : m.len \in Nat
        BY DEF OpType
      <4> QED  BY ONLY <3>1, <4>1
    <3>3. \A i \in DOMAIN q : q[i].len <= v.data_need_send - v.data_has_send
      BY ONLY <1>3, <3>1 DEF OpsFit
    <3> QED  BY ONLY <3>1, <3>2, <3>3
  <2>2. \A i \in DOMAIN o.send : o.send[i].len <= r.data_need_send - r.data_has_send
    BY <1>8, <2>1
  <2> QED  BY <1>3, <1>8, <2>2 DEF OpsFit
<1>12. r.recv_used <= v.recv_used /\ v.data_need_send - v.data_has_send <= r.data_need_send - r.data_has_send
  BY <1>8
<1> QED  BY <1>1, <1>5, <1>6, <1>7, <1>10, <1>11, <1>12, MainChanges

(* A send is posted when none is under way, be the session up, being closed or over, *)
LEMMA SendPosted ==
  ASSUME Inv, NEW s \in Sockets, s \notin pool, cb[s] = "up", sock[s].send_op = "SEND",
         sock[s].state \in {"ESTABLISH", "CLOSE", "TERMINATE"}, SendIdle(s),
         sock' = [sock EXCEPT ![s].send_req = @ + 1], Post(s, "send", "posted", 0),
         UNCHANGED <<pool, evt_queue, th, cb>>
  PROVE  Inv'
<1>1. PICK v, o, c, E, n, P, u, k : View(s, v, o, c, E, n, P, u, k)
  BY DEF View
<1>2. /\ v.state \in {"ESTABLISH", "CLOSE", "TERMINATE"} /\ c = "up" /\ v.send_op = "SEND"
      /\ v.send_req = v.send_ack
  BY <1>1 DEF View, SendIdle
<1>3. v \in SocketType /\ UsedOK(v, c, o.recv, o.send, E, P, u)
  BY <1>1, Viewed
<1>4. PICK r, x : r = [v EXCEPT !.send_req = @ + 1] /\ x = [kind |-> "posted", len |-> 0]
  OBVIOUS
<1>5. r \in SocketType /\ SameBytes(v, r) /\ x \in OpType /\ x.len = 0
  BY <1>2, <1>3, <1>4 DEF SocketType, SameBytes, OpType
<1>6. sock' = [sock EXCEPT ![s] = r] /\ ops' = [ops EXCEPT ![s].send = Append(@, x)]
  BY <1>1, <1>4 DEF View, Post
<1>7. r.send_req = v.send_req + 1 /\ r.send_ack = v.send_ack /\ r.send_op = "SEND"
  BY <1>2, <1>3, <1>4 DEF SocketType
<1>8. /\ OpeningOK(r, c, <<x>>, E, P) /\ ReadingOK(r, o.recv, E, P)
      /\ EndingOK(r, c, <<x>>, E, P) /\ HeardOK(r, c, o.recv, <<x>>, E, P)
  <2> USE <1>2, <1>3, <1>4, <1>7 DEF UsedOK, SocketType, RecvAt, SendAt, EndAt, Requested, Opening
  <2>1. OpeningOK(r, c, <<x>>, E, P)
    BY DEF OpeningOK
  <2>2. ReadingOK(r, o.recv, E, P)
    BY DEF ReadingOK
  <2>3. EndingOK(r, c, <<x>>, E, P)
    BY DEF EndingOK
  <2>4. HeardOK(r, c, o.recv, <<x>>, E, P)
    BY DEF HeardOK
  <2> QED  BY <2>1, <2>2, <2>3, <2>4
<1> QED  BY <1>1, <1>2, <1>5, <1>6, <1>7, <1>8, MainPosts

(* ... and so is the close request, which takes the structure for good. *)
LEMMA ClosePosted ==
  ASSUME Inv, NEW s \in Sockets, s \notin pool, sock[s].state = "CLOSE", SendIdle(s),
         sock' = [sock EXCEPT ![s].send_req = @ + 1, ![s].send_op = "CLOSE_REQ",
                              ![s].state = "TERMINATE", ![s].timer_close = FALSE],
         Post(s, "send", "request", 0), UNCHANGED <<pool, evt_queue, th, cb>>
  PROVE  Inv'
<1>1. PICK v, o, c, E, n, P, u, k : View(s, v, o, c, E, n, P, u, k)
  BY DEF View
<1>2. v.state = "CLOSE" /\ v.send_req = v.send_ack
  BY <1>1 DEF View, SendIdle
<1>3. v \in SocketType /\ UsedOK(v, c, o.recv, o.send, E, P, u)
  BY <1>1, Viewed
<1>4. PICK r, x : /\ r = [v EXCEPT !.send_req = @ + 1, !.send_op = "CLOSE_REQ",
                                   !.state = "TERMINATE", !.timer_close = FALSE]
                  /\ x = [kind |-> "request", len |-> 0]
  OBVIOUS
<1>5. r \in SocketType /\ SameBytes(v, r) /\ x \in OpType /\ x.len = 0
  <2>1. v \in SocketType
    BY <1>3
  <2>2. r \in SocketType /\ r.state = "TERMINATE"
    <3>1. PICK m \in Nat : m = v.send_req + 1
      BY <2>1 DEF SocketType
    <3>2. PICK q \in SocketType : q = [v EXCEPT !.send_req = m, !.send_op = "CLOSE_REQ"]
      BY ONLY <2>1, m \in Nat DEF SocketType
    <3>3. r = [q EXCEPT !.state = "TERMINATE", !.timer_close = FALSE]
      BY ONLY <1>4, <2>1, <3>1, <3>2 DEF SocketType
    <3>4. PICK w \in SocketType : w = [q EXCEPT !.timer_close = FALSE]
      BY ONLY q \in SocketType DEF SocketType
    <3>5. r = [w EXCEPT !.state = "TERMINATE"] /\ "TERMINATE" \in States
      BY ONLY <3>3, <3>4 DEF SocketType, States
    <3>6. r \in SocketType
      BY ONLY <3>4, <3>5 DEF SocketType
    <3>7. r.state = "TERMINATE"
      BY ONLY <3>4, <3>5 DEF SocketType
    <3> QED  BY ONLY <3>6, <3>7
  <2>3. SameBytes(v, r)
    BY ONLY <1>4, <2>1, <2>2 DEF SocketType, SameBytes
  <2>4. x \in OpType /\ x.len = 0
    BY ONLY <1>4 DEF OpType
  <2> QED  BY <2>2, <2>3, <2>4
<1>6. sock' = [sock EXCEPT ![s] = r] /\ ops' = [ops EXCEPT ![s].send = Append(@, x)]
  BY <1>1, <1>4 DEF View, Post
<1>7. r.send_req = v.send_req + 1 /\ r.send_ack = v.send_ack /\ r.state = "TERMINATE"
  BY <1>2, <1>3, <1>4 DEF SocketType
<1>8. /\ OpeningOK(r, c, <<x>>, E, P) /\ ReadingOK(r, o.recv, E, P)
      /\ EndingOK(r, c, <<x>>, E, P) /\ HeardOK(r, c, o.recv, <<x>>, E, P)
  <2> USE <1>2, <1>3, <1>4, <1>7 DEF UsedOK, SocketType, RecvAt, SendAt, EndAt, Requested, Opening
  <2>1. OpeningOK(r, c, <<x>>, E, P)
    BY DEF OpeningOK, EndingOK
  <2>2. ReadingOK(r, o.recv, E, P)
    BY DEF ReadingOK
  <2>3. EndingOK(r, c, <<x>>, E, P)
    BY DEF EndingOK
  <2>4. HeardOK(r, c, o.recv, <<x>>, E, P)
    BY DEF HeardOK, EndingOK
  <2> QED  BY <2>1, <2>2, <2>3, <2>4
<1> QED  BY <1>1, <1>2, <1>5, <1>6, <1>7, <1>8, MainPosts

(* A close request that the port refused leaves its operation code behind. *)
LEMMA CloseRefused ==
  ASSUME Inv, NEW s \in Sockets, s \notin pool, sock[s].state = "CLOSE", SendIdle(s), Spent(sock[s]),
         sock' = [sock EXCEPT ![s].send_op = "CLOSE_REQ"], UNCHANGED <<pool, evt_queue, ops, th, cb>>
  PROVE  Inv'
<1>1. PICK v, o, c, E, n, P, u, k : View(s, v, o, c, E, n, P, u, k)
  BY DEF View
<1>2. v.state = "CLOSE" /\ v.send_req = v.send_ack /\ Spent(v)
  BY <1>1 DEF View, SendIdle
<1>3. /\ v \in SocketType /\ UsedOK(v, c, o.recv, o.send, E, P, u) /\ CachesOK(v, n + k)
      /\ OpsFit(v, o.recv, o.send)
  BY <1>1, Viewed
<1>4. PICK r : r = [v EXCEPT !.send_op = "CLOSE_REQ"]
  OBVIOUS
<1>5. r \in SocketType /\ SameBytes(v, r)
  BY <1>2, <1>3, <1>4 DEF SocketType, SameBytes
<1>6. sock' = [sock EXCEPT ![s] = r]
  BY <1>1, <1>4 DEF View
<1>7. u = 0 /\ o.send = <<>> /\ P \cap SendAt = {}
  BY <1>1, <1>2, NoSends
<1>8. UsedOK(r, c, o.recv, o.send, E, P, u)
  <2> USE <1>2, <1>3, <1>4, <1>7 DEF UsedOK, SocketType, Requested
  <2>1. OpeningOK(r, c, o.send, E, P)
    BY DEF OpeningOK, EndingOK, Opening
  <2>2. ReadingOK(r, o.recv, E, P)
    BY DEF ReadingOK
  <2>3. SendingOK(r, o.send, P, u)
    BY DEF SendingOK, Spent
  <2>4. EndingOK(r, c, o.send, E, P)
    BY DEF EndingOK
  <2>5. HeardOK(r, c, o.recv, o.send, E, P)
    BY DEF HeardOK
  <2> QED  BY <2>1, <2>2, <2>3, <2>4, <2>5
<1>9. CachesOK(r, n + k) /\ OpsFit(r, o.recv, o.send)
  BY <1>3, <1>5, SameFits
<1>10. r.recv_used <= v.recv_used /\ v.data_need_send - v.data_has_send <= r.data_need_send - r.data_has_send
  BY <1>3, <1>5 DEF SameBytes, SocketType
<1> QED  BY <1>1, <1>5, <1>6, <1>8, <1>9, <1>10, MainChanges
-----------------------------------------------------------------------------
(* The comparison of the counters, and what begins it. *)

(* A slot that the application or a timer deals with is in use. *)
LEMMA InUse ==
  ASSUME Inv, NEW s \in Sockets, sock[s].state \in {"ESTABLISH", "CLOSE"} \/ sock[s].timer_close
  PROVE  /\ s \notin pool /\ sock[s] \in SocketType
         /\ sock[s].timer_send => cb[s] = "up"
         /\ sock[s].state = "CLOSE" => sock[s].timer_close /\ cb[s] = "up"
         /\ sock[s].state = "ESTABLISH" /\ cb[s] = "up" => sock[s].send_op = "SEND"
         /\ sock[s].state = "CLOSE" /\ sock[s].send_op # "SEND" => Spent(sock[s])
<1>1. s \notin pool
  BY UsedView DEF FreeOK
<1>2. PICK v, o, c, E, n, P, u, k : View(s, v, o, c, E, n, P, u, k)
  BY DEF View
<1>3. v \in SocketType /\ UsedOK(v, c, o.recv, o.send, E, P, u)
  BY <1>1, <1>2, Viewed
<1>4. v.state = "CLOSE" => v.timer_close /\ c = "up"
  BY <1>3 DEF UsedOK, EndingOK
<1>5. v.timer_send => c = "up"
  BY <1>3 DEF UsedOK, HeardOK
<1>6. v.state = "ESTABLISH" /\ c = "up" => v.send_op = "SEND"
  BY <1>3 DEF UsedOK, OpeningOK, SendingOK, Opening
<1>7. v.state = "CLOSE" /\ v.send_op # "SEND" => Spent(v)
  BY <1>3 DEF UsedOK, SendingOK
<1> QED  BY <1>1, <1>2, <1>3, <1>4, <1>5, <1>6, <1>7 DEF View

(* A comparison that begins is about a session in use. *)
LEMMA Begun ==
  ASSUME NEW s \in Sockets, NEW at \in {"send", "again", "close"}, Compare(s, at),
         s \notin pool', cb'[s] = "up",
         at = "send" => sock'[s].state \in {"ESTABLISH", "TERMINATE"} /\ sock'[s].send_op = "SEND",
         at # "send" => sock'[s].state = "CLOSE",
         at = "again" => sock'[s].send_op = "SEND",
         at = "close" => Spent(sock'[s])
  PROVE  LookOK'
<1>1. PICK l : l = [NoLook EXCEPT !.at = at, !.sock = s]
  OBVIOUS
<1>2. look' = l
  BY <1>1 DEF Compare
<1>3. l \in LookType /\ l.at = at /\ l.sock = s /\ l.first = "none"
  BY <1>1 DEF LookType, NoLook
<1> QED  BY <1>2, <1>3 DEF LookOK

LEMMA NoLookOK ==
  ASSUME look' = NoLook
  PROVE  LookOK'
<1>1. NoLook \in LookType /\ NoLook.at = "none" /\ NoLook.first = "none"
  BY DEF NoLook, LookType
<1> QED  BY <1>1 DEF LookOK

(* The timer for delayed sending. *)
LEMMA OnTimerSendKeeps ==
  ASSUME Inv, NEW s \in Sockets, OnTimerSend(s)
  PROVE  Kept /\ LookOK'
<1>1. Inv' /\ crush' = "none"
  BY NothingChanges DEF OnTimerSend, MainFree, Running
<1>2. s \notin pool /\ cb[s] = "up" /\ sock[s].send_op = "SEND" /\ sock[s].state = "ESTABLISH"
  BY InUse DEF OnTimerSend
<1>3. LookOK'
  BY <1>2, Begun DEF OnTimerSend
<1> QED  BY <1>1, <1>3 DEF Kept

(* A turn of an orderly close. *)
LEMMA OnTimerCloseTryKeeps ==
  ASSUME Inv, NEW s \in Sockets, OnTimerCloseTry(s)
  PROVE  Kept /\ LookOK'
<1>1. /\ s \notin pool /\ cb[s] = "up" /\ sock[s].state = "CLOSE" /\ sock[s] \in SocketType
      /\ sock[s].send_op # "SEND" => Spent(sock[s])
  BY InUse DEF OnTimerCloseTry
<1>2. PICK m : m = sock[s].try_close_send_count + 1
  OBVIOUS
<1>3. m \in Nat /\ sock[s].try_close_send_count <= m /\ m <= MaxTry
  BY <1>1, <1>2, IocpAssumption DEF OnTimerCloseTry, SocketType
<1>4. sock' = [sock EXCEPT ![s].try_close_send_count = m] /\ UNCHANGED <<pool, evt_queue, ops, th, cb>>
  BY <1>2 DEF OnTimerCloseTry
<1>5. Inv'
  BY <1>1, <1>3, <1>4, TriesGrow
<1>6. /\ sock'[s].state = "CLOSE" /\ sock'[s].send_op = sock[s].send_op
      /\ sock'[s].data_need_send = sock[s].data_need_send /\ sock'[s].data_has_send = sock[s].data_has_send
  BY <1>1, <1>4, Parts DEF Types, SocketType
<1>7. ~Spent(sock[s]) \/ sock[s].data_need_send = sock[s].data_has_send
  BY <1>1, IocpAssumption DEF OnTimerCloseTry, Spent, SocketType
<1>8. CASE SendUsed(s) # 0
  <2>1. sock[s].data_need_send # sock[s].data_has_send
    BY <1>1, <1>8 DEF SendUsed, SocketType
  <2>2. sock[s].send_op = "SEND"
    BY <1>1, <1>7, <2>1
  <2>3. Compare(s, "again")
    BY <1>8 DEF OnTimerCloseTry
  <2> QED  BY <1>1, <1>4, <1>5, <1>6, <2>2, <2>3, Begun DEF OnTimerCloseTry, Kept, MainFree, Running
<1>9. CASE SendUsed(s) = 0
  <2>1. sock[s].data_need_send = sock[s].data_has_send
    BY <1>1, <1>9 DEF SendUsed, SocketType
  <2>2. Spent(sock'[s])
    BY <1>6, <2>1 DEF Spent
  <2>3. Compare(s, "close")
    BY <1>9 DEF OnTimerCloseTry
  <2> QED  BY <1>1, <1>4, <1>5, <1>6, <2>2, <2>3, Begun DEF OnTimerCloseTry, Kept, MainFree, Running
<1> QED  BY <1>8, <1>9

(* The turns are spent. *)
LEMMA OnTimerCloseKeeps ==
  ASSUME Inv, NEW s \in Sockets, OnTimerClose(s)
  PROVE  Kept /\ LookOK'
<1>1. Inv' /\ crush' = "none"
  BY NothingChanges DEF OnTimerClose, MainFree, Running
<1>2. s \notin pool /\ cb[s] = "up" /\ sock[s].state = "CLOSE" /\ Spent(sock[s])
  BY InUse, IocpAssumption DEF OnTimerClose, Spent
<1>3. LookOK'
  BY <1>2, Begun DEF OnTimerClose
<1> QED  BY <1>1, <1>3 DEF Kept

(* The application closes a session that is up, *)
LEMMA NetTcpCloseSessionKeeps ==
  ASSUME Inv, LookOK, NEW s \in Sockets, NetTcpCloseSession(s)
  PROVE  Kept /\ LookOK'
<1>1. s \notin pool
  BY InUse DEF NetTcpCloseSession
<1>2. Inv' /\ crush' = "none"
  BY <1>1, MainCloseKeeps DEF NetTcpCloseSession, MainFree, Running
<1>3. LookOK'
  BY DEF NetTcpCloseSession, MainFree, LookOK
<1> QED  BY <1>2, <1>3 DEF Kept

(* ... or sends a byte, and closes the session when it does not fit. *)
LEMMA NetTcpSendKeeps ==
  ASSUME Inv, LookOK, NEW s \in Sockets, NetTcpSend(s)
  PROVE  Kept /\ LookOK'
<1>1. /\ s \notin pool /\ cb[s] = "up" /\ sock[s].state = "ESTABLISH" /\ sock[s].send_op = "SEND"
      /\ sock[s] \in SocketType /\ UNCHANGED <<pool, evt_queue, ops, th, cb>> /\ crush' = "none"
  BY InUse DEF NetTcpSend, MainFree, Running
<1>2. CASE MainClose(s, "overflow") /\ UNCHANGED look
  <2>1. LookOK'
    BY <1>2 DEF NetTcpSend, MainFree, LookOK
  <2> QED  BY <1>1, <1>2, <2>1, MainCloseKeeps DEF Kept
<1>3. CASE /\ SendUsed(s) < SendCap /\ sock' = [sock EXCEPT ![s].data_need_send = @ + 1]
           /\ Compare(s, "send")
  <2>1. Inv'
    BY <1>1, <1>3, ByteAccepted
  <2>2. sock'[s].state = "ESTABLISH" /\ sock'[s].send_op = "SEND"
    BY <1>1, <1>3, Parts DEF Types, SocketType
  <2>3. LookOK'
    BY <1>1, <1>3, <2>2, Begun
  <2> QED  BY <1>1, <2>1, <2>3 DEF Kept
<1> QED  BY <1>2, <1>3 DEF NetTcpSend

(* The comparison itself: the first load, *)
LEMMA FirstLoadKeeps ==
  ASSUME Inv, LookOK, FirstLoad
  PROVE  Kept /\ LookOK'
<1>1. Inv' /\ crush' = "none"
  BY NothingChanges DEF FirstLoad, Running
<1>2. PICK s \in Sockets : s = look.sock /\ sock[s] \in SocketType
  BY Parts DEF FirstLoad, LookOK
<1>3. PICK first \in {"req", "ack"} : look' = [look EXCEPT !.first = first,
        !.n = IF first = "req" THEN sock[look.sock].send_req ELSE sock[look.sock].send_ack]
  BY DEF FirstLoad
<1>4. PICK m \in Nat : m = IF first = "req" THEN sock[s].send_req ELSE sock[s].send_ack
  BY <1>2 DEF SocketType
<1>5. /\ look' \in LookType /\ look'.at = look.at /\ look'.sock = s /\ look'.first = first /\ look'.n = m
      /\ look.at # "none"
  BY <1>2, <1>3, <1>4 DEF FirstLoad, LookOK, LookType
<1>6. UNCHANGED <<sock, pool, cb>>
  BY DEF FirstLoad
<1>7. /\ first = "req" => m <= sock[s].send_req
      /\ first = "ack" => m <= sock[s].send_ack
  BY <1>2, <1>4 DEF SocketType
<1> QED  BY <1>1, <1>2, <1>5, <1>6, <1>7 DEF Kept, LookOK

(* ... the second one, when they differ, *)
LEMMA DifferKeeps ==
  ASSUME Inv, Differ
  PROVE  Kept /\ LookOK'
BY NothingChanges, NoLookOK DEF Differ, Running, Kept

(* ... when they agree and no send is under way, *)
LEMMA Compared ==
  ASSUME Inv, LookOK, Agree
  PROVE  /\ look.at # "none" /\ look.sock \in Sockets /\ look.sock \notin pool /\ cb[look.sock] = "up"
         /\ crush = "none" /\ sock[look.sock] \in SocketType
         /\ look.at = "send" => sock[look.sock].state \in {"ESTABLISH", "TERMINATE"}
         /\ look.at # "send" => sock[look.sock].state = "CLOSE"
         /\ look.at \in {"send", "again"} => sock[look.sock].send_op = "SEND"
         /\ look.at = "close" => Spent(sock[look.sock])
BY Parts DEF Agree, LookOK, Running

LEMMA PostSendReqKeeps ==
  ASSUME Inv, LookOK, PostSendReq
  PROVE  Kept /\ LookOK'
<1>1. Agree /\ SendIdle(look.sock) /\ look.at \in {"send", "again"} /\ look' = NoLook
  BY DEF PostSendReq
<1>2. Inv'
  BY <1>1, Compared, SendPosted DEF PostSendReq
<1> QED  BY <1>1, <1>2, Compared, NoLookOK DEF Kept, PostSendReq

LEMMA PostCloseReqKeeps ==
  ASSUME Inv, LookOK, PostCloseReq
  PROVE  Kept /\ LookOK'
<1>1. Agree /\ SendIdle(look.sock) /\ look.at = "close" /\ look' = NoLook
  BY DEF PostCloseReq
<1>2. Inv'
  BY <1>1, Compared, ClosePosted DEF PostCloseReq
<1> QED  BY <1>1, <1>2, Compared, NoLookOK DEF Kept, PostCloseReq

LEMMA PostRefusedKeeps ==
  ASSUME Inv, LookOK, PostRefused
  PROVE  Kept /\ LookOK'
<1>1. Agree /\ SendIdle(look.sock) /\ look' = NoLook /\ UNCHANGED <<pool, evt_queue, ops, th, cb, crush>>
  BY DEF PostRefused
<1>2. CASE look.at = "send" /\ MainClose(look.sock, "system")
  BY <1>1, <1>2, Compared, MainCloseKeeps, NoLookOK DEF Kept
<1>3. CASE look.at = "again" /\ sock' = [sock EXCEPT ![look.sock].try_close_send_count = MaxTry]
  <2>1. MaxTry \in Nat /\ sock[look.sock].try_close_send_count <= MaxTry /\ MaxTry <= MaxTry
    BY <1>1, Compared, UsedView, IocpAssumption DEF CachesOK
  <2> QED  BY <1>1, <1>3, <2>1, Compared, TriesGrow, NoLookOK DEF Kept
<1>4. CASE look.at = "close" /\ sock' = [sock EXCEPT ![look.sock].send_op = "CLOSE_REQ"]
  BY <1>1, <1>4, Compared, CloseRefused, NoLookOK DEF Kept
<1> QED  BY <1>2, <1>3, <1>4 DEF PostRefused

(* ... and when they agree although one is: the requests were loaded first, and one has come since. *)
Gone == crush' \in {"misread", "outlasted"} /\ UNCHANGED <<sock, pool, evt_queue, ops, th, cb, look>>

LEMMA MisreadGoes ==
  ASSUME Inv, LookOK, Misread
  PROVE  Gone /\ MisreadOnlySo'
<1>1. Agree /\ ~SendIdle(look.sock) /\ crush' = "misread" /\ UNCHANGED <<sock, pool, evt_queue, ops, th, cb, look>>
  BY DEF Misread
<1>2. PICK s \in Sockets : s = look.sock /\ s \notin pool /\ look.at # "none"
  BY <1>1, Compared
<1>3. PICK v, o, c, E, n, P, u, k : View(s, v, o, c, E, n, P, u, k)
  BY DEF View
<1>4. v \in SocketType /\ SendingOK(v, o.send, P, u) /\ u \in Nat /\ Len(o.send) \in Nat
  BY <1>2, <1>3, Viewed DEF UsedOK
<1>5. v.send_ack <= v.send_req /\ v.send_req \in Nat /\ v.send_ack \in Nat
  BY <1>4 DEF SendingOK, SocketType
<1>6. /\ look \in LookType /\ look.first # "none"
      /\ look.first = "req" => look.n <= v.send_req /\ look.n = v.send_ack
      /\ look.first = "ack" => look.n <= v.send_ack /\ look.n = v.send_req
      /\ v.send_req # v.send_ack
  BY <1>1, <1>2, <1>3 DEF LookOK, Agree, SendIdle, View
<1>7. look.n \in Nat /\ look.first \in {"req", "ack"}
  BY <1>6 DEF LookType
<1>8. look.first = "req" /\ look.n < v.send_req
  BY <1>5, <1>6, <1>7
<1>9. look' = look /\ sock'[s] = v
  BY <1>1, <1>3 DEF View
<1> QED  BY <1>1, <1>2, <1>8, <1>9 DEF Gone, MisreadOnlySo

(* The application hears of a session it has heard nothing of, or is connecting. *)
LEMMA EvtEstablishKeeps ==
  ASSUME Inv, EvtEstablish
  PROVE  Kept
<1>t. TakeEvt("ESTABLISH")
  BY DEF EvtEstablish
<1>s. PICK s, len : s = Head(evt_queue).sock /\ len = Head(evt_queue).len
  OBVIOUS
<1>1. PICK v, o, c, E, n, P, u, k : View(s, v, o, c, E, n, P, u, k)
  BY DEF View
<1>2. crush = "none" /\ UNCHANGED <<th, pool>> /\ s \in Sockets /\ s \notin pool /\ len \in Nat /\ len = 0
  <2>1. UNCHANGED pool
    BY DEF EvtEstablish
  <2>2. s \in Sockets /\ s \notin pool /\ len \in Nat /\ len = 0
    BY <1>t, <1>s, <2>1, QueueShrinks
  <2> QED  BY <1>t, <2>2 DEF EvtEstablish, TakeEvt, MainFree, Running
<1>3. /\ v \in SocketType /\ UsedOK(v, c, o.recv, o.send, E, P, u) /\ CachesOK(v, n + k)
      /\ OpsFit(v, o.recv, o.send) /\ o \in OpsType /\ c \in Callbacks /\ n \in Nat /\ u \in Nat
  BY <1>1, <1>2, Viewed
<1>len. Len(o.recv) \in Nat /\ Len(o.send) \in Nat
  BY <1>1, <1>2, Viewed
<1>0. PICK F, m : /\ QueueStep(s, F, m) /\ m \in Nat /\ n = m + len
                  /\ "ESTABLISH" \in E /\ E = F \cup {"ESTABLISH"} /\ "ESTABLISH" \notin F
                  /\ ("ESTABLISH" \in TerminalEvents => F \cap TerminalEvents = {}) /\ "ESTABLISH" \notin F
  <2>1. UNCHANGED pool
    BY <1>2
  <2>2. PICK F, m : /\ QueueStep(s, F, m) /\ m \in Nat /\ Announced(evt_queue, s) = m + len
                    /\ "ESTABLISH" \in TypesIn(evt_queue, s) /\ TypesIn(evt_queue, s) = F \cup {"ESTABLISH"}
                    /\ "ESTABLISH" \notin F
                    /\ ("ESTABLISH" \in TerminalEvents => F \cap TerminalEvents = {}) /\ "ESTABLISH" \notin F
    BY <1>t, <1>s, <2>1, QueueShrinks
  <2> QED  BY <1>1, <2>2 DEF View
<1>k. k \in Nat
  BY <1>1, CarriedNat DEF View
<1>4. c \in {"idle", "connecting"}
  BY <1>0, <1>2, <1>3 DEF UsedOK, HeardOK
<1>5. PICK r0, d0 : r0 = [v EXCEPT !.timer_send = TRUE] /\ d0 = "up"
  OBVIOUS
<1>6. /\ sock' = [sock EXCEPT ![s] = r0]
      /\ cb' = [cb EXCEPT ![s] = d0] /\ UNCHANGED ops
  BY <1>s, <1>1, <1>2, <1>4, <1>5, Parts DEF EvtEstablish, View, Types, Callbacks, ModTimerClose
<1>7. ASSUME /\ sock' = [sock EXCEPT ![s] = r0]
             /\ cb' = [cb EXCEPT ![s] = d0] /\ UNCHANGED ops PROVE Inv'
  <2>1. PICK r, d : r = r0 /\ d = d0
    OBVIOUS
  <2>2. r \in SocketType /\ SameBytes(v, r)
    BY <1>2, <1>3, <1>5, <2>1 DEF SocketType, SameBytes, States
  <2>3. SlotStep(s, r, o, d)
    <3>1. sock' = [sock EXCEPT ![s] = r] /\ UNCHANGED <<ops, pool>> /\ cb' = [cb EXCEPT ![s] = d]
      BY <1>1, <1>2, <1>7, <2>1 DEF View
    <3>2. d \in Callbacks
      BY <1>5, <2>1 DEF Callbacks
    <3> QED  BY <1>1, <1>2, <1>3, <2>2, <3>1, <3>2, Parts DEF SlotStep, Types, View
  <2>7. ThreadStep(s, P, u, k) /\ HandlersFit(th', r, s)
    <3>1. r.recv_used <= v.recv_used /\ v.data_need_send - v.data_has_send <= r.data_need_send - r.data_has_send
      BY <1>2, <1>3, <2>1, <2>2 DEF SocketType, SameBytes
    <3>2. UNCHANGED <<th, pool>> /\ r \in SocketType
      BY <1>2, <2>2, <1>7 DEF EvtEstablish
    <3>3. s \in Sockets
      BY <1>2
    <3> QED  BY ONLY Inv, <1>1, <3>1, <3>2, <3>3, HandlersWait
  <2>8. UsedOK(r, d, o.recv, o.send, F, P, u)
    <3> USE <1>2, <1>3, <1>7, <2>1, <1>0, <1>4, <1>5 DEF UsedOK, SocketType, RecvAt, SendAt, EndAt,
          Requested, Opening, TerminalEvents
    <3>1. OpeningOK(r, d, o.send, F, P)
      BY DEF OpeningOK
    <3>2. ReadingOK(r, o.recv, F, P)
      BY DEF ReadingOK
    <3>3. SendingOK(r, o.send, P, u)
      BY DEF SendingOK, Spent
    <3>4. EndingOK(r, d, o.send, F, P)
      BY DEF EndingOK, OpeningOK
    <3>5. HeardOK(r, d, o.recv, o.send, F, P)
      BY DEF HeardOK, OpeningOK
    <3> QED  BY <3>1, <3>2, <3>3, <3>4, <3>5
  <2>9. CachesOK(r, m + k) /\ OpsFit(r, o.recv, o.send)
    <3>1. CachesOK(r, m + k) /\ OpsFit(r, o.recv, o.send)
      <4>1. m = n
        BY <1>0, <1>2
      <4> QED  BY <1>3, <2>2, <4>1, SameFits
    <3>2. OpsFit(r, o.recv, o.send)
      BY <3>1
    <3> QED  BY <3>1, <3>2
  <2> QED  BY <1>2, <2>3, <1>0, <2>7, <2>8, <2>9, UsedSlot
<1>8. Inv'
  BY <1>6, <1>7
<1>9. crush' = "none"
  BY <1>2 DEF EvtEstablish
<1> QED  BY <1>8, <1>9 DEF Kept

(* The application hears the end of a session it has heard to be up. *)
LEMMA EvtEndKeeps ==
  ASSUME Inv, EvtEnd
  PROVE  Kept
<1>t. PICK type \in TerminalEvents \ {"CONNECT_FAIL"} : TakeEvt(type)
  BY DEF EvtEnd
<1>s. PICK s, len : s = Head(evt_queue).sock /\ len = Head(evt_queue).len
  OBVIOUS
<1>1. PICK v, o, c, E, n, P, u, k : View(s, v, o, c, E, n, P, u, k)
  BY DEF View
<1>2. crush = "none" /\ UNCHANGED <<th, pool>> /\ s \in Sockets /\ s \notin pool /\ len \in Nat
        /\ (type # "DATA" => len = 0)
  <2>1. UNCHANGED pool
    BY DEF EvtEnd
  <2>2. s \in Sockets /\ s \notin pool /\ len \in Nat /\ (type # "DATA" => len = 0)
    BY <1>t, <1>s, <2>1, QueueShrinks
  <2> QED  BY <1>t, <2>2 DEF EvtEnd, TakeEvt, MainFree, Running
<1>3. /\ v \in SocketType /\ UsedOK(v, c, o.recv, o.send, E, P, u) /\ CachesOK(v, n + k)
      /\ OpsFit(v, o.recv, o.send) /\ o \in OpsType /\ c \in Callbacks /\ n \in Nat /\ u \in Nat
  BY <1>1, <1>2, Viewed
<1>len. Len(o.recv) \in Nat /\ Len(o.send) \in Nat
  BY <1>1, <1>2, Viewed
<1>0. PICK F, m : /\ QueueStep(s, F, m) /\ m \in Nat /\ n = m + len
                  /\ type \in E /\ E = F \cup {type} /\ (type # "DATA" => type \notin F)
                  /\ (type \in TerminalEvents => F \cap TerminalEvents = {}) /\ "ESTABLISH" \notin F
  <2>1. UNCHANGED pool
    BY <1>2
  <2>2. PICK F, m : /\ QueueStep(s, F, m) /\ m \in Nat /\ Announced(evt_queue, s) = m + len
                    /\ type \in TypesIn(evt_queue, s) /\ TypesIn(evt_queue, s) = F \cup {type}
                    /\ (type # "DATA" => type \notin F)
                    /\ (type \in TerminalEvents => F \cap TerminalEvents = {}) /\ "ESTABLISH" \notin F
    BY <1>t, <1>s, <2>1, QueueShrinks
  <2> QED  BY <1>1, <2>2 DEF View
<1>k. k \in Nat
  BY <1>1, CarriedNat DEF View
<1>4. c = "up"
  BY <1>t, <1>0, <1>2, <1>3 DEF UsedOK, HeardOK, TerminalEvents
<1>5. PICK r0, d0 : r0 = [v EXCEPT !.timer_send = FALSE, !.timer_close = TRUE] /\ d0 = "down"
  OBVIOUS
<1>6. /\ sock' = [sock EXCEPT ![s] = r0]
      /\ cb' = [cb EXCEPT ![s] = d0] /\ UNCHANGED ops
  BY <1>s, <1>1, <1>2, <1>4, <1>5, Parts DEF EvtEnd, View, Types, Callbacks, ModTimerClose
<1>7. ASSUME /\ sock' = [sock EXCEPT ![s] = r0]
             /\ cb' = [cb EXCEPT ![s] = d0] /\ UNCHANGED ops PROVE Inv'
  <2>1. PICK r, d : r = r0 /\ d = d0
    OBVIOUS
  <2>2. r \in SocketType /\ SameBytes(v, r)
    BY <1>2, <1>3, <1>5, <2>1 DEF SocketType, SameBytes, States
  <2>3. SlotStep(s, r, o, d)
    <3>1. sock' = [sock EXCEPT ![s] = r] /\ UNCHANGED <<ops, pool>> /\ cb' = [cb EXCEPT ![s] = d]
      BY <1>1, <1>2, <1>7, <2>1 DEF View
    <3>2. d \in Callbacks
      BY <1>5, <2>1 DEF Callbacks
    <3> QED  BY <1>1, <1>2, <1>3, <2>2, <3>1, <3>2, Parts DEF SlotStep, Types, View
  <2>7. ThreadStep(s, P, u, k) /\ HandlersFit(th', r, s)
    <3>1. r.recv_used <= v.recv_used /\ v.data_need_send - v.data_has_send <= r.data_need_send - r.data_has_send
      BY <1>2, <1>3, <2>1, <2>2 DEF SocketType, SameBytes
    <3>2. UNCHANGED <<th, pool>> /\ r \in SocketType
      BY <1>2, <2>2, <1>7 DEF EvtEnd
    <3>3. s \in Sockets
      BY <1>2
    <3> QED  BY ONLY Inv, <1>1, <3>1, <3>2, <3>3, HandlersWait
  <2>8. UsedOK(r, d, o.recv, o.send, F, P, u)
    <3> USE <1>2, <1>3, <1>7, <2>1, <1>0, <1>4, <1>5 DEF UsedOK, SocketType, RecvAt, SendAt, EndAt,
          Requested, Opening, TerminalEvents
    <3>1. OpeningOK(r, d, o.send, F, P)
      BY DEF OpeningOK
    <3>2. ReadingOK(r, o.recv, F, P)
      BY DEF ReadingOK
    <3>3. SendingOK(r, o.send, P, u)
      BY DEF SendingOK, Spent
    <3>4. EndingOK(r, d, o.send, F, P)
      BY DEF EndingOK, OpeningOK
    <3>5. HeardOK(r, d, o.recv, o.send, F, P)
      BY DEF HeardOK, OpeningOK, EndingOK
    <3> QED  BY <3>1, <3>2, <3>3, <3>4, <3>5
  <2>9. CachesOK(r, m + k) /\ OpsFit(r, o.recv, o.send)
    <3>1. CachesOK(r, m + k) /\ OpsFit(r, o.recv, o.send)
      <4>1. m = n
        BY <1>t, <1>0, <1>2, <1>3 DEF TerminalEvents
      <4> QED  BY <1>3, <2>2, <4>1, SameFits
    <3>2. OpsFit(r, o.recv, o.send)
      BY <3>1
    <3> QED  BY <3>1, <3>2
  <2> QED  BY <1>2, <2>3, <1>0, <2>7, <2>8, <2>9, UsedSlot
<1>8. Inv'
  BY <1>6, <1>7
<1>9. crush' = "none"
  BY <1>2 DEF EvtEnd
<1> QED  BY <1>8, <1>9 DEF Kept

(* The application hears that its connect failed. *)
LEMMA EvtConnectFailKeeps ==
  ASSUME Inv, EvtConnectFail
  PROVE  Kept
<1>t. TakeEvt("CONNECT_FAIL")
  BY DEF EvtConnectFail
<1>s. PICK s, len : s = Head(evt_queue).sock /\ len = Head(evt_queue).len
  OBVIOUS
<1>1. PICK v, o, c, E, n, P, u, k : View(s, v, o, c, E, n, P, u, k)
  BY DEF View
<1>2. crush = "none" /\ UNCHANGED <<th, pool>> /\ s \in Sockets /\ s \notin pool /\ len \in Nat /\ len = 0
  <2>1. UNCHANGED pool
    BY DEF EvtConnectFail
  <2>2. s \in Sockets /\ s \notin pool /\ len \in Nat /\ len = 0
    BY <1>t, <1>s, <2>1, QueueShrinks
  <2> QED  BY <1>t, <2>2 DEF EvtConnectFail, TakeEvt, MainFree, Running
<1>3. /\ v \in SocketType /\ UsedOK(v, c, o.recv, o.send, E, P, u) /\ CachesOK(v, n + k)
      /\ OpsFit(v, o.recv, o.send) /\ o \in OpsType /\ c \in Callbacks /\ n \in Nat /\ u \in Nat
  BY <1>1, <1>2, Viewed
<1>len. Len(o.recv) \in Nat /\ Len(o.send) \in Nat
  BY <1>1, <1>2, Viewed
<1>0. PICK F, m : /\ QueueStep(s, F, m) /\ m \in Nat /\ n = m + len
                  /\ "CONNECT_FAIL" \in E /\ E = F \cup {"CONNECT_FAIL"} /\ "CONNECT_FAIL" \notin F
                  /\ ("CONNECT_FAIL" \in TerminalEvents => F \cap TerminalEvents = {}) /\ "ESTABLISH" \notin F
  <2>1. UNCHANGED pool
    BY <1>2
  <2>2. PICK F, m : /\ QueueStep(s, F, m) /\ m \in Nat /\ Announced(evt_queue, s) = m + len
                    /\ "CONNECT_FAIL" \in TypesIn(evt_queue, s)
                         /\ TypesIn(evt_queue, s) = F \cup {"CONNECT_FAIL"}
                    /\ "CONNECT_FAIL" \notin F
                    /\ ("CONNECT_FAIL" \in TerminalEvents => F \cap TerminalEvents = {}) /\ "ESTABLISH" \notin F
    BY <1>t, <1>s, <2>1, QueueShrinks
  <2> QED  BY <1>1, <2>2 DEF View
<1>k. k \in Nat
  BY <1>1, CarriedNat DEF View
<1>4. c = "connecting"
  BY <1>0, <1>2, <1>3 DEF UsedOK, HeardOK
<1>5. PICK r0, d0 : r0 = [v EXCEPT !.timer_send = FALSE, !.timer_close = TRUE] /\ d0 = "down"
  OBVIOUS
<1>6. /\ sock' = [sock EXCEPT ![s] = r0]
      /\ cb' = [cb EXCEPT ![s] = d0] /\ UNCHANGED ops
  BY <1>s, <1>1, <1>2, <1>4, <1>5, Parts DEF EvtConnectFail, View, Types, Callbacks, ModTimerClose
<1>7. ASSUME /\ sock' = [sock EXCEPT ![s] = r0]
             /\ cb' = [cb EXCEPT ![s] = d0] /\ UNCHANGED ops PROVE Inv'
  <2>1. PICK r, d : r = r0 /\ d = d0
    OBVIOUS
  <2>2. r \in SocketType /\ SameBytes(v, r)
    BY <1>2, <1>3, <1>5, <2>1 DEF SocketType, SameBytes, States
  <2>3. SlotStep(s, r, o, d)
    <3>1. sock' = [sock EXCEPT ![s] = r] /\ UNCHANGED <<ops, pool>> /\ cb' = [cb EXCEPT ![s] = d]
      BY <1>1, <1>2, <1>7, <2>1 DEF View
    <3>2. d \in Callbacks
      BY <1>5, <2>1 DEF Callbacks
    <3> QED  BY <1>1, <1>2, <1>3, <2>2, <3>1, <3>2, Parts DEF SlotStep, Types, View
  <2>7. ThreadStep(s, P, u, k) /\ HandlersFit(th', r, s)
    <3>1. r.recv_used <= v.recv_used /\ v.data_need_send - v.data_has_send <= r.data_need_send - r.data_has_send
      BY <1>2, <1>3, <2>1, <2>2 DEF SocketType, SameBytes
    <3>2. UNCHANGED <<th, pool>> /\ r \in SocketType
      BY <1>2, <2>2, <1>7 DEF EvtConnectFail
    <3>3. s \in Sockets
      BY <1>2
    <3> QED  BY ONLY Inv, <1>1, <3>1, <3>2, <3>3, HandlersWait
  <2>8. UsedOK(r, d, o.recv, o.send, F, P, u)
    <3> USE <1>2, <1>3, <1>7, <2>1, <1>0, <1>4, <1>5 DEF UsedOK, SocketType, RecvAt, SendAt, EndAt,
          Requested, Opening, TerminalEvents
    <3>1. OpeningOK(r, d, o.send, F, P)
      BY DEF OpeningOK
    <3>2. ReadingOK(r, o.recv, F, P)
      BY DEF ReadingOK
    <3>3. SendingOK(r, o.send, P, u)
      BY DEF SendingOK, Spent
    <3>4. EndingOK(r, d, o.send, F, P)
      BY DEF EndingOK, OpeningOK, HeardOK
    <3>5. HeardOK(r, d, o.recv, o.send, F, P)
      BY DEF HeardOK, OpeningOK, EndingOK
    <3> QED  BY <3>1, <3>2, <3>3, <3>4, <3>5
  <2>9. CachesOK(r, m + k) /\ OpsFit(r, o.recv, o.send)
    <3>1. CachesOK(r, m + k) /\ OpsFit(r, o.recv, o.send)
      <4>1. m = n
        BY <1>0, <1>2
      <4> QED  BY <1>3, <2>2, <4>1, SameFits
    <3>2. OpsFit(r, o.recv, o.send)
      BY <3>1
    <3> QED  BY <3>1, <3>2
  <2> QED  BY <1>2, <2>3, <1>0, <2>7, <2>8, <2>9, UsedSlot
<1>8. Inv'
  BY <1>6, <1>7
<1>9. crush' = "none"
  BY <1>2 DEF EvtConnectFail
<1> QED  BY <1>8, <1>9 DEF Kept

(* The parser takes what has been announced, leaves it, or refuses it. *)
LEMMA EvtDataKeeps ==
  ASSUME Inv, EvtData
  PROVE  Kept
<1>t. TakeEvt("DATA")
  BY DEF EvtData
<1>s. PICK s, len : s = Head(evt_queue).sock /\ len = Head(evt_queue).len
  OBVIOUS
<1>1. PICK v, o, c, E, n, P, u, k : View(s, v, o, c, E, n, P, u, k)
  BY DEF View
<1>2. crush = "none" /\ UNCHANGED <<th, pool>> /\ s \in Sockets /\ s \notin pool /\ len \in Nat
  <2>1. UNCHANGED pool
    BY DEF EvtData
  <2>2. s \in Sockets /\ s \notin pool /\ len \in Nat
    BY <1>t, <1>s, <2>1, QueueShrinks
  <2> QED  BY <1>t, <2>2 DEF EvtData, TakeEvt, MainFree, Running
<1>3. /\ v \in SocketType /\ UsedOK(v, c, o.recv, o.send, E, P, u) /\ CachesOK(v, n + k)
      /\ OpsFit(v, o.recv, o.send) /\ o \in OpsType /\ c \in Callbacks /\ n \in Nat /\ u \in Nat
  BY <1>1, <1>2, Viewed
<1>len. Len(o.recv) \in Nat /\ Len(o.send) \in Nat
  BY <1>1, <1>2, Viewed
<1>0. PICK F, m : /\ QueueStep(s, F, m) /\ m \in Nat /\ n = m + len
                  /\ "DATA" \in E /\ E = F \cup {"DATA"}
                  /\ ("DATA" \in TerminalEvents => F \cap TerminalEvents = {}) /\ "ESTABLISH" \notin F
  <2>1. UNCHANGED pool
    BY <1>2
  <2>2. PICK F, m : /\ QueueStep(s, F, m) /\ m \in Nat /\ Announced(evt_queue, s) = m + len
                    /\ "DATA" \in TypesIn(evt_queue, s) /\ TypesIn(evt_queue, s) = F \cup {"DATA"}
                   
                    /\ ("DATA" \in TerminalEvents => F \cap TerminalEvents = {}) /\ "ESTABLISH" \notin F
    BY <1>t, <1>s, <2>1, QueueShrinks
  <2> QED  BY <1>1, <2>2 DEF View
<1>k. k \in Nat
  BY <1>1, CarriedNat DEF View
<1>has. PICK has : has = v.data_has_recv + len
  OBVIOUS
<1>fit. /\ has \in Nat /\ has + (m + k) <= v.recv_used /\ v.recv_used - has \in Nat
        /\ v.state \in {"CONNECT", "ESTABLISH"} => has + (m + k) = v.recv_used
  <2>1. PICK x \in Nat, y \in Nat : x = v.data_has_recv /\ y = v.recv_used
    BY <1>3 DEF SocketType
  <2>2. x + ((m + len) + k) <= y /\ (v.state \in {"CONNECT", "ESTABLISH"} => x + ((m + len) + k) = y)
    BY <1>0, <1>3, <2>1 DEF CachesOK
  <2>3. m \in Nat /\ len \in Nat /\ k \in Nat /\ has = x + len
    BY <1>0, <1>2, <1>k, <1>has, <2>1
  <2>4. has \in Nat /\ has + (m + k) <= y /\ y - has \in Nat /\ (x + ((m + len) + k) = y => has + (m + k) = y)
    BY ONLY <2>2, <2>3, <2>1
  <2> QED  BY <2>1, <2>2, <2>4
<1>4. ASSUME sock' = [sock EXCEPT ![s] = [v EXCEPT !.data_has_recv = 0, !.recv_used = v.recv_used - has]]
        /\ UNCHANGED <<ops, cb>> PROVE Inv'
  <2>1. PICK r, d : r = [v EXCEPT !.data_has_recv = 0, !.recv_used = v.recv_used - has] /\ d = c
    OBVIOUS
  <2>2. r \in SocketType
    BY <1>2, <1>3, <1>4, <1>fit, <2>1 DEF SocketType, SameBytes, States
  <2>3. SlotStep(s, r, o, d)
    <3>1. sock' = [sock EXCEPT ![s] = r] /\ UNCHANGED <<ops, pool>> /\ cb' = [cb EXCEPT ![s] = d]
      BY <1>1, <1>2, <1>4, <2>1, Parts DEF View, Types
    <3>2. d \in Callbacks
      BY <1>3, <2>1 DEF Callbacks
    <3> QED  BY <1>1, <1>2, <1>3, <2>2, <3>1, <3>2, Parts DEF SlotStep, Types, View
  <2>7. ThreadStep(s, P, u, k) /\ HandlersFit(th', r, s)
    <3>1. r.recv_used <= v.recv_used /\ v.data_need_send - v.data_has_send <= r.data_need_send - r.data_has_send
      BY <1>2, <1>3, <1>fit, <2>1, <2>2 DEF SocketType, SameBytes
    <3>2. UNCHANGED <<th, pool>> /\ r \in SocketType
      BY <1>2, <2>2, <1>4 DEF EvtData
    <3>3. s \in Sockets
      BY <1>2
    <3> QED  BY ONLY Inv, <1>1, <3>1, <3>2, <3>3, HandlersWait
  <2>8. UsedOK(r, d, o.recv, o.send, F, P, u)
    <3> USE <1>2, <1>3, <1>4, <2>1, <1>0 DEF UsedOK, SocketType, RecvAt, SendAt, EndAt, Requested, Opening,
          TerminalEvents
    <3>1. OpeningOK(r, d, o.send, F, P)
      BY DEF OpeningOK
    <3>2. ReadingOK(r, o.recv, F, P)
      BY DEF ReadingOK
    <3>3. SendingOK(r, o.send, P, u)
      BY DEF SendingOK, Spent
    <3>4. EndingOK(r, d, o.send, F, P)
      BY DEF EndingOK
    <3>5. HeardOK(r, d, o.recv, o.send, F, P)
      BY DEF HeardOK
    <3> QED  BY <3>1, <3>2, <3>3, <3>4, <3>5
  <2>9. CachesOK(r, m + k) /\ OpsFit(r, o.recv, o.send)
    <3>1. CachesOK(r, m + k) /\ OpsFit(r, o.recv, o.send)
      <4>1. /\ r.recv_used = v.recv_used - has /\ r.data_has_recv = 0
                 /\ (r.state \in {"CONNECT", "ESTABLISH"} => v.state \in {"CONNECT", "ESTABLISH"})
            /\ r.data_need_send = v.data_need_send /\ r.data_has_send = v.data_has_send
            /\ r.try_close_send_count = v.try_close_send_count
        BY <1>3, <2>1 DEF SocketType
      <4>2. /\ v.recv_used \in Nat /\ RecvCap \in Nat /\ has \in Nat /\ m + k \in Nat /\ v.recv_used <= RecvCap
        BY <1>0, <1>3, <1>k, <1>fit, IocpAssumption DEF SocketType, CachesOK
      <4>3. /\ r.recv_used <= RecvCap /\ r.data_has_recv + (m + k) <= r.recv_used
            /\ r.state \in {"CONNECT", "ESTABLISH"} => r.data_has_recv + (m + k) = r.recv_used
        <5>1. PICK x \in Nat, y \in Nat : x = v.recv_used /\ y = m + k
          BY <4>2
        <5>2. has + y <= x /\ (v.state \in {"CONNECT", "ESTABLISH"} => has + y = x)
          BY <1>fit, <5>1
        <5>3. r.recv_used = x - has /\ r.data_has_recv = 0 /\ x <= RecvCap
          BY <4>1, <4>2, <5>1
        <5>4. r.recv_used <= RecvCap /\ r.data_has_recv + y <= r.recv_used
                /\ (has + y = x => r.data_has_recv + y = r.recv_used)
          BY ONLY <4>2, <5>1, <5>2, <5>3
        <5> QED  BY <4>1, <5>1, <5>2, <5>4
      <4>4. CachesOK(r, m + k)
        BY <1>3, <4>1, <4>3 DEF CachesOK
      <4>5. \A i \in DOMAIN o.recv : o.recv[i].len <= RecvCap - r.recv_used
        <5>1. PICK q \in Seq(OpType) : q = o.recv
          BY <1>3 DEF OpsType
        <5>2. \A i \in DOMAIN q : q[i] \in OpType
          BY <5>1
        <5>3. \A i \in DOMAIN q : q[i].len \in Nat /\ q[i].len <= RecvCap - v.recv_used
          BY <1>3, <5>1, <5>2 DEF OpsFit, OpType
        <5>4. r.recv_used <= v.recv_used /\ r.recv_used \in Nat
          BY <2>2, <4>1, <4>2 DEF SocketType
        <5> QED  BY <4>2, <5>1, <5>3, <5>4
      <4> QED  BY <1>3, <4>1, <4>4, <4>5 DEF OpsFit
    <3>2. OpsFit(r, o.recv, o.send)
      BY <3>1
    <3> QED  BY <3>1, <3>2
  <2> QED  BY <1>2, <2>3, <1>0, <2>7, <2>8, <2>9, UsedSlot
<1>5. ASSUME sock' = [sock EXCEPT ![s] = [v EXCEPT !.data_has_recv = has]] /\ UNCHANGED <<ops, cb>> PROVE Inv'
  <2>1. PICK r, d : r = [v EXCEPT !.data_has_recv = has] /\ d = c
    OBVIOUS
  <2>2. r \in SocketType
    BY <1>2, <1>3, <1>5, <1>fit, <2>1 DEF SocketType, SameBytes, States
  <2>3. SlotStep(s, r, o, d)
    <3>1. sock' = [sock EXCEPT ![s] = r] /\ UNCHANGED <<ops, pool>> /\ cb' = [cb EXCEPT ![s] = d]
      BY <1>1, <1>2, <1>5, <2>1, Parts DEF View, Types
    <3>2. d \in Callbacks
      BY <1>3, <2>1 DEF Callbacks
    <3> QED  BY <1>1, <1>2, <1>3, <2>2, <3>1, <3>2, Parts DEF SlotStep, Types, View
  <2>7. ThreadStep(s, P, u, k) /\ HandlersFit(th', r, s)
    <3>1. r.recv_used <= v.recv_used /\ v.data_need_send - v.data_has_send <= r.data_need_send - r.data_has_send
      BY <1>2, <1>3, <1>fit, <2>1, <2>2 DEF SocketType, SameBytes
    <3>2. UNCHANGED <<th, pool>> /\ r \in SocketType
      BY <1>2, <2>2, <1>5 DEF EvtData
    <3>3. s \in Sockets
      BY <1>2
    <3> QED  BY ONLY Inv, <1>1, <3>1, <3>2, <3>3, HandlersWait
  <2>8. UsedOK(r, d, o.recv, o.send, F, P, u)
    <3> USE <1>2, <1>3, <1>5, <2>1, <1>0 DEF UsedOK, SocketType, RecvAt, SendAt, EndAt, Requested, Opening,
          TerminalEvents
    <3>1. OpeningOK(r, d, o.send, F, P)
      BY DEF OpeningOK
    <3>2. ReadingOK(r, o.recv, F, P)
      BY DEF ReadingOK
    <3>3. SendingOK(r, o.send, P, u)
      BY DEF SendingOK, Spent
    <3>4. EndingOK(r, d, o.send, F, P)
      BY DEF EndingOK
    <3>5. HeardOK(r, d, o.recv, o.send, F, P)
      BY DEF HeardOK
    <3> QED  BY <3>1, <3>2, <3>3, <3>4, <3>5
  <2>9. CachesOK(r, m + k) /\ OpsFit(r, o.recv, o.send)
    <3>1. CachesOK(r, m + k) /\ OpsFit(r, o.recv, o.send)
      <4>1. /\ r.recv_used = v.recv_used /\ r.data_has_recv = has
                 /\ (r.state \in {"CONNECT", "ESTABLISH"} => v.state \in {"CONNECT", "ESTABLISH"})
            /\ r.data_need_send = v.data_need_send /\ r.data_has_send = v.data_has_send
            /\ r.try_close_send_count = v.try_close_send_count
        BY <1>3, <2>1 DEF SocketType
      <4>2. /\ v.recv_used \in Nat /\ RecvCap \in Nat /\ has \in Nat /\ m + k \in Nat /\ v.recv_used <= RecvCap
        BY <1>0, <1>3, <1>k, <1>fit, IocpAssumption DEF SocketType, CachesOK
      <4>3. /\ r.recv_used <= RecvCap /\ r.data_has_recv + (m + k) <= r.recv_used
            /\ r.state \in {"CONNECT", "ESTABLISH"} => r.data_has_recv + (m + k) = r.recv_used
        <5>1. PICK x \in Nat, y \in Nat : x = v.recv_used /\ y = m + k
          BY <4>2
        <5>2. has + y <= x /\ (v.state \in {"CONNECT", "ESTABLISH"} => has + y = x)
          BY <1>fit, <5>1
        <5>3. r.recv_used = x /\ r.data_has_recv = has /\ x <= RecvCap
          BY <4>1, <4>2, <5>1
        <5>4. r.recv_used <= RecvCap /\ r.data_has_recv + y <= r.recv_used
                /\ (has + y = x => r.data_has_recv + y = r.recv_used)
          BY ONLY <4>2, <5>1, <5>2, <5>3
        <5> QED  BY <4>1, <5>1, <5>2, <5>4
      <4>4. CachesOK(r, m + k)
        BY <1>3, <4>1, <4>3 DEF CachesOK
      <4>5. \A i \in DOMAIN o.recv : o.recv[i].len <= RecvCap - r.recv_used
        <5>1. PICK q \in Seq(OpType) : q = o.recv
          BY <1>3 DEF OpsType
        <5>2. \A i \in DOMAIN q : q[i] \in OpType
          BY <5>1
        <5>3. \A i \in DOMAIN q : q[i].len \in Nat /\ q[i].len <= RecvCap - v.recv_used
          BY <1>3, <5>1, <5>2 DEF OpsFit, OpType
        <5>4. r.recv_used <= v.recv_used /\ r.recv_used \in Nat
          BY <2>2, <4>1, <4>2 DEF SocketType
        <5> QED  BY <4>2, <5>1, <5>3, <5>4
      <4> QED  BY <1>3, <4>1, <4>4, <4>5 DEF OpsFit
    <3>2. OpsFit(r, o.recv, o.send)
      BY <3>1
    <3> QED  BY <3>1, <3>2
  <2> QED  BY <1>2, <2>3, <1>0, <2>7, <2>8, <2>9, UsedSlot
<1>6. ASSUME v.state = "ESTABLISH"
        /\ sock' = [sock EXCEPT ![s] = [v EXCEPT !.timer_send = FALSE, !.timer_close = TRUE, !.state = "CLOSE", !.error = "packet", !.data_has_recv = has]] /\ UNCHANGED <<ops, cb>> PROVE Inv'
  <2>1. PICK r, d : r = [v EXCEPT !.timer_send = FALSE, !.timer_close = TRUE, !.state = "CLOSE", !.error = "packet", !.data_has_recv = has] /\ d = c
    OBVIOUS
  <2>2. r \in SocketType
    BY <1>2, <1>3, <1>6, <1>fit, <2>1 DEF SocketType, SameBytes, States
  <2>3. SlotStep(s, r, o, d)
    <3>1. sock' = [sock EXCEPT ![s] = r] /\ UNCHANGED <<ops, pool>> /\ cb' = [cb EXCEPT ![s] = d]
      BY <1>1, <1>2, <1>6, <2>1, Parts DEF View, Types
    <3>2. d \in Callbacks
      BY <1>3, <2>1 DEF Callbacks
    <3> QED  BY <1>1, <1>2, <1>3, <2>2, <3>1, <3>2, Parts DEF SlotStep, Types, View
  <2>7. ThreadStep(s, P, u, k) /\ HandlersFit(th', r, s)
    <3>1. r.recv_used <= v.recv_used /\ v.data_need_send - v.data_has_send <= r.data_need_send - r.data_has_send
      BY <1>2, <1>3, <1>fit, <2>1, <2>2 DEF SocketType, SameBytes
    <3>2. UNCHANGED <<th, pool>> /\ r \in SocketType
      BY <1>2, <2>2, <1>6 DEF EvtData
    <3>3. s \in Sockets
      BY <1>2
    <3> QED  BY ONLY Inv, <1>1, <3>1, <3>2, <3>3, HandlersWait
  <2>8. UsedOK(r, d, o.recv, o.send, F, P, u)
    <3> USE <1>2, <1>3, <1>6, <2>1, <1>0 DEF UsedOK, SocketType, RecvAt, SendAt, EndAt, Requested, Opening,
          TerminalEvents
    <3>1. OpeningOK(r, d, o.send, F, P)
      BY DEF OpeningOK
    <3>2. ReadingOK(r, o.recv, F, P)
      BY DEF ReadingOK
    <3>3. SendingOK(r, o.send, P, u)
      BY DEF SendingOK, OpeningOK, HeardOK
    <3>4. EndingOK(r, d, o.send, F, P)
      BY DEF EndingOK, HeardOK, OpeningOK
    <3>5. HeardOK(r, d, o.recv, o.send, F, P)
      BY DEF HeardOK, EndingOK
    <3> QED  BY <3>1, <3>2, <3>3, <3>4, <3>5
  <2>9. CachesOK(r, m + k) /\ OpsFit(r, o.recv, o.send)
    <3>1. CachesOK(r, m + k) /\ OpsFit(r, o.recv, o.send)
      <4>1. /\ r.recv_used = v.recv_used /\ r.data_has_recv = has
                 /\ (r.state \in {"CONNECT", "ESTABLISH"} => v.state \in {"CONNECT", "ESTABLISH"})
            /\ r.data_need_send = v.data_need_send /\ r.data_has_send = v.data_has_send
            /\ r.try_close_send_count = v.try_close_send_count
        BY <1>3, <2>1 DEF SocketType
      <4>2. /\ v.recv_used \in Nat /\ RecvCap \in Nat /\ has \in Nat /\ m + k \in Nat /\ v.recv_used <= RecvCap
        BY <1>0, <1>3, <1>k, <1>fit, IocpAssumption DEF SocketType, CachesOK
      <4>3. /\ r.recv_used <= RecvCap /\ r.data_has_recv + (m + k) <= r.recv_used
            /\ r.state \in {"CONNECT", "ESTABLISH"} => r.data_has_recv + (m + k) = r.recv_used
        <5>1. PICK x \in Nat, y \in Nat : x = v.recv_used /\ y = m + k
          BY <4>2
        <5>2. has + y <= x /\ (v.state \in {"CONNECT", "ESTABLISH"} => has + y = x)
          BY <1>fit, <5>1
        <5>3. r.recv_used = x /\ r.data_has_recv = has /\ x <= RecvCap
          BY <4>1, <4>2, <5>1
        <5>4. r.recv_used <= RecvCap /\ r.data_has_recv + y <= r.recv_used
                /\ (has + y = x => r.data_has_recv + y = r.recv_used)
          BY ONLY <4>2, <5>1, <5>2, <5>3
        <5> QED  BY <4>1, <5>1, <5>2, <5>4
      <4>4. CachesOK(r, m + k)
        BY <1>3, <4>1, <4>3 DEF CachesOK
      <4>5. \A i \in DOMAIN o.recv : o.recv[i].len <= RecvCap - r.recv_used
        <5>1. PICK q \in Seq(OpType) : q = o.recv
          BY <1>3 DEF OpsType
        <5>2. \A i \in DOMAIN q : q[i] \in OpType
          BY <5>1
        <5>3. \A i \in DOMAIN q : q[i].len \in Nat /\ q[i].len <= RecvCap - v.recv_used
          BY <1>3, <5>1, <5>2 DEF OpsFit, OpType
        <5>4. r.recv_used <= v.recv_used /\ r.recv_used \in Nat
          BY <2>2, <4>1, <4>2 DEF SocketType
        <5> QED  BY <4>2, <5>1, <5>3, <5>4
      <4> QED  BY <1>3, <4>1, <4>4, <4>5 DEF OpsFit
    <3>2. OpsFit(r, o.recv, o.send)
      BY <3>1
    <3> QED  BY <3>1, <3>2
  <2> QED  BY <1>2, <2>3, <1>0, <2>7, <2>8, <2>9, UsedSlot
<1>7. \/ sock' = [sock EXCEPT ![s] = [v EXCEPT !.data_has_recv = 0, !.recv_used = v.recv_used - has]]
           /\ UNCHANGED <<ops, cb>>
      \/ sock' = [sock EXCEPT ![s] = [v EXCEPT !.data_has_recv = has]] /\ UNCHANGED <<ops, cb>>
      \/ v.state = "ESTABLISH"
           /\ sock' = [sock EXCEPT ![s] = [v EXCEPT !.timer_send = FALSE, !.timer_close = TRUE, !.state = "CLOSE", !.error = "packet", !.data_has_recv = has]] /\ UNCHANGED <<ops, cb>>
  BY <1>s, <1>1, <1>2, <1>has DEF EvtData, View, MainClosed, ModTimerClose
<1>8. Inv'
  BY <1>4, <1>5, <1>6, <1>7
<1>9. crush' = "none"
  BY <1>2 DEF EvtData
<1> QED  BY <1>8, <1>9 DEF Kept

(* The token of receiving passes from the event to the operation, or ends with the session. *)
LEMMA EvtRecvActiveKeeps ==
  ASSUME Inv, EvtRecvActive
  PROVE  Kept
<1>t. TakeEvt("RECV_ACTIVE")
  BY DEF EvtRecvActive
<1>s. PICK s, len : s = Head(evt_queue).sock /\ len = Head(evt_queue).len
  OBVIOUS
<1>1. PICK v, o, c, E, n, P, u, k : View(s, v, o, c, E, n, P, u, k)
  BY DEF View
<1>2. crush = "none" /\ UNCHANGED <<th, pool>> /\ s \in Sockets /\ s \notin pool /\ len \in Nat /\ len = 0
  <2>1. UNCHANGED pool
    BY DEF EvtRecvActive
  <2>2. s \in Sockets /\ s \notin pool /\ len \in Nat /\ len = 0
    BY <1>t, <1>s, <2>1, QueueShrinks
  <2> QED  BY <1>t, <2>2 DEF EvtRecvActive, TakeEvt, MainFree, Running
<1>3. /\ v \in SocketType /\ UsedOK(v, c, o.recv, o.send, E, P, u) /\ CachesOK(v, n + k)
      /\ OpsFit(v, o.recv, o.send) /\ o \in OpsType /\ c \in Callbacks /\ n \in Nat /\ u \in Nat
  BY <1>1, <1>2, Viewed
<1>len. Len(o.recv) \in Nat /\ Len(o.send) \in Nat
  BY <1>1, <1>2, Viewed
<1>0. PICK F, m : /\ QueueStep(s, F, m) /\ m \in Nat /\ n = m + len
                  /\ "RECV_ACTIVE" \in E /\ E = F \cup {"RECV_ACTIVE"} /\ "RECV_ACTIVE" \notin F
                  /\ ("RECV_ACTIVE" \in TerminalEvents => F \cap TerminalEvents = {}) /\ "ESTABLISH" \notin F
  <2>1. UNCHANGED pool
    BY <1>2
  <2>2. PICK F, m : /\ QueueStep(s, F, m) /\ m \in Nat /\ Announced(evt_queue, s) = m + len
                    /\ "RECV_ACTIVE" \in TypesIn(evt_queue, s) /\ TypesIn(evt_queue, s) = F \cup {"RECV_ACTIVE"}
                    /\ "RECV_ACTIVE" \notin F
                    /\ ("RECV_ACTIVE" \in TerminalEvents => F \cap TerminalEvents = {}) /\ "ESTABLISH" \notin F
    BY <1>t, <1>s, <2>1, QueueShrinks
  <2> QED  BY <1>1, <2>2 DEF View
<1>k. k \in Nat
  BY <1>1, CarriedNat DEF View
<1>4. v.recv_op = "RECV" /\ o.recv = <<>> /\ P \cap RecvAt = {} /\ (v.state = "ESTABLISH" => c = "up"
        /\ P \cap Opening = {})
  BY <1>0, <1>3 DEF UsedOK, ReadingOK, OpeningOK, HeardOK
<1>5. ASSUME v.state = "ESTABLISH" /\ UNCHANGED cb /\ sock' = [sock EXCEPT ![s].recv_req = @ + 1]
             /\ ops' = [ops EXCEPT ![s].recv = Append(@, [kind |-> "posted", len |-> 0])] PROVE Inv'
  <2>1. PICK r, d : r = [v EXCEPT !.recv_req = @ + 1] /\ d = c
    OBVIOUS
  <2>2. r \in SocketType /\ SameBytes(v, r)
    <3>1. v.recv_req + 1 \in Nat
      BY <1>3 DEF SocketType
    <3> QED  BY <1>2, <1>3, <1>5, <2>1, <3>1 DEF SocketType, SameBytes, States
  <2>0. PICK x, p : x = [kind |-> "posted", len |-> 0] /\ p = [recv |-> <<x>>, send |-> o.send]
    OBVIOUS
  <2>3. SlotStep(s, r, p, d) /\ p.recv = <<x>> /\ p.send = o.send /\ o.recv = <<>>
    <3>1. sock' = [sock EXCEPT ![s] = r] /\ UNCHANGED <<cb, pool>>
            /\ ops' = [ops EXCEPT ![s].recv = Append(@, x)]
      <4>1. sock' = [sock EXCEPT ![s] = r]
        BY ONLY <1>1, <1>5, <2>1 DEF View, PostSendReq
      <4>2. UNCHANGED <<cb, pool>>
        BY <1>2, <1>5
      <4>3. ops' = [ops EXCEPT ![s].recv = Append(@, x)]
        BY <1>5, <2>0 DEF Post, PostSendReq
      <4> QED  BY <4>1, <4>2, <4>3
    <3>2. o.recv = <<>>
      BY <1>2, <1>3, <1>5, <1>0, <1>4 DEF UsedOK, ReadingOK, SendingOK, RecvAt, SendAt, OpsType
    <3>3. x \in OpType
      BY <2>0 DEF OpType
    <3>4. cb' = [cb EXCEPT ![s] = d] /\ d \in Callbacks /\ pool' \subseteq Sockets
            /\ (\A y \in Sockets : y # s => (y \in pool' <=> y \in pool))
      BY <1>1, <1>3, <2>1, <3>1, Parts DEF View, Types
    <3>5. o = ops[s]
      BY <1>1 DEF View
    <3> QED  BY <1>2, <1>3, <2>0, <2>2, <3>1, <3>2, <3>3, <3>4, <3>5, PostsRecv, PostsSend
  <2>r. PICK rq, sq : rq = p.recv /\ sq = p.send
    OBVIOUS
  <2>s. rq # <<>> /\ Len(rq) = 1 /\ o.recv = <<>> /\ sq = o.send
    BY <2>3, <2>r
  <2>7. ThreadStep(s, P, u, k) /\ HandlersFit(th', r, s)
    <3>1. r.recv_used <= v.recv_used /\ v.data_need_send - v.data_has_send <= r.data_need_send - r.data_has_send
      BY <1>2, <1>3, <2>1, <2>2 DEF SocketType, SameBytes
    <3>2. UNCHANGED <<th, pool>> /\ r \in SocketType
      BY <1>2, <2>2, <1>5 DEF EvtRecvActive
    <3>3. s \in Sockets
      BY <1>2
    <3> QED  BY ONLY Inv, <1>1, <3>1, <3>2, <3>3, HandlersWait
  <2>8. UsedOK(r, d, rq, sq, F, P, u)
    <3> USE <1>2, <1>3, <1>len, <1>5, <2>1, <2>s, <1>0, <1>4 DEF UsedOK, SocketType, RecvAt, SendAt, EndAt,
          Requested, Opening, TerminalEvents
    <3>1. OpeningOK(r, d, sq, F, P)
      BY DEF OpeningOK
    <3>2. ReadingOK(r, rq, F, P)
      <4>1. /\ r.recv_req = v.recv_req + 1 /\ r.recv_ack = v.recv_ack
            /\ v.recv_req \in Nat /\ v.recv_ack \in Nat
        OBVIOUS
      <4>2. v.recv_req - v.recv_ack = 0 /\ Len(rq) = 1 /\ rq # <<>>
        BY DEF ReadingOK
      <4>3. r.recv_req - r.recv_ack = 1
        BY ONLY <1>3, <4>1, <4>2
      <4>4. r.recv_req - r.recv_ack = Len(rq)
        BY ONLY <4>2, <4>3
      <4>5. /\ P \cap RecvAt = {} /\ "RECV_ACTIVE" \notin F /\ (r.state # "CONNECT" => r.recv_op = "RECV")
        BY DEF ReadingOK
      <4> QED  BY <4>2, <4>4, <4>5 DEF ReadingOK
    <3>3. SendingOK(r, sq, P, u)
      BY DEF SendingOK
    <3>4. EndingOK(r, d, sq, F, P)
      BY DEF EndingOK
    <3>5. HeardOK(r, d, rq, sq, F, P)
      BY DEF HeardOK
    <3> QED  BY <3>1, <3>2, <3>3, <3>4, <3>5
  <2>9. CachesOK(r, m + k) /\ OpsFit(r, p.recv, p.send)
    <3>1. CachesOK(r, m + k) /\ OpsFit(r, o.recv, o.send)
      <4>1. m = n
        BY <1>0, <1>2
      <4> QED  BY <1>3, <2>2, <4>1, SameFits
    <3>2. OpsFit(r, p.recv, p.send)
      BY <2>0, <2>2, <2>3, <3>1, PostedFits
    <3> QED  BY <3>1, <3>2
  <2> QED  BY <1>2, <2>3, <1>0, <2>7, <2>8, <2>9, <2>r, UsedSlot
<1>6. ASSUME NEW e \in {"overflow", "system"}, v.state = "ESTABLISH" /\ UNCHANGED <<ops, cb>>
        /\ sock' = [sock EXCEPT ![s] = MainClosed(s, e)] PROVE Inv'
  <2>1. PICK r, d : r = [v EXCEPT !.timer_send = FALSE, !.timer_close = TRUE, !.state = "CLOSE", !.error = e] /\ d = c
    OBVIOUS
  <2>2. r \in SocketType /\ SameBytes(v, r)
    BY <1>2, <1>3, <1>6, <2>1 DEF SocketType, SameBytes, States
  <2>3. SlotStep(s, r, o, d)
    <3>1. sock' = [sock EXCEPT ![s] = r] /\ UNCHANGED <<ops, pool>> /\ cb' = [cb EXCEPT ![s] = d]
      BY <1>1, <1>2, <1>6, <2>1, Parts DEF View, Types, MainClosed, ModTimerClose
    <3>2. d \in Callbacks
      BY <1>3, <2>1 DEF Callbacks
    <3> QED  BY <1>1, <1>2, <1>3, <2>2, <3>1, <3>2, Parts DEF SlotStep, Types, View
  <2>7. ThreadStep(s, P, u, k) /\ HandlersFit(th', r, s)
    <3>1. r.recv_used <= v.recv_used /\ v.data_need_send - v.data_has_send <= r.data_need_send - r.data_has_send
      BY <1>2, <1>3, <2>1, <2>2 DEF SocketType, SameBytes
    <3>2. UNCHANGED <<th, pool>> /\ r \in SocketType
      BY <1>2, <2>2, <1>6 DEF EvtRecvActive
    <3>3. s \in Sockets
      BY <1>2
    <3> QED  BY ONLY Inv, <1>1, <3>1, <3>2, <3>3, HandlersWait
  <2>8. UsedOK(r, d, o.recv, o.send, F, P, u)
    <3> USE <1>2, <1>3, <1>6, <2>1, <1>0, <1>4 DEF UsedOK, SocketType, RecvAt, SendAt, EndAt, Requested,
          Opening, TerminalEvents
    <3>1. OpeningOK(r, d, o.send, F, P)
      BY DEF OpeningOK
    <3>2. ReadingOK(r, o.recv, F, P)
      BY DEF ReadingOK
    <3>3. SendingOK(r, o.send, P, u)
      BY DEF SendingOK, OpeningOK, HeardOK
    <3>4. EndingOK(r, d, o.send, F, P)
      BY DEF EndingOK, HeardOK, OpeningOK
    <3>5. HeardOK(r, d, o.recv, o.send, F, P)
      BY DEF HeardOK, EndingOK
    <3> QED  BY <3>1, <3>2, <3>3, <3>4, <3>5
  <2>9. CachesOK(r, m + k) /\ OpsFit(r, o.recv, o.send)
    <3>1. CachesOK(r, m + k) /\ OpsFit(r, o.recv, o.send)
      <4>1. m = n
        BY <1>0, <1>2
      <4> QED  BY <1>3, <2>2, <4>1, SameFits
    <3>2. OpsFit(r, o.recv, o.send)
      BY <3>1
    <3> QED  BY <3>1, <3>2
  <2> QED  BY <1>2, <2>3, <1>0, <2>7, <2>8, <2>9, UsedSlot
<1>7. ASSUME UNCHANGED <<sock, ops, cb>> PROVE Inv'
  <2>1. PICK r, d : r = v /\ d = c
    OBVIOUS
  <2>2. r \in SocketType /\ SameBytes(v, r)
    BY <1>2, <1>3, <1>7, <2>1 DEF SocketType, SameBytes, States
  <2>3. SlotStep(s, r, o, d)
    <3>1. sock' = [sock EXCEPT ![s] = r] /\ UNCHANGED <<ops, pool>> /\ cb' = [cb EXCEPT ![s] = d]
      BY <1>1, <1>2, <1>7, <2>1, Parts DEF View, Types
    <3>2. d \in Callbacks
      BY <1>3, <2>1 DEF Callbacks
    <3> QED  BY <1>1, <1>2, <1>3, <2>2, <3>1, <3>2, Parts DEF SlotStep, Types, View
  <2>7. ThreadStep(s, P, u, k) /\ HandlersFit(th', r, s)
    <3>1. r.recv_used <= v.recv_used /\ v.data_need_send - v.data_has_send <= r.data_need_send - r.data_has_send
      BY <1>2, <1>3, <2>1, <2>2 DEF SocketType, SameBytes
    <3>2. UNCHANGED <<th, pool>> /\ r \in SocketType
      BY <1>2, <2>2, <1>7 DEF EvtRecvActive
    <3>3. s \in Sockets
      BY <1>2
    <3> QED  BY ONLY Inv, <1>1, <3>1, <3>2, <3>3, HandlersWait
  <2>8. UsedOK(r, d, o.recv, o.send, F, P, u)
    <3> USE <1>2, <1>3, <1>7, <2>1, <1>0, <1>4 DEF UsedOK, SocketType, RecvAt, SendAt, EndAt, Requested,
          Opening, TerminalEvents
    <3>1. OpeningOK(r, d, o.send, F, P)
      BY DEF OpeningOK
    <3>2. ReadingOK(r, o.recv, F, P)
      BY DEF ReadingOK
    <3>3. SendingOK(r, o.send, P, u)
      BY DEF SendingOK
    <3>4. EndingOK(r, d, o.send, F, P)
      BY DEF EndingOK
    <3>5. HeardOK(r, d, o.recv, o.send, F, P)
      BY DEF HeardOK
    <3> QED  BY <3>1, <3>2, <3>3, <3>4, <3>5
  <2>9. CachesOK(r, m + k) /\ OpsFit(r, o.recv, o.send)
    <3>1. CachesOK(r, m + k) /\ OpsFit(r, o.recv, o.send)
      <4>1. m = n
        BY <1>0, <1>2
      <4> QED  BY <1>3, <2>2, <4>1, SameFits
    <3>2. OpsFit(r, o.recv, o.send)
      BY <3>1
    <3> QED  BY <3>1, <3>2
  <2> QED  BY <1>2, <2>3, <1>0, <2>7, <2>8, <2>9, UsedSlot
<1>8. \/ v.state = "ESTABLISH" /\ UNCHANGED cb /\ sock' = [sock EXCEPT ![s].recv_req = @ + 1]
           /\ ops' = [ops EXCEPT ![s].recv = Append(@, [kind |-> "posted", len |-> 0])]
      \/ v.state = "ESTABLISH" /\ UNCHANGED <<ops, cb>>
           /\ \E e \in {"overflow", "system"} : sock' = [sock EXCEPT ![s] = MainClosed(s, e)]
      \/ UNCHANGED <<sock, ops, cb>>
  BY <1>s, <1>1, <1>2 DEF EvtRecvActive, View, MainClose, Post
<1>9. Inv'
  BY <1>5, <1>6, <1>7, <1>8
<1>10. crush' = "none"
  BY <1>2 DEF EvtRecvActive
<1> QED  BY <1>9, <1>10 DEF Kept

-----------------------------------------------------------------------------
(* What is known of a slot in the pool, and of one on its way there. *)
LEMMA PoolView ==
  ASSUME Inv, NEW s \in pool,
         NEW v, NEW o, NEW c, NEW E, NEW n, NEW P, NEW u, NEW k, View(s, v, o, c, E, n, P, u, k)
  PROVE  /\ E = {} /\ n = 0 /\ P = {} /\ u = 0 /\ k = 0 /\ \A t \in Threads : th[t].sock # s
         /\ FreeOK(v, c, o.recv, o.send) /\ v \in SocketType /\ s \in Sockets /\ o \in OpsType
<1>1. /\ TypesIn(evt_queue, s) = {} /\ PlacesIn(th, s) = {} /\ SendersIn(th, s) = {} /\ CarriedIn(th, s) = 0
      /\ \A i \in DOMAIN evt_queue : evt_queue[i].sock # s
  BY Parts, PoolQuiet
<1>2. Announced(evt_queue, s) = 0
  BY <1>1, Parts, EventLens, AnnouncedNone DEF Types
<1>3. u = 0
  BY <1>1, FS_EmptySet DEF View
<1>4. s \in Sockets /\ \A t \in Threads : th[t].sock # s
  BY Parts DEF Types, ThreadsOK
<1> QED  BY <1>1, <1>2, <1>3, <1>4, Viewed DEF View

(* A step that changes a slot of the pool, and leaves its handlers and events as they are, which is none. *)
LEMMA PoolSlot ==
  ASSUME Inv, NEW s \in pool, UNCHANGED <<evt_queue, th>>, pool' \in {pool, pool \ {s}},
         NEW r \in SocketType, NEW o \in OpsType, NEW c \in Callbacks,
         sock' = [sock EXCEPT ![s] = r], ops' = [ops EXCEPT ![s] = o], cb' = [cb EXCEPT ![s] = c],
         pool' = pool => FreeOK(r, c, o.recv, o.send),
         pool' # pool => UsedOK(r, c, o.recv, o.send, {}, {}, 0),
         CachesOK(r, 0), OpsFit(r, o.recv, o.send)
  PROVE  Inv'
<1>1. PICK v, q, d, E, n, P, u, k : View(s, v, q, d, E, n, P, u, k)
  BY DEF View
<1>2. /\ E = {} /\ n = 0 /\ P = {} /\ u = 0 /\ k = 0 /\ s \in Sockets
      /\ \A t \in Threads : th[t].sock # s
  BY <1>1, PoolView
<1>3. pool' \subseteq pool /\ pool \subseteq Sockets
  BY Parts DEF Types
<1>4. QueueOK(evt_queue, pool') /\ ThreadsOK(th, pool')
  <2>1. \A x \in pool' : x \in pool
    BY <1>3
  <2> QED  BY <2>1, Parts, PoolMoves
<1>5. SlotStep(s, r, o, c)
  BY <1>3 DEF SlotStep
<1>6. QueueStep(s, {}, 0)
  BY <1>1, <1>2, <1>4, Parts DEF QueueStep, Types, View
<1>7. ThreadStep(s, {}, 0, 0)
  BY <1>1, <1>2, <1>4, ThreadsStay DEF View
<1>8. HandlersFit(th', r, s)
  BY <1>2 DEF HandlersFit
<1>9. (s \in pool' => pool' = pool) /\ (s \notin pool' => pool' # pool)
  OBVIOUS
<1> QED  BY <1>2, <1>5, <1>6, <1>7, <1>8, <1>9, OneSlot

(* A connect takes its slot from the pool, or gives it back at once. *)
LEMMA NetTcpConnectKeeps ==
  ASSUME Inv, NEW s \in Sockets, NetTcpConnect(s)
  PROVE  Kept
<1>1. PICK v, o, c, E, n, P, u, k : View(s, v, o, c, E, n, P, u, k)
  BY DEF View
<1>2. s \in pool /\ crush = "none" /\ UNCHANGED <<evt_queue, th, crush>>
  BY DEF NetTcpConnect, MainFree, Running
<1>3. FreeOK(v, c, o.recv, o.send) /\ v \in SocketType /\ o \in OpsType
  BY <1>1, <1>2, PoolView
<1>4. 0 <= RecvCap /\ 0 <= SendCap /\ 0 <= MaxTry /\ RecvCap \in Nat /\ SendCap \in Nat
  BY IocpAssumption
<1>5. ASSUME sock' = [sock EXCEPT ![s] = [Reset(@) EXCEPT
                      !.state = "CONNECT", !.recv_op = "CONNECT_REQ", !.recv_req = 1]],
             ops' = [ops EXCEPT ![s].recv = Append(@, [kind |-> "request", len |-> 0])],
             pool' = pool \ {s}, cb' = [cb EXCEPT ![s] = "connecting"]
      PROVE  Inv'
  <2>1. PICK r : r = [Reset(v) EXCEPT !.state = "CONNECT", !.recv_op = "CONNECT_REQ", !.recv_req = 1]
    OBVIOUS
  <2>2. /\ r \in SocketType /\ r.state = "CONNECT" /\ r.recv_op = "CONNECT_REQ" /\ r.recv_req = 1
             /\ r.recv_ack = 0
        /\ r.send_req = 0 /\ r.send_ack = 0 /\ r.recv_used = 0 /\ r.data_has_recv = 0 /\ r.data_need_send = 0
        /\ r.data_has_send = 0 /\ r.try_close_send_count = 0 /\ ~r.timer_send /\ ~r.timer_close
    BY <1>3, <2>1 DEF Reset, SocketType, States
  <2>3. PICK x \in OpType : x = [kind |-> "request", len |-> 0]
    BY DEF OpType
  <2>4. PICK p, d : p = [recv |-> <<x>>, send |-> o.send] /\ d = "connecting" /\ d \in Callbacks
    BY DEF Callbacks
  <2>5. SlotStep(s, r, p, d)
    <3>1. sock' = [sock EXCEPT ![s] = r] /\ cb' = [cb EXCEPT ![s] = d]
            /\ ops' = [ops EXCEPT ![s].recv = Append(@, x)]
      BY <1>1, <1>5, <2>1, <2>3, <2>4 DEF View
    <3>2. pool' \subseteq Sockets /\ \A y \in Sockets : y # s => (y \in pool' <=> y \in pool)
      BY <1>5, Parts DEF Types
    <3>3. o = ops[s] /\ o.recv = <<>>
      BY <1>1, <1>3 DEF View, FreeOK
    <3> QED  BY <2>2, <2>4, <3>1, <3>2, <3>3, PostsRecv
  <2>6. o.send = <<>> /\ Len(<<x>>) = 1 /\ <<x>> # <<>> /\ p.recv = <<x>> /\ p.send = <<>> /\ Len(<<>>) = 0
    BY <1>3, <2>4 DEF FreeOK
  <2>7. CachesOK(r, 0) /\ OpsFit(r, p.recv, p.send)
    <3>1. CachesOK(r, 0)
      BY <1>4, <2>2 DEF CachesOK
    <3>2. OpsFit(r, <<>>, <<>>)
      BY DEF OpsFit
    <3> QED  BY <2>2, <2>3, <2>6, <3>1, <3>2, PostedFits
  <2>8. PICK R, S : R = p.recv /\ S = p.send /\ R # <<>> /\ Len(R) = 1 /\ S = <<>> /\ Len(S) = 0
    BY <2>6
  <2>9. UsedOK(r, d, R, S, {}, {}, 0)
    <3> USE <2>2, <2>4, <2>8 DEF UsedOK, RecvAt, SendAt, EndAt, Requested, Opening
    <3>1. OpeningOK(r, d, S, {}, {})
      BY DEF OpeningOK
    <3>2. ReadingOK(r, R, {}, {})
      BY DEF ReadingOK
    <3>3. SendingOK(r, S, {}, 0)
      BY DEF SendingOK
    <3>4. EndingOK(r, d, S, {}, {})
      BY DEF EndingOK
    <3>5. HeardOK(r, d, R, S, {}, {})
      BY DEF HeardOK
    <3> QED  BY <3>1, <3>2, <3>3, <3>4, <3>5
  <2>10. UNCHANGED <<evt_queue, th>> /\ pool' \in {pool, pool \ {s}} /\ pool' # pool
    BY <1>2, <1>5
  <2> QED  BY <1>2, <2>2, <2>4, <2>5, <2>7, <2>8, <2>9, <2>10, PoolSlot DEF SlotStep
<1>6. ASSUME sock' = [sock EXCEPT ![s] = [Reset(@) EXCEPT !.state = "CONNECT", !.recv_op = "CONNECT_REQ"]],
             UNCHANGED <<ops, pool, cb>>
      PROVE  Inv'
  <2>1. PICK r : r = [Reset(v) EXCEPT !.state = "CONNECT", !.recv_op = "CONNECT_REQ"]
    OBVIOUS
  <2>2. /\ r \in SocketType /\ r.state = "CONNECT" /\ r.recv_req = 0 /\ r.recv_ack = 0
        /\ r.send_req = 0 /\ r.send_ack = 0 /\ r.recv_used = 0 /\ r.data_has_recv = 0 /\ r.data_need_send = 0
        /\ r.data_has_send = 0 /\ r.try_close_send_count = 0 /\ ~r.timer_close
    BY <1>3, <2>1 DEF Reset, SocketType, States
  <2>3. FreeOK(r, c, o.recv, o.send) /\ o.recv = <<>> /\ o.send = <<>>
    BY <1>3, <2>2 DEF FreeOK
  <2>4. CachesOK(r, 0) /\ OpsFit(r, o.recv, o.send)
    <3>1. CachesOK(r, 0)
      BY <1>4, <2>2 DEF CachesOK
    <3> QED  BY <2>3, <3>1 DEF OpsFit
  <2>5. /\ sock' = [sock EXCEPT ![s] = r] /\ ops' = [ops EXCEPT ![s] = o] /\ cb' = [cb EXCEPT ![s] = c]
        /\ c \in Callbacks /\ pool' = pool
    BY <1>1, <1>6, <2>1, Parts DEF View, Types
  <2> QED  BY <1>2, <1>3, <2>2, <2>3, <2>4, <2>5, PoolSlot
<1> QED  BY <1>2, <1>5, <1>6 DEF NetTcpConnect, Kept

(* An accepted connection takes its slot from the pool, or gives it back at once. *)
LEMMA AcceptKeeps ==
  ASSUME Inv, NEW t \in Threads, NEW s \in Sockets, Accept(t, s)
  PROVE  Kept
<1>1. PICK v, o, c, E, n, P, u, k : View(s, v, o, c, E, n, P, u, k)
  BY DEF View
<1>2. s \in pool /\ crush = "none" /\ th[t].at = "idle" /\ UNCHANGED <<evt_queue, ops, cb, crush>>
  BY DEF Accept, At, Running
<1>3. /\ E = {} /\ n = 0 /\ P = {} /\ u = 0 /\ k = 0 /\ \A w \in Threads : th[w].sock # s
      /\ FreeOK(v, c, o.recv, o.send) /\ v \in SocketType /\ o \in OpsType /\ c \in Callbacks
  BY <1>1, <1>2, PoolView, Parts, ZenonT(60) DEF View
<1>4. 0 <= RecvCap /\ 0 <= SendCap /\ 0 <= MaxTry /\ RecvCap \in Nat /\ SendCap \in Nat
  BY IocpAssumption
<1>5. ASSUME sock' = [sock EXCEPT ![s] = [Reset(@) EXCEPT !.state = "ESTABLISH", !.open = TRUE,
                                          !.recv_op = "RECV", !.send_op = "SEND"]],
             pool' = pool \ {s}, Begin(t, "establish", s, "io", 0)
      PROVE  Inv'
  <2>1. PICK r : r = [Reset(v) EXCEPT !.state = "ESTABLISH", !.open = TRUE, !.recv_op = "RECV", !.send_op = "SEND"]
    OBVIOUS
  <2>2. /\ r \in SocketType /\ r.state = "ESTABLISH" /\ r.recv_op = "RECV" /\ r.send_op = "SEND"
             /\ r.recv_req = 0 /\ r.recv_ack = 0
        /\ r.send_req = 0 /\ r.send_ack = 0 /\ r.recv_used = 0 /\ r.data_has_recv = 0 /\ r.data_need_send = 0
        /\ r.data_has_send = 0 /\ r.try_close_send_count = 0 /\ ~r.timer_send /\ ~r.timer_close
    BY <1>3, <2>1 DEF Reset, SocketType, States
  <2>3. SlotStep(s, r, o, c)
    <3>1. sock' = [sock EXCEPT ![s] = r] /\ ops' = [ops EXCEPT ![s] = o] /\ cb' = [cb EXCEPT ![s] = c]
      BY <1>1, <1>2, <1>5, <2>1, Parts DEF View, Types
    <3> QED  BY <1>3, <1>5, <2>2, <3>1, Parts DEF SlotStep, Types
  <2>4. pool' \subseteq Sockets /\ s \notin pool' /\ QueueOK(evt_queue, pool') /\ ThreadsOK(th, pool')
    <3>1. pool' \subseteq Sockets /\ s \notin pool' /\ \A x \in pool' : x \in pool
      BY <1>5, Parts DEF Types
    <3> QED  BY <3>1, Parts, PoolMoves
  <2>5. QueueStep(s, {}, 0)
    BY <1>1, <1>2, <1>3, <2>4, Parts DEF QueueStep, Types, View
  <2>6. ThreadStep(s, {"establish"}, 0, 0) /\ HandlersFit(th', r, s)
    <3>1. PICK label, kind, m : label = "establish" /\ kind = "io" /\ m = 0
      OBVIOUS
    <3>2. PICK h : h = [at |-> label, sock |-> s, kind |-> kind, n |-> m, then |-> "idle"]
      OBVIOUS
    <3>3. Begins(t, s, label, kind, m, h)
      BY <1>2, <1>5, <3>1, <3>2 DEF Begins, Roles, RecvAt, SendAt, EndAt, CarryAt
    <3>4. PICK Q, w : Q = P \cup {label} /\ w = u + (IF label \in SendAt THEN 1 ELSE 0)
      OBVIOUS
    <3>5. Q = {"establish"} /\ w = 0
      BY <1>3, <3>1, <3>4 DEF SendAt
    <3>6. \A R \in {RecvAt, SendAt, EndAt} : label \in R => P \cap R = {}
      BY <1>3
    <3>7. th' = [th EXCEPT ![t] = h] /\ ThreadStep(s, Q, w, k)
      BY <1>1, <2>4, <3>3, <3>4, <3>6, Beginning
    <3>8. HandlersFit(th', r, s)
      BY <1>3, <3>1, <3>2, <3>7, Parts DEF HandlersFit
    <3> QED  BY <1>3, <3>5, <3>7, <3>8
  <2>7. o.recv = <<>> /\ o.send = <<>> /\ c = "idle"
    BY <1>3 DEF FreeOK
  <2>8. CachesOK(r, 0 + 0) /\ OpsFit(r, o.recv, o.send)
    <3>1. CachesOK(r, 0 + 0)
      BY <1>4, <2>2 DEF CachesOK
    <3> QED  BY <2>7, <3>1 DEF OpsFit
  <2>9. UsedOK(r, c, o.recv, o.send, {}, {"establish"}, 0)
    <3> USE <2>2, <2>7 DEF UsedOK, RecvAt, SendAt, EndAt, Requested, Opening
    <3>1. OpeningOK(r, c, o.send, {}, {"establish"})
      BY DEF OpeningOK
    <3>2. ReadingOK(r, o.recv, {}, {"establish"})
      BY DEF ReadingOK
    <3>3. SendingOK(r, o.send, {"establish"}, 0)
      BY DEF SendingOK
    <3>4. EndingOK(r, c, o.send, {}, {"establish"})
      BY DEF EndingOK
    <3>5. HeardOK(r, c, o.recv, o.send, {}, {"establish"})
      BY DEF HeardOK
    <3> QED  BY <3>1, <3>2, <3>3, <3>4, <3>5
  <2> QED  BY <2>3, <2>4, <2>5, <2>6, <2>8, <2>9, OneSlot
<1>6. ASSUME sock' = [sock EXCEPT ![s] = [Reset(@) EXCEPT !.open = TRUE]], UNCHANGED <<pool, th>>
      PROVE  Inv'
  <2>1. PICK r : r = [Reset(v) EXCEPT !.open = TRUE]
    OBVIOUS
  <2>2. /\ r \in SocketType /\ r.state = "NONE" /\ r.recv_req = 0 /\ r.recv_ack = 0
        /\ r.send_req = 0 /\ r.send_ack = 0 /\ r.recv_used = 0 /\ r.data_has_recv = 0 /\ r.data_need_send = 0
        /\ r.data_has_send = 0 /\ r.try_close_send_count = 0 /\ ~r.timer_close
    BY <1>3, <2>1 DEF Reset, SocketType, States
  <2>3. FreeOK(r, c, o.recv, o.send) /\ o.recv = <<>> /\ o.send = <<>>
    BY <1>3, <2>2 DEF FreeOK
  <2>4. CachesOK(r, 0) /\ OpsFit(r, o.recv, o.send)
    <3>1. CachesOK(r, 0)
      BY <1>4, <2>2 DEF CachesOK
    <3> QED  BY <2>3, <3>1 DEF OpsFit
  <2>5. /\ sock' = [sock EXCEPT ![s] = r] /\ ops' = [ops EXCEPT ![s] = o] /\ cb' = [cb EXCEPT ![s] = c]
        /\ pool' = pool
    BY <1>1, <1>2, <1>6, <2>1, Parts DEF View, Types
  <2> QED  BY <1>2, <1>3, <1>6, <2>2, <2>3, <2>4, <2>5, PoolSlot, ZenonT(60)
<1> QED  BY <1>2, <1>5, <1>6 DEF Accept, Kept

(* A slot goes back to the pool when nothing of its session is left, *)
LEMMA SlotFreed ==
  ASSUME Inv, NEW s \in Sockets, OnTimerFree(s), Quiet(s)
  PROVE  Kept
<1>1. PICK v, o, c, E, n, P, u, k : View(s, v, o, c, E, n, P, u, k)
  BY DEF View
<1>2. v.timer_close /\ v.state = "TERMINATE" /\ Quiet(s) /\ crush = "none" /\ UNCHANGED <<evt_queue, ops, th>>
  BY <1>1 DEF OnTimerFree, MainFree, Running, View
<1>3. s \notin pool
  BY <1>1, <1>2, UsedView DEF FreeOK, View
<1>4. /\ v \in SocketType /\ UsedOK(v, c, o.recv, o.send, E, P, u) /\ CachesOK(v, n + k)
      /\ OpsFit(v, o.recv, o.send) /\ o \in OpsType /\ c \in Callbacks /\ u \in Nat
      /\ Len(o.recv) \in Nat /\ Len(o.send) \in Nat
  BY <1>1, <1>3, Viewed
<1>5. ~v.open
  BY <1>2, <1>4 DEF UsedOK, EndingOK
<1>6. /\ v.recv_req = v.recv_ack /\ v.send_req = v.send_ack /\ UNCHANGED crush
      /\ sock' = [sock EXCEPT ![s].timer_close = FALSE] /\ pool' = pool \cup {s}
           /\ cb' = [cb EXCEPT ![s] = "idle"]
  BY <1>1, <1>5 DEF OnTimerFree, SendIdle, View
<1>7. o.recv = <<>> /\ o.send = <<>>
  <2>1. o.send = <<>>
    BY <1>1, <1>3, <1>6, NoSends
  <2>2. v.recv_req - v.recv_ack = Len(o.recv) /\ v.recv_req \in Nat
    BY <1>4 DEF UsedOK, ReadingOK, SocketType
  <2>3. PICK q \in Seq(OpType) : q = o.recv
    BY <1>4 DEF OpsType
  <2>4. Len(q) = 0
    BY <1>6, <2>2, <2>3
  <2> QED  BY <2>1, <2>3, <2>4
<1>8. PICK r, d : r = [v EXCEPT !.timer_close = FALSE] /\ d = "idle"
  OBVIOUS
<1>9. r \in SocketType /\ SameBytes(v, r)
  BY <1>4, <1>8 DEF SocketType, SameBytes
<1>10. SlotStep(s, r, o, d)
  <2>1. sock' = [sock EXCEPT ![s] = r] /\ ops' = [ops EXCEPT ![s] = o] /\ cb' = [cb EXCEPT ![s] = d]
    BY <1>1, <1>2, <1>6, <1>8, Parts DEF View, Types
  <2> QED  BY <1>4, <1>6, <1>8, <1>9, <2>1, Parts DEF SlotStep, Types, Callbacks
<1>11. QueueOK(evt_queue, pool') /\ ThreadsOK(th, pool')
  <2>1. \A x \in pool' : x \in pool \/ ((\A i \in DOMAIN evt_queue : evt_queue[i].sock # x)
          /\ \A t \in Threads : th[t].sock # x)
    BY <1>2, <1>6 DEF Quiet
  <2> QED  BY <2>1, Parts, PoolMoves
<1>12. QueueStep(s, E, n)
  BY <1>1, <1>2, <1>11, Parts DEF QueueStep, Types, View
<1>13. ThreadStep(s, P, u, k)
  BY <1>1, <1>2, <1>11, ThreadsStay DEF View
<1>14. HandlersFit(th', r, s)
  BY <1>2 DEF HandlersFit, Quiet
<1>15. FreeOK(r, d, o.recv, o.send)
  BY <1>2, <1>4, <1>6, <1>7, <1>8 DEF FreeOK, SocketType
<1>16. CachesOK(r, n + k) /\ OpsFit(r, o.recv, o.send)
  BY <1>4, <1>9, SameFits
<1>17. s \in pool'
  BY <1>6
<1>18. Inv'
  BY <1>10, <1>12, <1>13, <1>14, <1>15, <1>16, <1>17, OneSlot
<1> QED  BY <1>2, <1>6, <1>18 DEF Kept

(* ... and the process ends there when something is. *)
LEMMA OnTimerFreeKeeps ==
  ASSUME Inv, LookOK, NEW s \in Sockets, OnTimerFree(s)
  PROVE  (Kept /\ LookOK') \/ (Gone /\ MisreadOnlySo')
<1>1. /\ crush = "none" /\ look.at = "none" /\ look' = look /\ UNCHANGED <<evt_queue, ops, th>>
      /\ sock[s].timer_close /\ sock[s].state = "TERMINATE"
  BY DEF OnTimerFree, MainFree, Running
<1>2. CASE Quiet(s)
  <2>1. LookOK'
    BY <1>1 DEF LookOK
  <2> QED  BY <1>2, <2>1, SlotFreed
<1>3. CASE ~Quiet(s)
  <2>1. s \notin pool
    BY <1>1, InUse
  <2>2. ~sock[s].open
    BY <1>1, <2>1, UsedView DEF UsedOK, EndingOK
  <2>3. crush' = "outlasted" /\ UNCHANGED <<sock, pool, cb>>
    BY <1>3, <2>2 DEF OnTimerFree
  <2> QED  BY <1>1, <2>3 DEF Gone, MisreadOnlySo
<1> QED  BY <1>2, <1>3

(* The far end is no part of the invariant. *)
LEMMA PeerResetKeeps ==
  ASSUME Inv, NEW s \in Sockets, PeerReset(s)
  PROVE  Kept
<1>1. Inv'
  BY NothingChanges DEF PeerReset
<1> QED  BY <1>1 DEF PeerReset, Running, Kept
-----------------------------------------------------------------------------
(***************************************************************************)
(* The io threads leave what the main thread compares as it needs it.      *)
(***************************************************************************)
Onward(a, b) ==
  /\ b.state = a.state \/ (a.state = "ESTABLISH" /\ b.state = "TERMINATE")
  /\ a.send_op = "SEND" => b.send_op = "SEND"
  /\ a.send_req <= b.send_req /\ b.send_req \in Nat /\ a.send_ack <= b.send_ack /\ b.send_ack \in Nat
  /\ a.state = "CLOSE" /\ Spent(a) => Spent(b)

LEMMA OnwardSame ==
  ASSUME NEW a \in SocketType
  PROVE  Onward(a, a)
BY DEF Onward, SocketType

(* Sessions the application knows: no io thread is connecting them. *)
LEMMA UpOnly ==
  ASSUME Inv, NEW t \in Threads, th[t].at \in {"connect_req", "connect"}
  PROVE  cb[th[t].sock] # "up"
<1>1. PICK s \in Sockets : s = th[t].sock /\ s \notin pool
  BY AtPlace
<1>2. PlacesIn(th, s) \cap {"connect_req", "connect"} # {}
  BY <1>1, AtPlace DEF Roles, RecvAt
<1>3. PICK v, o, c, E, n, P, u, k : View(s, v, o, c, E, n, P, u, k)
  BY DEF View
<1>4. OpeningOK(v, c, o.send, E, P) /\ P \cap {"connect_req", "connect"} # {}
  BY <1>1, <1>2, <1>3, Viewed DEF UsedOK, View
<1>5. c = "connecting"
  BY <1>4 DEF OpeningOK
<1> QED  BY <1>1, <1>3, <1>5 DEF View

(* The compare-and-swap of a close. *)
LEMMA CloseOnward ==
  ASSUME Inv, NEW t \in Threads, NEW s \in Sockets, NEW e, NEW then, IocpClose(t, s, e, then), NEW x \in Sockets
  PROVE  Onward(sock[x], sock'[x])
<1>1. sock[x] \in SocketType /\ sock \in [Sockets -> SocketType]
  BY Parts DEF Types
<1>2. CASE sock[s].state = "ESTABLISH" /\ x = s
  BY <1>1, <1>2 DEF IocpClose, CloseSwap, Onward, SocketType
<1>3. CASE sock[s].state # "ESTABLISH" \/ x # s
  <2>1. sock'[x] = sock[x]
    BY <1>1, <1>3 DEF IocpClose, CloseSwap
  <2> QED  BY <1>1, <2>1, OnwardSame
<1> QED  BY <1>2, <1>3

(* Taking a completion counts. *)
LEMMA DequeueOnward ==
  ASSUME Inv, NEW t \in Threads, Dequeue(t), NEW x \in Sockets
  PROVE  Onward(sock[x], sock'[x]) /\ UNCHANGED <<pool, cb, look>>
<1>1. sock[x] \in SocketType /\ sock \in [Sockets -> SocketType]
  BY Parts DEF Types
<1>2. PICK s \in Sockets : \/ TakeRecv(t, s) \/ TakeSend(t, s) \/ TakeCloseReq(t, s)
                           \/ TakeConnectReq(t, s) \/ TakeConnect(t, s)
  BY DEF Dequeue
<1>3. /\ \/ UNCHANGED sock \/ sock' = [sock EXCEPT ![s].recv_ack = @ + 1]
         \/ sock' = [sock EXCEPT ![s].send_ack = @ + 1]
      /\ UNCHANGED <<pool, cb, look>>
  BY <1>2 DEF TakeRecv, TakeSend, TakeCloseReq, TakeConnectReq, TakeConnect
<1>4. Onward(sock[x], sock'[x])
  BY <1>1, <1>3 DEF Onward, SocketType, Spent
<1> QED  BY <1>3, <1>4

(* A handler posts, acknowledges or finds an end. *)
LEMMA HandlerOnward ==
  ASSUME Inv, NEW t \in Threads, Handler(t), NEW x \in Sockets, cb[x] = "up"
  PROVE  Onward(sock[x], sock'[x]) /\ UNCHANGED <<pool, cb, look>>
<1>1. sock[x] \in SocketType /\ sock \in [Sockets -> SocketType]
  BY Parts DEF Types
<1>2. th[t].at # "idle" => th[t].sock \in Sockets
  BY AtPlace
<1>3. CASE CloseSocket(t) \/ PushEnd(t) \/ RecvStillUp(t) \/ RecvEvent(t) \/ RecvActive(t) \/ ConnectFail(t)
           \/ ConnectOps(t) \/ Establish(t) \/ SendAck(t)
  <2>1. /\ UNCHANGED <<pool, cb, look>> /\ th[t].at # "idle"
        /\ \/ UNCHANGED sock \/ sock' = [sock EXCEPT ![th[t].sock].open = FALSE]
           \/ sock' = [sock EXCEPT ![th[t].sock].recv_op = "RECV", ![th[t].sock].send_op = "SEND"]
           \/ sock' = [sock EXCEPT ![th[t].sock].send_ack = @ + 1]
    BY <1>3 DEF CloseSocket, PushEnd, RecvStillUp, RecvEvent, RecvActive, ConnectFail, ConnectOps, Establish,
                SendAck, At
  <2> QED  BY <1>1, <1>2, <2>1 DEF Onward, SocketType, Spent
<1>4. CASE RecvDecide(t) \/ RecvNext(t) \/ SendNext(t)
  <2>1. PICK s \in Sockets : s = th[t].sock
    BY <1>2, <1>4 DEF RecvDecide, RecvNext, SendNext, At
  <2>2. /\ UNCHANGED <<pool, cb, look>>
        /\ \/ UNCHANGED sock \/ (\E e, then : IocpClose(t, s, e, then))
           \/ sock' = [sock EXCEPT ![s].recv_used = @ + th[t].n]
           \/ sock' = [sock EXCEPT ![s].recv_req = @ + 1] \/ sock' = [sock EXCEPT ![s].send_req = @ + 1]
    BY <1>4, <2>1 DEF RecvDecide, RecvNext, SendNext
  <2>3. CASE \E e, then : IocpClose(t, s, e, then)
    BY <2>2, <2>3, CloseOnward
  <2>4. CASE ~\E e, then : IocpClose(t, s, e, then)
    BY <1>1, <2>2, <2>4 DEF Onward, SocketType, Spent
  <2> QED  BY <2>3, <2>4
<1>5. CASE SendDecide(t)
  <2>1. PICK s \in Sockets : s = th[t].sock /\ th[t].n \in Nat
    BY <1>2, <1>5, AtPlace DEF SendDecide, At, ThreadType
  <2>2. /\ UNCHANGED <<pool, cb, look>>
        /\ \/ UNCHANGED sock \/ (\E e, then : IocpClose(t, s, e, then))
           \/ /\ sock' = [sock EXCEPT ![s].data_has_send = @ + th[t].n]
              /\ th[t].n > 0 /\ ~(th[t].n > SendUsed(s))
    BY <1>5, <2>1 DEF SendDecide
  <2>3. CASE \E e, then : IocpClose(t, s, e, then)
    BY <2>2, <2>3, CloseOnward
  <2>4. CASE /\ sock' = [sock EXCEPT ![s].data_has_send = @ + th[t].n]
             /\ th[t].n > 0 /\ ~(th[t].n > SendUsed(s))
    <3>1. sock[s].data_need_send \in Nat /\ sock[s].data_has_send \in Nat
      BY <1>1 DEF SocketType
    <3>2. sock[s].data_need_send # sock[s].data_has_send
      BY <2>1, <2>4, <3>1 DEF SendUsed
    <3> QED  BY <1>1, <2>2, <2>4, <3>2 DEF Onward, SocketType, Spent
  <2>5. CASE UNCHANGED sock
    BY <1>1, <2>2, <2>5, OnwardSame
  <2> QED  BY <2>2, <2>3, <2>4, <2>5
<1>6. CASE ConnectReq(t) \/ Connected(t)
  <2>1. PICK s \in Sockets : s = th[t].sock /\ th[t].at \in {"connect_req", "connect"}
    BY <1>2, <1>6 DEF ConnectReq, Connected, At
  <2>2. s # x
    BY <2>1, UpOnly
  <2>3. sock'[x] = sock[x] /\ UNCHANGED <<pool, cb, look>>
    BY <1>1, <1>6, <2>1, <2>2 DEF ConnectReq, Connected, ConnectError
  <2> QED  BY <1>1, <2>3, OnwardSame
<1> QED  BY <1>3, <1>4, <1>5, <1>6 DEF Handler

(* An accepted connection gets a slot of its own. *)
LEMMA AcceptOnward ==
  ASSUME Inv, NEW t \in Threads, NEW s \in Sockets, Accept(t, s), NEW x \in Sockets, x \notin pool
  PROVE  Onward(sock[x], sock'[x]) /\ x \notin pool' /\ UNCHANGED <<cb, look>>
<1>1. sock[x] \in SocketType /\ sock \in [Sockets -> SocketType]
  BY Parts DEF Types
<1>2. s # x
  BY DEF Accept
<1>3. sock'[x] = sock[x] /\ x \notin pool' /\ UNCHANGED <<cb, look>>
  BY <1>1, <1>2 DEF Accept
<1> QED  BY <1>1, <1>3, OnwardSame

LEMMA LookStays ==
  ASSUME Inv, LookOK, UNCHANGED <<look, cb>>,
         \A x \in Sockets : x \notin pool /\ cb[x] = "up" => x \notin pool' /\ Onward(sock[x], sock'[x])
  PROVE  LookOK'
<1>1. CASE look.at = "none"
  BY <1>1 DEF LookOK
<1>2. CASE look.at # "none"
  <2>1. PICK s \in Sockets : s = look.sock /\ s \notin pool /\ cb[s] = "up"
    BY <1>2 DEF LookOK
  <2>2. PICK a, b : a = sock[s] /\ b = sock'[s] /\ Onward(a, b)
    BY <2>1
  <2>3. s \notin pool' /\ cb'[s] = "up" /\ look' = look /\ look'.sock = s /\ sock'[look'.sock] = b
    BY <2>1, <2>2
  <2>4. a \in SocketType /\ look \in LookType /\ look.n \in Nat
    BY <2>2, Parts DEF LookOK, LookType
  <2>5. /\ look.at = "send" => a.state \in {"ESTABLISH", "TERMINATE"}
        /\ look.at # "send" => a.state = "CLOSE"
        /\ look.at \in {"send", "again"} => a.send_op = "SEND"
        /\ look.at = "close" => Spent(a)
        /\ look.first = "req" => look.n <= a.send_req
        /\ look.first = "ack" => look.n <= a.send_ack
    BY <1>2, <2>1, <2>2 DEF LookOK
  <2>6. /\ look.at = "send" => b.state \in {"ESTABLISH", "TERMINATE"}
        /\ look.at # "send" => b.state = "CLOSE"
        /\ look.at \in {"send", "again"} => b.send_op = "SEND"
        /\ look.at = "close" => Spent(b)
    BY <2>2, <2>5 DEF Onward
  <2>7. /\ look.first = "req" => look.n <= b.send_req
        /\ look.first = "ack" => look.n <= b.send_ack
    BY <2>2, <2>4, <2>5 DEF Onward, SocketType
  <2>8. /\ look'.at = look.at /\ look'.first = look.first /\ look'.n = look.n /\ look' \in LookType
        /\ look'.sock \in Sockets /\ look'.sock \notin pool' /\ cb'[look'.sock] = "up"
    BY <2>1, <2>3, <2>4
  <2> QED  BY ONLY <1>2, <2>3, <2>6, <2>7, <2>8 DEF LookOK
<1> QED  BY <1>1, <1>2
-----------------------------------------------------------------------------
(* Every step keeps the invariant, unless it ends the process. *)
(* An idle thread takes any completion. *)
LEMMA DequeueKeeps ==
  ASSUME Inv, LookOK, NEW t \in Threads, Dequeue(t)
  PROVE  Kept /\ LookOK'
<1>1. Kept
  BY TakeRecvKeeps, TakeSendKeeps, TakeCloseReqKeeps, TakeConnectReqKeeps, TakeConnectKeeps DEF Dequeue
<1>2. UNCHANGED <<pool, cb, look>>
  BY DEF Dequeue, TakeRecv, TakeSend, TakeCloseReq, TakeConnectReq, TakeConnect
<1> QED  BY <1>1, <1>2, DequeueOnward, LookStays

(* A thread goes on in its handler. *)
LEMMA HandlerKeeps ==
  ASSUME Inv, LookOK, NEW t \in Threads, Handler(t)
  PROVE  (Kept /\ LookOK') \/ Full
<1>1. Kept \/ Full
  BY CloseSocketKeeps, PushEndKeeps, RecvDecideKeeps, RecvStillUpKeeps, RecvEventKeeps, RecvNextKeeps,
     RecvActiveKeeps, SendDecideKeeps, SendNextKeeps, SendAckKeeps, ConnectReqKeeps, ConnectFailKeeps,
     ConnectedKeeps, ConnectOpsKeeps, EstablishKeeps DEF Handler
<1>2. UNCHANGED <<pool, cb, look>>
  BY DEF Handler, CloseSocket, PushEnd, RecvDecide, RecvStillUp, RecvEvent, RecvNext, RecvActive,
     SendDecide, SendNext, SendAck, ConnectReq, ConnectFail, Connected, ConnectOps, Establish
<1> QED  BY <1>1, <1>2, HandlerOnward, LookStays

(* A connection is accepted. *)
LEMMA AcceptsOn ==
  ASSUME Inv, LookOK, NEW t \in Threads, NEW s \in Sockets, Accept(t, s)
  PROVE  Kept /\ LookOK'
<1>1. UNCHANGED <<cb, look>>
  BY DEF Accept
<1> QED  BY <1>1, AcceptKeeps, AcceptOnward, LookStays

(* The main thread compares nothing when it takes an event. *)
LEMMA EventsKeep ==
  ASSUME Inv, LookOK, Events
  PROVE  Kept /\ LookOK'
<1>1. Kept
  BY EvtEstablishKeeps, EvtDataKeeps, EvtEndKeeps, EvtConnectFailKeeps, EvtRecvActiveKeeps DEF Events
<1>2. look.at = "none" /\ UNCHANGED look
  BY DEF Events, EvtEstablish, EvtData, EvtEnd, EvtConnectFail, EvtRecvActive, TakeEvt, MainFree
<1> QED  BY <1>1, <1>2 DEF LookOK

(* The main thread's timers, calls and comparisons, and the far end. *)
LEMMA MainKeeps ==
  ASSUME Inv, LookOK, Events \/ Comparing \/ \E s \in Sockets : TimerFires(s) \/ AppCalls(s) \/ PeerReset(s)
  PROVE  (Kept /\ LookOK') \/ (Gone /\ MisreadOnlySo')
<1>1. CASE Comparing
  BY <1>1, FirstLoadKeeps, DifferKeeps, MisreadGoes, PostSendReqKeeps, PostCloseReqKeeps, PostRefusedKeeps
     DEF Comparing
<1>2. ASSUME NEW s \in Sockets, TimerFires(s) PROVE (Kept /\ LookOK') \/ (Gone /\ MisreadOnlySo')
  BY <1>2, OnTimerSendKeeps, OnTimerCloseTryKeeps, OnTimerCloseKeeps, OnTimerFreeKeeps DEF TimerFires
<1>3. ASSUME NEW s \in Sockets, AppCalls(s) PROVE Kept /\ LookOK'
  <2>1. CASE NetTcpConnect(s)
    <3>1. look.at = "none" /\ UNCHANGED look
      BY <2>1 DEF NetTcpConnect, MainFree
    <3> QED  BY <2>1, <3>1, NetTcpConnectKeeps DEF LookOK
  <2> QED  BY <1>3, <2>1, NetTcpSendKeeps, NetTcpCloseSessionKeeps DEF AppCalls
<1>4. ASSUME NEW s \in Sockets, PeerReset(s) PROVE Kept /\ LookOK'
  <2>1. UNCHANGED <<sock, pool, cb, look>>
    BY <1>4 DEF PeerReset
  <2> QED  BY <1>4, <2>1, PeerResetKeeps DEF LookOK
<1> QED  BY <1>1, <1>2, <1>3, <1>4, EventsKeep

(* Any step. *)
LEMMA NextKeeps ==
  ASSUME Inv, LookOK, Next
  PROVE  (Kept /\ LookOK') \/ Full \/ (Gone /\ MisreadOnlySo')
BY DequeueKeeps, HandlerKeeps, AcceptsOn, MainKeeps DEF Next

(* A process that has crushed takes no more steps. *)
LEMMA Stopped ==
  ASSUME Next
  PROVE  crush = "none"
<1>1. ASSUME NEW t \in Threads, Dequeue(t) PROVE crush = "none"
  BY <1>1, ZenonT(60) DEF Dequeue, TakeRecv, TakeSend, TakeCloseReq, TakeConnectReq, TakeConnect, Take, At, Running
<1>2. ASSUME NEW t \in Threads, Handler(t) PROVE crush = "none"
  BY <1>2 DEF Handler, CloseSocket, PushEnd, RecvDecide, RecvStillUp, RecvEvent, RecvNext, RecvActive,
     SendDecide, SendNext, SendAck, ConnectReq, ConnectFail, Connected, ConnectOps, Establish, At, Running
<1>3. ASSUME NEW t \in Threads, NEW s \in Sockets, Accept(t, s) PROVE crush = "none"
  BY <1>3 DEF Accept, At, Running
<1>4. Events => crush = "none"
  BY DEF Events, EvtEstablish, EvtData, EvtEnd, EvtConnectFail, EvtRecvActive, TakeEvt, MainFree, Running
<1>5. ASSUME NEW s \in Sockets, TimerFires(s) \/ AppCalls(s) \/ PeerReset(s) PROVE crush = "none"
  BY <1>5 DEF TimerFires, OnTimerSend, OnTimerCloseTry, OnTimerClose, OnTimerFree, AppCalls,
     NetTcpConnect, NetTcpSend, NetTcpCloseSession, PeerReset, MainFree, Running
<1>6. Comparing => crush = "none"
  BY DEF Comparing, FirstLoad, Differ, Misread, PostSendReq, PostCloseReq, PostRefused, Agree, Running
<1> QED  BY <1>1, <1>2, <1>3, <1>4, <1>5, <1>6 DEF Next

(* In the beginning every slot is in the pool. *)
LEMMA InitOK ==
  ASSUME Init
  PROVE  Inv /\ LookOK /\ crush = "none"
<1> USE DEF Init
<1>1. NewSocket \in SocketType /\ NewSocket.state = "NONE" /\ NewSocket.recv_req = 0 /\ NewSocket.recv_ack = 0
      /\ NewSocket.send_req = 0 /\ NewSocket.send_ack = 0 /\ ~NewSocket.timer_close /\ NewSocket.recv_used = 0
      /\ NewSocket.data_has_recv = 0 /\ NewSocket.data_need_send = 0 /\ NewSocket.data_has_send = 0
      /\ NewSocket.try_close_send_count = 0
  BY DEF NewSocket, SocketType, States
<1>2. Idle \in ThreadType /\ Idle.at = "idle" /\ Idle.sock = NoSock /\ Idle.then = "idle"
  BY DEF Idle, ThreadType, Labels
<1>3. Types
  <2>1. evt_queue \in Seq(EventType) /\ Len(evt_queue) = 0 /\ EvtCap \in Nat
    BY IocpAssumption
  <2>2. ops \in [Sockets -> [recv : Seq(OpType), send : Seq(OpType)]]
    <3>1. <<>> \in Seq(OpType)
      OBVIOUS
    <3> QED  BY <3>1
  <2> QED  BY <1>1, <1>2, <2>1, <2>2 DEF Types
<1>4. ThreadsOK(th, pool)
  BY <1>2, IocpAssumption DEF ThreadsOK, HandlerOK, SameRole, RecvAt, SendAt, EndAt
<1>5. QueueOK(evt_queue, pool)
  BY DEF QueueOK
<1>6. SessionsInv
  BY <1>1 DEF SessionsInv, SessionOK, FreeOK
<1>7. BytesInv
  <2> SUFFICES ASSUME NEW x \in Sockets
               PROVE  /\ CachesOK(sock[x], Announced(evt_queue, x) + CarriedIn(th, x))
                      /\ OpsFit(sock[x], ops[x].recv, ops[x].send)
                      /\ HandlersFit(th, sock[x], x)
    BY DEF BytesInv
  <2>1. Announced(evt_queue, x) = 0
    <3>1. PICK q \in Seq(EventType) : q = <<>>
      <4>1. <<>> \in Seq(EventType)
        OBVIOUS
      <4> QED  BY <4>1
    <3>2. DOMAIN q = {}
      BY <3>1
    <3>3. Announced(q, x) = 0
      BY <3>2, EventLens, AnnouncedNone
    <3> QED  BY <3>1, <3>3
  <2>2. CarriedIn(th, x) = 0
    BY <1>2 DEF CarriedIn, CarryingIn, CarryAt
  <2>3. 0 <= RecvCap /\ 0 <= SendCap /\ 0 <= MaxTry
    BY IocpAssumption
  <2>4. CachesOK(sock[x], 0 + 0)
    BY <1>1, <2>3 DEF CachesOK
  <2>5. OpsFit(sock[x], ops[x].recv, ops[x].send)
    BY DEF OpsFit
  <2>6. HandlersFit(th, sock[x], x)
    BY <1>2 DEF HandlersFit
  <2> QED  BY <2>1, <2>2, <2>4, <2>5, <2>6
<1>8. LookOK
  <2>1. NoLook \in LookType /\ NoLook.at = "none" /\ NoLook.first = "none"
    BY DEF NoLook, LookType
  <2> QED  BY <2>1 DEF LookOK
<1> QED  BY <1>3, <1>4, <1>5, <1>6, <1>7, <1>8 DEF Inv

-----------------------------------------------------------------------------
(* What the invariant says of the properties. *)
LEMMA InvTypes ==
  ASSUME Inv
  PROVE  TypeOK
<1>1. Types /\ BytesInv
  BY DEF Inv
<1>2. ASSUME NEW s \in Sockets
      PROVE  /\ sock[s].recv_used \in 0 .. RecvCap /\ SendUsed(s) \in 0 .. SendCap
             /\ sock[s].data_has_recv \in 0 .. RecvCap /\ sock[s].try_close_send_count \in 0 .. MaxTry
  <2>1. PICK k \in Nat : k = Announced(evt_queue, s) + CarriedIn(th, s)
    <3>1. Announced(evt_queue, s) \in Nat /\ CarriedIn(th, s) \in Nat
      BY Parts, CarriedNat
    <3> QED  BY <3>1
  <2>2. CachesOK(sock[s], k) /\ sock[s] \in SocketType
    BY <1>1, <2>1 DEF BytesInv, Types
  <2>3. PICK a \in Nat, b \in Nat, d \in Nat, e \in Nat, f \in Nat :
          /\ a = sock[s].recv_used /\ b = sock[s].data_has_recv /\ d = sock[s].data_need_send
          /\ e = sock[s].data_has_send /\ f = sock[s].try_close_send_count
    BY <2>2 DEF SocketType
  <2>4. a <= RecvCap /\ b + k <= a /\ e <= d /\ d - e <= SendCap /\ f <= MaxTry
    BY <2>2, <2>3 DEF CachesOK
  <2>5. a \in 0 .. RecvCap /\ b \in 0 .. RecvCap /\ d - e \in 0 .. SendCap /\ f \in 0 .. MaxTry
    BY <2>3, <2>4, IocpAssumption
  <2> QED  BY <2>3, <2>5 DEF SendUsed
<1>3. \A s \in Sockets : sock[s].state \in {"NONE", "CONNECT", "ESTABLISH", "TERMINATE", "CLOSE"}
  BY <1>1 DEF Types, SocketType, States
<1>4. \A t \in Threads : th[t].sock \in Sockets \cup {NoSock}
  BY <1>1 DEF Types, ThreadType
<1> QED  BY <1>1, <1>2, <1>3, <1>4 DEF TypeOK, Types

LEMMA InvExclusive ==
  ASSUME Inv
  PROVE  StructuresExclusive
<1> SUFFICES ASSUME NEW s \in Sockets
             PROVE  /\ Len(ops[s].recv) <= 1 /\ Len(ops[s].send) <= 1
                    /\ sock[s].recv_req - sock[s].recv_ack = Len(ops[s].recv)
                    /\ sock[s].send_req - sock[s].send_ack = Len(ops[s].send) + Cardinality(Unacknowledged(s))
                    /\ s \in pool => ops[s] = [recv |-> <<>>, send |-> <<>>]
  BY DEF StructuresExclusive
<1>1. Unacknowledged(s) = SendersIn(th, s)
  BY DEF Unacknowledged, SendersIn, Sends
<1>2. CASE s \notin pool
  BY <1>1, <1>2, UsedView DEF UsedOK, ReadingOK, SendingOK
<1>3. CASE s \in pool
  <2>1. PICK v, o, c, E, n, P, u, k : View(s, v, o, c, E, n, P, u, k)
    BY DEF View
  <2>2. u = 0 /\ FreeOK(v, c, o.recv, o.send) /\ v \in SocketType
    BY <1>3, <2>1, PoolView
  <2>3. o = [recv |-> <<>>, send |-> <<>>]
    BY <2>1, <2>2, Parts DEF View, FreeOK
  <2>4. v.recv_req - v.recv_ack = 0 /\ v.send_req - v.send_ack = 0
    BY <2>2 DEF FreeOK, SocketType
  <2>5. Len(o.recv) = 0 /\ Len(o.send) = 0
    BY <2>3
  <2> QED  BY <1>1, <2>1, <2>2, <2>3, <2>4, <2>5 DEF View
<1> QED  BY <1>2, <1>3

LEMMA InvCallbacks ==
  ASSUME Inv
  PROVE  CallbacksInOrder
<1> SUFFICES ASSUME NEW s \in Sockets
             PROVE  /\ cb[s] # "wrong"
                    /\ s \in pool => cb[s] = "idle"
                    /\ cb[s] = "down" => \A i \in DOMAIN evt_queue :
                         evt_queue[i].sock = s => evt_queue[i].type \notin TerminalEvents \cup {"ESTABLISH"}
  BY DEF CallbacksInOrder
<1>1. s \in pool => cb[s] = "idle"
  BY UsedView DEF FreeOK
<1>2. ASSUME s \notin pool, cb[s] = "down"
      PROVE  TypesIn(evt_queue, s) \cap (TerminalEvents \cup {"ESTABLISH"}) = {}
  BY <1>2, UsedView DEF UsedOK, EndingOK
<1>3. s \notin pool => cb[s] # "wrong"
  BY UsedView DEF UsedOK, HeardOK
<1>4. \A i \in DOMAIN evt_queue : evt_queue[i].sock = s => evt_queue[i].type \in TypesIn(evt_queue, s)
  BY TypesEntry
<1> QED  BY <1>1, <1>2, <1>3, <1>4

LEMMA InvBytes ==
  ASSUME Inv
  PROVE  BytesAccounted
<1> SUFFICES ASSUME NEW s \in Sockets, sock[s].state = "ESTABLISH"
             PROVE  /\ \A t, u \in Carrying(s) : t = u
                    /\ sock[s].recv_used = sock[s].data_has_recv + Announced(evt_queue, s) + Carried(s)
  BY DEF BytesAccounted
<1>1. Carrying(s) = CarryingIn(th, s)
  BY DEF Carrying, CarryingIn, CarryAt
<1>2. Carried(s) = CarriedIn(th, s)
  BY <1>1 DEF Carried, CarriedIn
<1>3. \A t, u \in Carrying(s) : t = u
  <2>1. \A t \in Carrying(s) : t \in Threads /\ th[t].sock = s /\ th[t].at \in RecvAt
    BY <1>1, Places DEF CarryingIn
  <2> QED  BY <2>1, Parts DEF ThreadsOK, SameRole
<1>4. PICK a \in Nat, b \in Nat, n \in Nat, k \in Nat :
        a = sock[s].recv_used /\ b = sock[s].data_has_recv /\ n = Announced(evt_queue, s)
          /\ k = CarriedIn(th, s)
  BY Parts, CarriedNat DEF SocketType
<1>5. b + (n + k) = a
  BY <1>4, UsedView DEF CachesOK
<1>6. a = (b + n) + k
  BY <1>4, <1>5
<1> QED  BY <1>2, <1>3, <1>4, <1>6

(* What is left of a session whose slot the timer would release. *)
LEMMA InvRelease ==
  ASSUME Inv
  PROVE  ReleaseSafe
<1> SUFFICES ASSUME NEW s \in Sockets, Releasable(s)
             PROVE  /\ ~sock[s].open /\ ops[s] = [recv |-> <<>>, send |-> <<>>] /\ cb[s] = "down"
                    /\ \A t \in Threads : th[t].sock = s =>
                         /\ th[t].at \in {"recv", "recv_push", "recv_event", "recv_next", "recv_active"}
                         /\ \A w \in Threads : th[w].sock = s => w = t
                    /\ \A i \in DOMAIN evt_queue :
                         evt_queue[i].sock = s => evt_queue[i].type \in {"DATA", "RECV_ACTIVE"}
  BY DEF ReleaseSafe
<1>1. PICK v, o, c, E, n, P, u, k : View(s, v, o, c, E, n, P, u, k)
  BY DEF View
<1>2. v.timer_close /\ v.state = "TERMINATE" /\ v.recv_req = v.recv_ack /\ v.send_req = v.send_ack
  BY <1>1 DEF Releasable, SendIdle, View
<1>3. s \notin pool
  BY <1>2, <1>1, InUse DEF View
<1>4. v \in SocketType /\ o \in OpsType /\ UsedOK(v, c, o.recv, o.send, E, P, u) /\ Len(o.recv) \in Nat
      /\ o = [recv |-> o.recv, send |-> o.send]
  BY <1>1, <1>3, Viewed
<1>5. c = "down" /\ ~v.open /\ P \cap EndAt = {} /\ E \cap TerminalEvents = {} /\ "ESTABLISH" \notin E
  BY <1>2, <1>4 DEF UsedOK, EndingOK
<1>6. u = 0 /\ o.send = <<>> /\ P \cap SendAt = {}
  BY <1>1, <1>2, <1>3, NoSends
<1>7. o.recv = <<>>
  <2>1. v.recv_req - v.recv_ack = Len(o.recv) /\ v.recv_req \in Nat
    BY <1>4 DEF UsedOK, ReadingOK, SocketType
  <2>2. PICK q \in Seq(OpType) : q = o.recv
    BY <1>4 DEF OpsType
  <2>3. Len(q) = 0
    BY <1>2, <2>1, <2>2
  <2> QED  BY <2>2, <2>3
<1>8. P \cap {"connect_req", "connect"} = {} /\ P \cap Opening = {}
  BY <1>2, <1>4 DEF UsedOK, OpeningOK
<1>9. SendersIn(th, s) = {}
  BY <1>1, <1>6, Parts, FS_EmptySet DEF View
<1>10. ASSUME NEW t \in Threads, th[t].sock = s
       PROVE  /\ th[t].at \in {"recv", "recv_push", "recv_event", "recv_next", "recv_active"}
              /\ th[t].at \in RecvAt
  <2>1. th[t] \in ThreadType /\ HandlerOK(th[t]) /\ s # NoSock
    BY Parts, IocpAssumption DEF ThreadsOK
  <2>2. th[t].at \in Labels /\ th[t].at # "idle"
    BY <1>10, <2>1 DEF ThreadType, HandlerOK
  <2>3. th[t].at # "send_ack"
    BY <1>9, <1>10 DEF SendersIn, Sends
  <2>4. th[t].at \in Roles => th[t].at \in P
    BY <1>1, <1>10 DEF PlacesIn, View
  <2>5. th[t].at \in Roles
    BY <2>2, <2>3, Places
  <2>6. th[t].at \in P /\ th[t].at \notin EndAt /\ th[t].at \notin SendAt
    BY <1>5, <1>6, <2>4, <2>5
  <2>7. th[t].at \in RecvAt
    BY <2>5, <2>6 DEF Roles
  <2>8. th[t].at \notin {"connect_req", "connect", "connect_ops", "establish"}
    BY <1>8, <2>6 DEF Opening
  <2> QED  BY <2>7, <2>8 DEF RecvAt
<1>11. \A t, w \in Threads : th[t].sock = s /\ th[w].sock = s => t = w
  BY <1>10, Parts DEF ThreadsOK, SameRole
<1>12. ASSUME NEW i \in DOMAIN evt_queue, evt_queue[i].sock = s
       PROVE  evt_queue[i].type \in {"DATA", "RECV_ACTIVE"}
  <2>1. evt_queue[i].type \in E
    BY <1>1, <1>12, TypesEntry DEF View
  <2>2. evt_queue[i] \in EventType
    BY Parts DEF Types
  <2> QED  BY <1>5, <2>1, <2>2 DEF EventType, EventTypes
<1>13. ops[s] = [recv |-> <<>>, send |-> <<>>] /\ cb[s] = "down" /\ ~sock[s].open
  BY <1>1, <1>4, <1>5, <1>6, <1>7 DEF View
<1> QED  BY <1>10, <1>11, <1>12, <1>13

-----------------------------------------------------------------------------
(* The session code keeps its invariant until it ends in one of three ways: the event queue is   *)
(* found full, the only assertion of it that can fail (iocp_tcp.c:2443-2449 sizes the queue, 16  *)
(* entries to a socket); the main thread misreads the counters of a send, which takes loading    *)
(* the requests first; or it would release the slot of a session that a handler or an event has  *)
(* outlasted.  The invariant, with what is known of a comparison under way, still holds there.   *)
SafeSoFar ==
  /\ crush \in {"none", "evt_full", "misread", "outlasted"} /\ CallbacksInOrder
  /\ crush # "evt_full" => Inv /\ LookOK /\ MisreadOnlySo

THEOREM SessionsKeepInvariant == Spec => []SafeSoFar
<1>1. Init => SafeSoFar
  BY InitOK, InvCallbacks DEF SafeSoFar, MisreadOnlySo
<1>2. Inv => CallbacksInOrder
  BY InvCallbacks
<1>3. SafeSoFar /\ [Next]_vars => SafeSoFar'
  <2> SUFFICES ASSUME SafeSoFar, [Next]_vars PROVE SafeSoFar'
    OBVIOUS
  <2>1. CASE Next
    <3>1. crush = "none" /\ Inv /\ LookOK
      BY <2>1, Stopped DEF SafeSoFar
    <3>2. CASE Kept /\ LookOK'
      <4>1. CallbacksInOrder'
        <5>1. (Inv => CallbacksInOrder)'
          BY <1>2, PTL
        <5> QED  BY <3>2, <5>1 DEF Kept
      <4> QED  BY <3>2, <4>1 DEF Kept, SafeSoFar, MisreadOnlySo
    <3>3. CASE Full
      <4>1. CallbacksInOrder'
        BY <3>3 DEF Full, CallbacksInOrder, SafeSoFar
      <4> QED  BY <3>3, <4>1 DEF Full, SafeSoFar
    <3>4. CASE Gone /\ MisreadOnlySo'
      <4>1. CallbacksInOrder'
        BY <3>4 DEF Gone, CallbacksInOrder, SafeSoFar
      <4>2. Inv'
        BY <3>1, <3>4, NothingChanges DEF Gone
      <4>3. LookOK'
        BY <3>1, <3>4 DEF Gone, LookOK
      <4> QED  BY <3>4, <4>1, <4>2, <4>3 DEF Gone, SafeSoFar
    <3> QED  BY <2>1, <3>1, <3>2, <3>3, <3>4, NextKeeps
  <2>2. CASE UNCHANGED vars
    <3>1. CallbacksInOrder' /\ UNCHANGED crush
      BY <2>2 DEF vars, CallbacksInOrder, SafeSoFar
    <3>2. Inv => Inv'
      BY <2>2, NothingChanges DEF vars
    <3>3. (LookOK => LookOK') /\ (MisreadOnlySo => MisreadOnlySo')
      BY <2>2 DEF vars, LookOK, MisreadOnlySo
    <3> QED  BY <3>1, <3>2, <3>3 DEF SafeSoFar
  <2> QED  BY <2>1, <2>2
<1> QED  BY <1>1, <1>3, PTL DEF Spec

(* The application hears of every session in order and of its end once, whichever threads find a *)
(* reason to end it, up to the moment the process is lost in one of those ways.                  *)
THEOREM HeardInOrder == Spec => []CallbacksInOrder
<1>1. SafeSoFar => CallbacksInOrder
  BY DEF SafeSoFar
<1> QED  BY <1>1, SessionsKeepInvariant, PTL

(* While no thread has found the event queue full, the fields stay in their ranges and no two    *)
(* operations use one overlapped structure; only loading the requests first misreads a send that *)
(* is under way; and what can outlast a session is its receive handler and the events of that.   *)
THEOREM HandlersStaySafe == Spec => [](crush # "evt_full" => HandlersSafe)
<1>1. SafeSoFar => (crush # "evt_full" => HandlersSafe)
  BY InvTypes, InvExclusive, InvRelease DEF SafeSoFar, HandlersSafe, NoCrush
<1> QED  BY <1>1, SessionsKeepInvariant, PTL

(* ... and every received byte is in the hands of the parser, of an event, or of one handler. *)
THEOREM BytesStayAccounted == Spec => [](crush # "evt_full" => BytesAccounted)
<1>1. SafeSoFar => (crush # "evt_full" => BytesAccounted)
  BY InvBytes DEF SafeSoFar
<1> QED  BY <1>1, SessionsKeepInvariant, PTL
=============================================================================
