----------------------------- MODULE WebSocket -----------------------------
(***************************************************************************)
(* src/websocket.c: the two ends of a WebSocket connection over a net_tcp  *)
(* session.  The session below is taken at its word (SessionCallbacks):    *)
(* on_establish, then packets in the order they were sent, then one        *)
(* on_terminate, with on_error before it when the transport failed.        *)
(*                                                                         *)
(* In some behaviours both ends are this code.  In the others one end has  *)
(* a foreign peer, which goes through the handshake and then sends         *)
(* whatever frames it likes (PeerFrames): that is where fragments come     *)
(* from, which this code reads and never writes.                           *)
(*                                                                         *)
(* A payload is a value with a size, and knows whether it is deflated and  *)
(* masked; header lengths are coded as the wire codes them.  How long the  *)
(* deflated form of a payload is makes no difference, except that nothing  *)
(* deflates to one byte.                                                   *)
(***************************************************************************)
EXTENDS Integers, Sequences, SequencesExt, TLC

CONSTANTS
  Sizes,        \* payload sizes the applications send, among them the coding's edges
  InflateCache, \* ZLIB_CACHE_EXTEND_SIZE, the bytes the inflation has room for at first
  MaxMessages,  \* bound: data messages the applications send, together
  MaxFrames,    \* bound: frames a foreign peer sends
  MaxPings      \* bound: pings the two applications send together

VARIABLES
  ws,       \* the ws_socket of each end
  tcp,      \* the net_tcp session below it
  wire,     \* packets sent to an end and not yet handled
  stuck,    \* did the head of the handshake arrive together with what follows it?
  foreign,  \* the end whose peer is a foreign one, or "none"
  hook,     \* has the server a func_on_http_upgrade?
  sent,     \* history: data messages each end's peer sent it, whole
  part,     \* history: what the foreign peer has sent of a fragmented message
  got,      \* history: data messages reported by on_message
  seen,     \* history: what the application knows of the session
  closes,   \* history: the close codes each end has sent
  pings     \* pings and foreign frames so far

vars == <<ws, tcp, wire, stuck, foreign, hook, sent, part, got, seen, closes, pings>>

Ends == {"client", "server"}
Other(e) == IF e = "client" THEN "server" ELSE "client"

-----------------------------------------------------------------------------
(* Frames *)

\* Mutant: the size 65535 is given two bytes, and so is every size above it.
EncodedSize_TwoBytes(n) ==
  IF n < 126 THEN [len7 |-> n, ext |-> 0] ELSE [len7 |-> 126, ext |-> n % 65536]

\* The length field _ws_server_data and _ws_client_data write.
EncodedSize(n) ==
  CASE n < 126 -> [len7 |-> n, ext |-> 0]
    [] n >= 126 /\ n < 65535 -> [len7 |-> 126, ext |-> n % 65536]
    [] OTHER -> [len7 |-> 127, ext |-> n]

\* The payload length _parser_web_socket_packet reads back.
DecodedSize(f) == IF f.len7 < 126 THEN f.len7 ELSE f.ext

NoPayload == [id |-> 0, size |-> 0, utf8 |-> TRUE, deflated |-> FALSE]

\* The bytes of a payload on the wire: _ws_deflate leaves out the last four.
WireSize(p) == IF ~p.deflated THEN p.size ELSE IF p.size = 0 THEN 1 ELSE 126

\* A frame: fin, opcode, mask bit, reserved bits, coded length, payload.
Frame(fin, op, masked, rsv, p) ==
  [kind |-> "frame", fin |-> fin, op |-> op, masked |-> masked, rsv |-> rsv,
   code |-> 0, p |-> p] @@ EncodedSize(WireSize(p))

Http(ok, deflate) == [kind |-> "http", ok |-> ok, deflate |-> deflate]

Message(op, pieces) == [op |-> op, pieces |-> pieces]

Inflated(p) == [p EXCEPT !.deflated = FALSE]

\* _ws_inflate answers 0 on what deflate did not write, and so it does on an empty payload: no
\* byte comes out of the one that stands for it.
InflateFails(p) == ~p.deflated \/ p.size = 0

\* The inflation stops when the input is used up, and zlib may have taken the last of it before
\* it ran out of room: what lies just beyond the cache may be missing.
JustBeyond(n) == n > InflateCache /\ n <= InflateCache + 258

Inflations(p) ==
  {Inflated(p)} \cup (IF JustBeyond(p.size) THEN {[Inflated(p) EXCEPT !.size = InflateCache]} ELSE {})

-----------------------------------------------------------------------------
(* Endpoints *)

NoSocket == [alive |-> FALSE, state |-> "none", error |-> "ok", code |-> 0, deflate |-> FALSE,
             fragment |-> <<>>, fragment_op |-> "none"]
NewSocket(state) == [NoSocket EXCEPT !.alive = TRUE, !.state = state]

Init ==
  /\ ws = [e \in Ends |-> NoSocket]
  /\ tcp = [e \in Ends |-> "none"]
  /\ wire = [e \in Ends |-> <<>>]
  /\ stuck = [e \in Ends |-> FALSE]
  /\ foreign \in Ends \cup {"none"}
  /\ hook \in BOOLEAN /\ (foreign = "client" => ~hook)
  /\ sent = [e \in Ends |-> <<>>]
  /\ part = [e \in Ends |-> Message("none", <<>>)]
  /\ got = [e \in Ends |-> <<>>]
  /\ seen = [e \in Ends |-> "none"]
  /\ closes = [e \in Ends |-> <<>>]
  /\ pings = [e \in Ends |-> 0]

Open(e) == ws[e].state = "websocket"

\* The packet being handled leaves the receive cache.
Rest(e) == [wire EXCEPT ![e] = Tail(@)]

\* What end e sends reaches the other end, or a foreign peer, which this model does not follow.
Send(w, e, item) ==
  IF foreign = "none" /\ tcp[e] = "up" THEN [w EXCEPT ![Other(e)] = Append(@, item)] ELSE w

\* Shortened: the frames that end e masks are the client's.
Control(e, op, p) == Frame(TRUE, op, e = "client", "none", p)

\* net_tcp_close_session.  Through the handle of a session long gone it closes a stranger's.
TcpClose(e) ==
  tcp' = [tcp EXCEPT ![e] = IF @ = "up" THEN "closing" ELSE IF @ = "forgotten" THEN "stray" ELSE @]

\* Mutant: a second close sends a second close frame.
WsCloseSocket_Again(e, type, code, w, rest) ==
  /\ ws' = [ws EXCEPT ![e] = [w EXCEPT !.error = type, !.code = code]]
  /\ closes' = [closes EXCEPT ![e] = IF w.state = "websocket" THEN Append(@, code) ELSE @]
  /\ wire' = rest
  /\ TcpClose(e)

\* _ws_close_socket: the first error is recorded, an open end sends a close frame with its code,
\* and the session below is closed; on a connecting client only the error is recorded.
WsCloseSocket(e, type, code, w, rest) ==
  LET first == w.error = "ok"
      says  == first /\ w.state = "websocket" /\ tcp[e] = "up" IN
  /\ ws' = [ws EXCEPT ![e] = IF first THEN [w EXCEPT !.error = type, !.code = code] ELSE w]
  /\ wire' = IF says THEN Send(rest, e, [Control(e, "close", NoPayload) EXCEPT !.code = code])
             ELSE rest
  /\ closes' = IF says THEN [closes EXCEPT ![e] = Append(@, code)] ELSE closes
  /\ IF first /\ w.state = "tcp" THEN UNCHANGED tcp ELSE TcpClose(e)

-----------------------------------------------------------------------------
(* Opening *)

\* net_ws_connect.  The session below is connecting when the request is put together.
WsConnect ==
  /\ foreign # "server" /\ tcp["client"] = "none" /\ seen["client"] = "none"
  /\ ws' = [ws EXCEPT !["client"] = NewSocket("tcp")]
  /\ tcp' = [tcp EXCEPT !["client"] = "connecting"]
  /\ seen' = [seen EXCEPT !["client"] = "connecting"]
  /\ UNCHANGED <<wire, stuck, foreign, hook, sent, part, got, closes, pings>>

\* Its FAIL: a request of more than MAX_HTTP_REQUEST_SIZE bytes.  The socket is freed and the
\* application told, but the session goes on connecting, without session data.
WsConnectTooLong ==
  /\ foreign # "server" /\ tcp["client"] = "none" /\ seen["client"] = "none"
  /\ tcp' = [tcp EXCEPT !["client"] = "orphaned"]
  /\ seen' = [seen EXCEPT !["client"] = "refused"]
  /\ UNCHANGED <<ws, wire, stuck, foreign, hook, sent, part, got, closes, pings>>

\* _ws_on_establish or _ws_on_error looks for the socket of such a session through a null pointer.
OrphanHeard ==
  /\ tcp["client"] = "orphaned"
  /\ tcp' = [tcp EXCEPT !["client"] = "crashed"]
  /\ UNCHANGED <<ws, wire, stuck, foreign, hook, sent, part, got, seen, closes, pings>>

\* A secure session whose handshake fails ends without any callback (EpollTls): nobody frees
\* the ws_socket, if it has one, and the application is not told.
HandshakeFails ==
  /\ tcp["client"] \in {"connecting", "orphaned"}
  /\ tcp' = [tcp EXCEPT !["client"] = IF @ = "connecting" THEN "forgotten" ELSE "none"]
  /\ UNCHANGED <<ws, wire, stuck, foreign, hook, sent, part, got, seen, closes, pings>>

\* _ws_on_establish at both ends: the client sends its request, the listener allocates a socket.
\* The request asks for permessage-deflate when the application's extra headers do.
Established ==
  /\ tcp["client"] = "connecting"
  /\ IF foreign = "client"
     THEN /\ tcp' = [tcp EXCEPT !["client"] = "up"]
          /\ ws' = [ws EXCEPT !["client"].state = "http"]
          /\ UNCHANGED wire
     ELSE /\ tcp' = [e \in Ends |-> "up"]
          /\ ws' = [ws EXCEPT !["client"].state = "http", !["server"] = NewSocket("http")]
          /\ \E deflate \in BOOLEAN : wire' = [wire EXCEPT !["server"] = <<Http(TRUE, deflate)>>]
  /\ UNCHANGED <<stuck, foreign, hook, sent, part, got, seen, closes, pings>>

\* Mutant: the socket of a failed connection is not given back.
ConnectFails_Keeps ==
  /\ tcp["client"] = "connecting"
  /\ tcp' = [tcp EXCEPT !["client"] = "none"]
  /\ seen' = [seen EXCEPT !["client"] = "failed"]
  /\ UNCHANGED <<ws, wire, stuck, foreign, hook, sent, part, got, closes, pings>>

\* error_connect_fail: on_fail, and the socket is freed, for no on_terminate follows.
ConnectFails ==
  /\ tcp["client"] = "connecting"
  /\ tcp' = [tcp EXCEPT !["client"] = "none"]
  /\ seen' = [seen EXCEPT !["client"] = IF @ = "connecting" THEN "failed" ELSE "wrong"]
  /\ ws' = [ws EXCEPT !["client"] = NoSocket]
  /\ UNCHANGED <<wire, stuck, foreign, hook, sent, part, got, closes, pings>>

\* A foreign peer of the client answers the handshake, or opens one with the server.
PeerAnswers ==
  /\ foreign = "client" /\ ws["client"].state = "http" /\ pings["client"] = 0
  /\ pings' = [pings EXCEPT !["client"] = 1]
  /\ \E ok, deflate \in BOOLEAN : wire' = [wire EXCEPT !["client"] = <<Http(ok, deflate)>>]
  /\ UNCHANGED <<ws, tcp, stuck, foreign, hook, sent, part, got, seen, closes>>

PeerConnects ==
  /\ foreign = "server" /\ tcp["server"] = "none" /\ pings["server"] = 0
  /\ pings' = [pings EXCEPT !["server"] = 1]
  /\ tcp' = [tcp EXCEPT !["server"] = "up"]
  /\ ws' = [ws EXCEPT !["server"] = NewSocket("http")]
  /\ \E ok, deflate \in BOOLEAN : wire' = [wire EXCEPT !["server"] = <<Http(ok, deflate)>>]
  /\ UNCHANGED <<stuck, foreign, hook, sent, part, got, seen, closes>>

\* Packets are handled one by one, and those read together also after the session began to end.
Handled(e) == tcp[e] \in {"up", "closing"} /\ wire[e] # <<>> /\ ~stuck[e]

\* _parser_http_packet: the head is complete when the bytes END with the empty line, so a frame
\* that arrives with the head keeps it from ever being seen.
HeadSwallowed(e) ==
  /\ Handled(e) /\ ws[e].state = "http" /\ Len(wire[e]) > 1
  /\ stuck' = [stuck EXCEPT ![e] = TRUE]
  /\ UNCHANGED <<ws, tcp, wire, foreign, hook, sent, part, got, seen, closes, pings>>

HttpComplete(e) == Handled(e) /\ ws[e].state = "http"

Opens(e) == seen' = [seen EXCEPT ![e] = IF @ \in {"none", "connecting"} THEN "open" ELSE "wrong"]

\* _on_client_http_data
ClientHttp ==
  /\ HttpComplete("client")
  /\ LET r == Head(wire["client"]) IN
       IF ~r.ok THEN WsCloseSocket("client", "http", 406, ws["client"], Rest("client")) /\ UNCHANGED seen
       ELSE /\ ws' = [ws EXCEPT !["client"].state = "websocket", !["client"].deflate = r.deflate]
            /\ wire' = Rest("client") /\ Opens("client") /\ UNCHANGED <<tcp, closes>>
  /\ UNCHANGED <<stuck, foreign, hook, sent, part, got, pings>>

\* _on_server_http_data: the application's hook writes the answer itself, or refuses; otherwise
\* the extension is accepted when it was asked for.
ServerHttp ==
  /\ HttpComplete("server")
  /\ LET r == Head(wire["server"])
         Answer(deflate) ==
           /\ ws' = [ws EXCEPT !["server"].state = "websocket", !["server"].deflate = deflate]
           /\ wire' = Send(Rest("server"), "server", Http(TRUE, deflate))
           /\ Opens("server") /\ UNCHANGED <<tcp, closes>> IN
       \/ ~hook /\ r.ok /\ Answer(r.deflate)
       \/ hook /\ Answer(FALSE)
       \/ /\ hook \/ ~r.ok
          /\ WsCloseSocket("server", "http", 406, ws["server"], Rest("server")) /\ UNCHANGED seen
  /\ UNCHANGED <<stuck, foreign, hook, sent, part, got, pings>>

-----------------------------------------------------------------------------
(* Frames received *)

\* What every frame must satisfy: a client's frames are masked, a server's are not; a reserved
\* bit needs the extension, and only the first one means compression.
BadFrame(e, f) ==
  \/ f.masked # (e = "server")
  \/ f.rsv = "rsv1" /\ ~ws[e].deflate
  \/ f.rsv = "rsv23"

Compressed(f) == f.rsv = "rsv1"

\* The payload as the handler may see it after unmasking and inflating.  The bit is asked of each
\* frame, so the later fragments of a compressed message, which carry none, stay deflated.
Payloads(f) ==
  IF Compressed(f) THEN Inflations(f.p)
  ELSE IF f.p.deflated THEN {f.p} ELSE {[f.p EXCEPT !.size = DecodedSize(f)]}

Utf8(pieces) == \A i \in DOMAIN pieces : pieces[i].utf8

Fragmented(e) == ws[e].fragment # <<>>

\* The reason to close the session that a data frame gives, or "none".
Refusal(e, f) ==
  CASE BadFrame(e, f) -> "frame"
    [] f.op = "cont" /\ ~Fragmented(e) -> "no_begin"
    [] f.op \in {"text", "binary"} /\ Fragmented(e) -> "in_fragment"
    [] Compressed(f) /\ InflateFails(f.p) -> "inflate"
    [] f.fin /\ f.op = "text" /\ ~f.p.utf8 -> "utf8"
    [] OTHER -> "none"

DataOps == {"cont", "text", "binary"}

FrameIn(e, ops) == Handled(e) /\ Open(e) /\ Head(wire[e]).op \in ops

\* A frame that is refused: a begin frame that does not inflate has set the opcode by then.
RefuseFrame(e) ==
  /\ FrameIn(e, DataOps)
  /\ LET f == Head(wire[e])
         w == IF ~f.fin /\ f.op # "cont" /\ Refusal(e, f) = "inflate"
              THEN [ws[e] EXCEPT !.fragment_op = f.op] ELSE ws[e] IN
       /\ Refusal(e, f) # "none"
       /\ WsCloseSocket(e, "websocket", IF Refusal(e, f) = "utf8" THEN 1007 ELSE 1002, w, Rest(e))
  /\ UNCHANGED <<stuck, foreign, hook, sent, part, got, seen, pings>>

\* on_message.  Nothing in the receiving code asks whether the session is already ending, so the
\* frames that came in the same read as a refused one are still reported: `late` marks them.
Deliver(e, m) == got' = [got EXCEPT ![e] = Append(@, [m |-> m, late |-> ws[e].error # "ok"])]

\* A whole message in one frame.
WholeMessage(e) ==
  /\ FrameIn(e, {"text", "binary"})
  /\ LET f == Head(wire[e]) IN
       /\ Refusal(e, f) = "none" /\ f.fin
       /\ \E p \in Payloads(f) : Deliver(e, Message(f.op, <<p>>))
  /\ wire' = Rest(e)
  /\ UNCHANGED <<ws, tcp, stuck, foreign, hook, sent, part, seen, closes, pings>>

\* A begin or a middle frame grows fragment_data.
FragmentGrows(e) ==
  /\ FrameIn(e, DataOps)
  /\ LET f == Head(wire[e]) IN
       /\ Refusal(e, f) = "none" /\ ~f.fin
       /\ \E p \in Payloads(f) :
            ws' = [ws EXCEPT ![e].fragment = Append(@, p),
                             ![e].fragment_op = IF f.op = "cont" THEN @ ELSE f.op]
  /\ wire' = Rest(e)
  /\ UNCHANGED <<tcp, stuck, foreign, hook, sent, part, got, seen, closes, pings>>

\* The end frame: the text is checked whole, the message reported, and w is left.
EndFrame(e, whole, w) ==
  /\ IF ws[e].fragment_op = "text" /\ ~Utf8(whole)
     THEN WsCloseSocket(e, "websocket", 1007, w, Rest(e)) /\ UNCHANGED got
     ELSE /\ ws' = [ws EXCEPT ![e] = w]
          /\ Deliver(e, Message(ws[e].fragment_op, whole))
          /\ wire' = Rest(e) /\ UNCHANGED <<tcp, closes>>
  /\ UNCHANGED <<stuck, foreign, hook, sent, part, seen, pings>>

LastFragment(e) == FrameIn(e, {"cont"}) /\ Head(wire[e]).fin /\ Refusal(e, Head(wire[e])) = "none"

\* Mutant: fragment_data is freed and left set.
FragmentEnds_StaysSet(e) ==
  /\ LastFragment(e)
  /\ \E p \in Payloads(Head(wire[e])) : EndFrame(e, Append(ws[e].fragment, p), ws[e])

\* The memory of the assembled message is given back.
FragmentEnds(e) ==
  /\ LastFragment(e)
  /\ \E p \in Payloads(Head(wire[e])) :
       EndFrame(e, Append(ws[e].fragment, p), [ws[e] EXCEPT !.fragment = <<>>])

\* The control frames: a close is answered with its own code, a ping with a pong, and reserved
\* and unfinished ones are passed over.
ControlFrame(e) ==
  /\ FrameIn(e, {"close", "ping", "pong", "reserved"})
  /\ LET f == Head(wire[e]) IN
       \/ BadFrame(e, f) /\ WsCloseSocket(e, "websocket", 1002, ws[e], Rest(e))
       \/ ~BadFrame(e, f) /\ f.fin /\ f.op = "close" /\ WsCloseSocket(e, "websocket", f.code, ws[e], Rest(e))
       \/ /\ ~BadFrame(e, f) /\ f.fin /\ f.op = "ping"
          /\ wire' = IF f.p.size <= 125 THEN Send(Rest(e), e, Control(e, "pong", f.p)) ELSE Rest(e)
          /\ UNCHANGED <<ws, tcp, closes>>
       \/ /\ ~BadFrame(e, f) /\ (~f.fin \/ f.op \in {"pong", "reserved"})
          /\ wire' = Rest(e) /\ UNCHANGED <<ws, tcp, closes>>
  /\ UNCHANGED <<stuck, foreign, hook, sent, part, got, seen, pings>>

-----------------------------------------------------------------------------
(* The applications *)

\* net_ws_send_text and net_ws_send_binary.  The session below may refuse for want of room, which
\* ends it with error_send_overflow.
WsSend(e) ==
  /\ Open(e) /\ ws[e].error = "ok" /\ foreign = "none"
  /\ Len(sent[e]) + Len(sent[Other(e)]) < MaxMessages
  /\ tcp[e] = "up"
  /\ \/ \E op \in {"text", "binary"}, size \in Sizes, compress \in BOOLEAN :
          LET p == [id |-> Len(sent[Other(e)]) + 1, size |-> size, utf8 |-> TRUE,
                    deflated |-> compress /\ ws[e].deflate]
              f == Frame(TRUE, op, e = "client", IF p.deflated THEN "rsv1" ELSE "none", p) IN
            /\ wire' = Send(wire, e, f)
            /\ sent' = [sent EXCEPT ![Other(e)] = Append(@, Message(op, <<p>>))]
            /\ UNCHANGED tcp
     \/ tcp' = [tcp EXCEPT ![e] = "overflow"] /\ UNCHANGED <<wire, sent>>
  /\ UNCHANGED <<ws, stuck, foreign, hook, part, got, seen, closes, pings>>

\* net_ws_send_ping
WsPing(e) ==
  /\ Open(e) /\ ws[e].error = "ok" /\ tcp[e] = "up" /\ foreign = "none"
  /\ pings["client"] + pings["server"] < MaxPings
  /\ pings' = [pings EXCEPT ![e] = @ + 1]
  /\ wire' = Send(wire, e, Control(e, "ping", NoPayload))
  /\ UNCHANGED <<ws, tcp, stuck, foreign, hook, sent, part, got, seen, closes>>

\* net_ws_close_session, which a client may also call before it is connected, or instead of it.
WsClose(e) ==
  /\ ws[e].alive /\ seen[e] \in {"connecting", "open"}
  /\ tcp[e] \in {"connecting", "up", "forgotten"}
  /\ WsCloseSocket(e, "websocket", 1000, ws[e], wire)
  /\ UNCHANGED <<stuck, foreign, hook, sent, part, got, seen, pings>>

\* The frames a foreign peer may send to end e, right or wrong.  A compressed message in
\* fragments has the reserved bit on the first only, and its first fragment may be empty.
PeerFrames(e) ==
  LET Data(fin, op, rsv, deflated, utf8) ==
        Frame(fin, op, e = "server", rsv,
              [id |-> pings[e], size |-> 1, utf8 |-> utf8, deflated |-> deflated]) IN
  {Data(fin, op, rsv, rsv = "rsv1", TRUE) : fin \in BOOLEAN, op \in DataOps, rsv \in {"none", "rsv1"}}
  \cup {Data(TRUE, op, "none", FALSE, FALSE) : op \in {"text", "cont"}}
  \cup {Data(fin, "cont", "none", TRUE, utf8) : fin, utf8 \in BOOLEAN}
  \cup {Frame(FALSE, "text", e = "server", rsv, [NoPayload EXCEPT !.deflated = (rsv = "rsv1")]) :
           rsv \in {"none", "rsv1"}}
  \cup {Data(fin, "text", "rsv1", FALSE, TRUE) : fin \in BOOLEAN}
  \cup {Frame(TRUE, "text", e # "server", "none", NoPayload),
        Frame(TRUE, "text", e = "server", "rsv23", NoPayload),
        Frame(TRUE, "reserved", e = "server", "none", NoPayload),
        Frame(TRUE, "ping", e = "server", "none", NoPayload),
        [Frame(TRUE, "close", e = "server", "none", NoPayload) EXCEPT !.code = 1001]}

\* The message the peer is in the middle of once it has sent f, as RFC 6455 counts: a piece
\* that continues nothing belongs to no message.
PartAfter(e, f) ==
  CASE f.op # "cont" -> Message(f.op, <<Inflated(f.p)>>)
    [] f.op = "cont" /\ part[e].op # "none" -> [part[e] EXCEPT !.pieces = Append(@, Inflated(f.p))]
    [] OTHER -> part[e]

NoMessage == Message("none", <<>>)

\* A foreign peer sends a frame.
PeerSends(e) ==
  /\ foreign = e /\ Open(e) /\ tcp[e] \in {"up", "closing"} /\ pings[e] <= MaxFrames
  /\ pings' = [pings EXCEPT ![e] = @ + 1]
  /\ \E f \in PeerFrames(e) :
       LET m == PartAfter(e, f)
           ends == f.op \in DataOps /\ f.fin IN
       /\ wire' = [wire EXCEPT ![e] = Append(@, f)]
       /\ part' = IF f.op \in DataOps THEN [part EXCEPT ![e] = IF ends THEN NoMessage ELSE m] ELSE part
       /\ sent' = IF ends /\ m # NoMessage THEN [sent EXCEPT ![e] = Append(@, m)] ELSE sent
  /\ UNCHANGED <<ws, tcp, stuck, foreign, hook, got, seen, closes>>

-----------------------------------------------------------------------------
(* The end of a session *)

\* _ws_on_terminate: on_close for an open session, on_fail for a client that never opened, and
\* the socket is freed.
Terminated(e, w) ==
  /\ seen' = [seen EXCEPT ![e] =
       IF w.state = "websocket" THEN (IF @ = "open" THEN "closed" ELSE "wrong")
       ELSE IF e = "client" THEN (IF @ = "connecting" THEN "failed" ELSE "wrong") ELSE @]
  /\ ws' = [ws EXCEPT ![e] = NoSocket]
  /\ tcp' = [tcp EXCEPT ![e] = "none"]
  /\ wire' = [wire EXCEPT ![e] = <<>>]

\* The session was closed by this end, or the far end is gone and everything it sent was read.
OnTerminate(e) ==
  /\ \/ tcp[e] = "closing"
     \/ tcp[e] = "up" /\ wire[e] = <<>> /\ (foreign = e \/ tcp[Other(e)] = "none")
  /\ Terminated(e, ws[e])
  /\ UNCHANGED <<stuck, foreign, hook, sent, part, got, closes, pings>>

\* _ws_on_error and then _ws_on_terminate: nothing more can be sent, the error is recorded.
OnErrorTerminate(e) ==
  /\ tcp[e] \in {"up", "overflow"}
  /\ Terminated(e, ws[e])
  /\ UNCHANGED <<stuck, foreign, hook, sent, part, got, closes, pings>>

\* A process that crashed stops; once a stranger's session was closed, nothing more is said.
Stopped == tcp["client"] \in {"crashed", "stray"}

Step ==
  \/ WsConnect \/ WsConnectTooLong \/ OrphanHeard \/ HandshakeFails \/ Established \/ ConnectFails \/ PeerAnswers \/ PeerConnects \/ ClientHttp \/ ServerHttp
  \/ \E e \in Ends :
       \/ HeadSwallowed(e) \/ RefuseFrame(e) \/ WholeMessage(e) \/ FragmentGrows(e) \/ FragmentEnds(e)
       \/ ControlFrame(e) \/ WsSend(e) \/ WsPing(e) \/ WsClose(e) \/ PeerSends(e)
       \/ OnTerminate(e) \/ OnErrorTerminate(e)

Next == ~Stopped /\ Step

Spec == Init /\ [][Next]_vars

-----------------------------------------------------------------------------
(* Properties *)

\* Message m arrived as it was sent, its fragments inflated.
AsSent(m, s) == m = [s EXCEPT !.pieces = [i \in DOMAIN @ |-> Inflated(@[i])]]

\* The cases in which it does not.  An empty message that was compressed: the receiver takes it for
\* an error and closes, though it reports what it read together with it.
EmptyDeflated(m) == m.pieces[1].deflated /\ m.pieces[1].size = 0

\* A compressed message just larger than the cache: its end is missing.
CutShort(m, s) ==
  /\ s.pieces[1].deflated /\ JustBeyond(s.pieces[1].size)
  /\ m = Message(s.op, <<[Inflated(s.pieces[1]) EXCEPT !.size = InflateCache]>>)

\* A compressed message in fragments: those behind the first are put together as they came.
Garbled(m, s) ==
  /\ ~m.pieces[1].deflated /\ \E i \in DOMAIN m.pieces : m.pieces[i].deflated
  /\ AsSent([m EXCEPT !.pieces = [i \in DOMAIN @ |-> Inflated(@[i])]], s)

\* Between two ends of this code every message arrives whole, in order and with its own size and
\* opcode, whatever the negotiation, the compression and the batches it came in, save for
\* EmptyDeflated, behind which only what the session's end overtook is reported, and CutShort.
\* From a foreign peer an application gets, until the session begins to end, only messages that
\* were sent, or Garbled.
OwnMessagesIntact(e) ==
  LET readable == SelectSeq(sent[e], LAMBDA m : ~EmptyDeflated(m)) IN
  /\ Len(got[e]) <= Len(readable)
  /\ \A i \in DOMAIN got[e] :
       /\ AsSent(got[e][i].m, readable[i]) \/ CutShort(got[e][i].m, readable[i])
       /\ got[e][i].late \/ \A j \in 1..i : ~EmptyDeflated(sent[e][j])

MessagesIntact ==
  \A e \in Ends :
    IF foreign # e THEN OwnMessagesIntact(e)
    ELSE \A i \in DOMAIN got[e] :
           \/ got[e][i].late
           \/ \E j \in DOMAIN sent[e] :
                AsSent(got[e][i].m, sent[e][j]) \/ Garbled(got[e][i].m, sent[e][j])

\* The sessions whose socket does not end with them: the refused request's, which has none, and
\* the failed handshake's, whose socket stays.
Orphaned(e) == tcp[e] \in {"orphaned", "crashed"} /\ seen[e] = "refused"
Forgotten(e) == tcp[e] \in {"forgotten", "stray"} /\ ws[e].state = "tcp" /\ seen[e] = "connecting"

\* Every ws_socket is freed exactly once: it lives as long as its session, and no longer, on all
\* the ways a session can end save Orphaned and Forgotten; a message being assembled dies with it.
SocketsFreed ==
  \A e \in Ends :
    /\ ws[e].alive <=> tcp[e] \in {"connecting", "up", "closing", "overflow"} \/ Forgotten(e)
    /\ tcp[e] \in {"orphaned", "crashed"} => Orphaned(e)
    /\ tcp[e] = "stray" => ws[e].error # "ok"
    /\ seen[e] # "wrong"
    /\ seen[e] \in {"closed", "failed"} => ~ws[e].alive
    /\ ws[e].fragment # <<>> => Open(e)

\* An end sends one close frame at most, and only when it was not already ending.
OneCloseFrame ==
  \A e \in Ends :
    /\ Len(closes[e]) <= 1
    /\ ws[e].alive /\ closes[e] # <<>> => ws[e].code = closes[e][1] /\ ws[e].error # "ok"

\* A connection ends once: one close frame each way, and its ws_socket is freed.
EndsOnce == SocketsFreed /\ OneCloseFrame
=============================================================================
