-------------------------- MODULE SessionCallbacks --------------------------
(***************************************************************************)
(* What net_tcp promises an application about one session, whatever the    *)
(* threads below do: the order of the callbacks declared in                *)
(* include/lib_svr_def.h.  A session the application opened is             *)
(* "connecting" until on_establish or on_error; one it accepted is unknown *)
(* to it until on_establish.  An established session ends with exactly one *)
(* on_terminate, and its slot is not used again before that.               *)
(***************************************************************************)
CONSTANT Sessions

VARIABLE seen

Init == seen = [s \in Sessions |-> "idle"]

To(s, from, to) == seen[s] \in from /\ seen' = [seen EXCEPT ![s] = to]

Connect(s) == To(s, {"idle"}, "connecting")
OnEstablish(s) == To(s, {"idle", "connecting"}, "up")
OnConnectFail(s) == To(s, {"connecting"}, "down")
OnTerminate(s) == To(s, {"up"}, "down")
Forget(s) == To(s, {"down"}, "idle")

Next == \E s \in Sessions :
  Connect(s) \/ OnEstablish(s) \/ OnConnectFail(s) \/ OnTerminate(s) \/ Forget(s)

Spec == Init /\ [][Next]_seen
=============================================================================
