----------------------------- MODULE MCEpollTcp -----------------------------
(* Instances of EpollTcp for TLC. *)
EXTENDS EpollTcp, TLC

SocketSymmetry == Permutations(Sockets)

(***************************************************************************)
(* Behaviours in which the main thread accepts a session and then takes no *)
(* event, being in a callback or between two calls of net_tcp_run, while   *)
(* the session's steady peer sends its next byte when the io thread has    *)
(* dealt with the last one.  A subset of the behaviours of Spec, small     *)
(* enough for the real queue length.                                       *)
(***************************************************************************)
SteadyPeerSend(s) ==
  /\ kern[s].rx = 0 /\ ~kern[s].ready
  /\ \A p \in Procs : io[p].at = "idle"
  /\ PeerSend(s)

SlowMainNext ==
  \/ \E p \in Procs : Io(p) \/ MainEvtAccept(p)
  \/ \E s \in Sockets : SteadyPeerSend(s)

SlowMainSpec == Init /\ [][SlowMainNext]_vars
=============================================================================
