---------------------------- MODULE EpollListener ----------------------------
(***************************************************************************)
(* The listeners and the io threads of src/epoll_tcp.c: create_net_tcp     *)
(* starts a thread for each proc, net_tcp_listen or net_ssl_listen opens a *)
(* listener on one of them, accepted descriptors travel from the io thread *)
(* to the main thread and back to the io thread of some proc,              *)
(* net_tcp_close_listener waits on the main thread, and destroy_net_tcp    *)
(* stops the threads.  What a session does after its establishment is in   *)
(* EpollTcp and EpollTls; here it only ends and gives its slot back.       *)
(*                                                                         *)
(* Using a listener that has been freed is undefined: the process stops,   *)
(* or finds the old values in the memory and goes on.                      *)
(***************************************************************************)
EXTENDS Integers, Sequences, FiniteSets, SequencesExt

CONSTANTS
  LsnProcs,   \* net_proc_num
  LsnSlots,   \* max_socket_num
  LsnConns    \* bound: connections that arrive

Procs == 1 .. LsnProcs
Conns == 1 .. LsnConns

VARIABLES
  lst,    \* the epoll_tcp_listener
  conns,  \* where each connection is on its way
  slots,  \* free slots of socket_pool
  evts,   \* list_net_evt of each proc
  reqs,   \* list_net_req of each proc
  proc,   \* each proc: tcp_proc_array, is_running, and its thread
  main,   \* where the main thread is
  hist    \* history: which connections were accepted late, and what used a freed listener

vars == <<lst, conns, slots, evts, reqs, proc, main, hist>>

NoConn == 0
Msg(t, c) == [type |-> t, conn |-> c]
At(a, p) == [at |-> a, p |-> p]

\* malloc leaves is_running as it finds it.
Init ==
  /\ \E tls \in BOOLEAN :
       lst = [state |-> "absent", tls |-> tls, proc |-> 1, interest |-> FALSE, push |-> 0, pop |-> 0]
  /\ conns = [c \in Conns |-> "absent"]
  /\ slots = LsnSlots
  /\ evts = [p \in Procs |-> <<>>]
  /\ reqs = [p \in Procs |-> <<>>]
  /\ \E garbage \in BOOLEAN :
       proc = [p \in Procs |-> [made |-> FALSE, running |-> garbage, thread |-> "none"]]
  /\ main = At("init", 1)
  /\ hist = [late |-> {}, uses |-> {}]

-----------------------------------------------------------------------------
(* create_net_tcp and destroy_net_tcp *)

MainOnly == UNCHANGED <<lst, conns, slots, evts, reqs, hist>>

\* Where creation goes after proc p: on, or to the check of tcp_proc_array.
Made(p, made) ==
  IF p < LsnProcs THEN At("init", p + 1)
  ELSE IF made /\ \A q \in Procs \ {p} : proc[q].made THEN At("idle", 0) ELSE At("destroy", 1)

\* _init_epoll_tcp_proc: pthread_create comes first, and may fail.
MainInitProc ==
  /\ main.at = "init"
  /\ LET p == main.p IN
     \/ /\ proc' = [proc EXCEPT ![p].thread = "check"]
        /\ main' = At("init_set", p)
     \/ /\ proc' = [proc EXCEPT ![p].running = FALSE]
        /\ main' = Made(p, FALSE)
  /\ MainOnly

\* Then is_running is set; something else that could not be had stops the thread again.
MainInitSet ==
  /\ main.at = "init_set"
  /\ LET p == main.p IN
     \/ /\ proc' = [proc EXCEPT ![p].running = TRUE, ![p].made = TRUE]
        /\ main' = Made(p, TRUE)
     \/ /\ proc' = [proc EXCEPT ![p].running = TRUE]
        /\ main' = At("init_stop", p)
  /\ MainOnly

MainInitStop ==
  /\ main.at = "init_stop"
  /\ proc' = [proc EXCEPT ![main.p].running = FALSE]
  /\ main' = At("init_join", main.p)
  /\ MainOnly

MainInitJoin ==
  /\ main.at = "init_join" /\ proc[main.p].thread = "exit"
  /\ main' = Made(main.p, FALSE)
  /\ UNCHANGED proc /\ MainOnly

NextProc(p) == IF p < LsnProcs THEN At("destroy", p + 1) ELSE At("gone", 0)

\* _uninit_epoll_tcp_proc: first the flag.
MainDestroy ==
  /\ main.at = "destroy"
  /\ LET p == main.p IN
     IF proc[p].made
     THEN proc' = [proc EXCEPT ![p].running = FALSE] /\ main' = At("join", p)
     ELSE main' = NextProc(p) /\ UNCHANGED proc
  /\ MainOnly

\* Then pthread_join, and the proc and its queues are freed.
MainJoin ==
  /\ main.at = "join" /\ proc[main.p].thread = "exit"
  /\ proc' = [proc EXCEPT ![main.p].made = FALSE]
  /\ main' = NextProc(main.p)
  /\ MainOnly

AppDestroy ==
  /\ main.at = "idle"
  /\ main' = At("destroy", 1)
  /\ UNCHANGED proc /\ MainOnly

-----------------------------------------------------------------------------
(* The listener, on the main thread *)

\* A use of the listener's fields; of a freed one it is undefined.
Use(what, c) ==
  hist' = IF lst.state = "freed" THEN [hist EXCEPT !.uses = @ \cup {<<what, c>>}] ELSE hist

\* _epoll_tcp_listener_listen on the idlest proc, whose statistics any thread may be changing.
\* It joins epoll before listen(), so a failure after that takes it out again.
AppListen ==
  /\ main.at = "idle" /\ lst.state = "absent"
  /\ \/ \E p \in Procs : lst' = [lst EXCEPT !.state = "LISTEN", !.proc = p, !.interest = TRUE]
     \/ lst' = [lst EXCEPT !.state = "failed"]
  /\ UNCHANGED <<conns, slots, evts, reqs, proc, main, hist>>

\* net_tcp_close_listener: _epoll_tcp_listener_close asks the io thread.
AppCloseListener ==
  /\ main.at = "idle" /\ lst.state = "LISTEN"
  /\ lst' = [lst EXCEPT !.state = "CLOSE"]
  /\ reqs' = [reqs EXCEPT ![lst.proc] = Append(@, Msg("CLOSE_LISTENER", NoConn))]
  /\ main' = At("wait_pop", 0)
  /\ UNCHANGED <<conns, slots, evts, proc, hist>>

\* Mutant: the second wait only.
MainWaitPop_Skips ==
  /\ main.at = "wait_pop"
  /\ main' = At("wait_delete", 0)
  /\ UNCHANGED <<lst, conns, slots, evts, reqs, proc, hist>>

\* The first wait: accept_pop is advanced by this very thread, and so not now.
MainWaitPop ==
  /\ main.at = "wait_pop" /\ lst.pop = lst.push
  /\ main' = At("wait_delete", 0)
  /\ UNCHANGED <<lst, conns, slots, evts, reqs, proc, hist>>

\* The second wait, and free.
MainWaitDelete ==
  /\ main.at = "wait_delete" /\ lst.state = "DELETE"
  /\ lst' = [lst EXCEPT !.state = "freed"]
  /\ main' = At("idle", 0)
  /\ UNCHANGED <<conns, slots, evts, reqs, proc, hist>>

-----------------------------------------------------------------------------
(* _do_net_evt, for proc p *)

Took(p, type) ==
  /\ main.at = "idle" /\ evts[p] # <<>> /\ Head(evts[p]).type = type
  /\ evts' = [evts EXCEPT ![p] = Tail(@)]

Of(p) == Head(evts[p]).conn

\* NET_EVENT_ACCEPT: a slot and a proc for the connection, or its refusal; then accept_pop.
EvtAccept(p) ==
  /\ Took(p, "ACCEPT")
  /\ Use("accept", Of(p))
  /\ lst' = [lst EXCEPT !.pop = @ + 1]
  /\ IF slots > 0
     THEN /\ slots' = slots - 1
          /\ conns' = [conns EXCEPT ![Of(p)] = "asked"]
          /\ \E q \in Procs : reqs' = [reqs EXCEPT ![q] = Append(@, Msg("ACCEPT", Of(p)))]
     ELSE /\ conns' = [conns EXCEPT ![Of(p)] = "refused"]
          /\ reqs' = [reqs EXCEPT ![lst.proc] = Append(@, Msg("ACCEPT_FAIL", Of(p)))]
          /\ UNCHANGED slots
  /\ main' \in {main} \cup (IF lst.state = "freed" THEN {At("crashed", 0)} ELSE {})
  /\ UNCHANGED proc

\* NET_EVENT_ESTABLISH and NET_EVENT_SSL_ESTABLISH: on_establish is given the listener, by
\* the first without TLS and by the second with it.
EvtEstablish(p) ==
  /\ \/ Took(p, "ESTABLISH") /\ conns' = [conns EXCEPT ![Of(p)] = IF lst.tls THEN "shaking" ELSE "up"]
     \/ Took(p, "SSL_ESTABLISH") /\ conns' = [conns EXCEPT ![Of(p)] = "up"]
  /\ IF lst.tls /\ Head(evts[p]).type = "ESTABLISH" THEN UNCHANGED hist ELSE Use("establish", Of(p))
  /\ main' \in {main} \cup (IF hist' # hist THEN {At("crashed", 0)} ELSE {})
  /\ UNCHANGED <<lst, slots, reqs, proc>>

\* NET_EVENT_ACCEPT_FAIL, and the timers that give the slot back.
EvtAcceptFail(p) ==
  /\ Took(p, "ACCEPT_FAIL")
  /\ conns' = [conns EXCEPT ![Of(p)] = "closed"]
  /\ slots' = slots + 1
  /\ UNCHANGED <<lst, reqs, proc, main, hist>>

\* The rest of a session's life, until its slot is free.
SessionEnds(c) ==
  /\ main.at = "idle" /\ conns[c] = "up"
  /\ conns' = [conns EXCEPT ![c] = "closed"]
  /\ slots' = slots + 1
  /\ UNCHANGED <<lst, evts, reqs, proc, main, hist>>

-----------------------------------------------------------------------------
(* _epoll_tcp_net_proc_func on proc p *)

Thread(p, at) == proc[p].thread = at /\ main.at # "crashed"
Goes(p, at) == proc' = [proc EXCEPT ![p].thread = at]

\* while (proc->is_running): a thread that is quick reads what malloc left there.
IoCheck(p) ==
  /\ Thread(p, "check")
  /\ Goes(p, IF proc[p].running THEN "reqs" ELSE "exit")
  /\ UNCHANGED <<lst, conns, slots, evts, reqs, main, hist>>

TookReq(p, type) ==
  /\ Thread(p, "reqs") /\ reqs[p] # <<>> /\ Head(reqs[p]).type = type
  /\ reqs' = [reqs EXCEPT ![p] = Tail(@)]

Wanted(p) == Head(reqs[p]).conn
Pushes(p, type, c) == evts' = [evts EXCEPT ![p] = Append(@, Msg(type, c))]

\* NET_REQUEST_ACCEPT: with TLS the listener gives its SSL_CTX; without, only its address is passed on.
ReqAccept(p) ==
  /\ TookReq(p, "ACCEPT")
  /\ \/ Pushes(p, "ESTABLISH", Wanted(p)) /\ conns' = [conns EXCEPT ![Wanted(p)] = "established"]
     \/ Pushes(p, "ACCEPT_FAIL", Wanted(p)) /\ conns' = [conns EXCEPT ![Wanted(p)] = "failed"]
  /\ IF lst.tls THEN Use("context", Wanted(p)) ELSE UNCHANGED hist
  /\ main' \in {main} \cup (IF hist' # hist THEN {At("crashed", 0)} ELSE {})
  /\ UNCHANGED <<lst, slots, proc>>

\* NET_REQUEST_ACCEPT_FAIL: the descriptor is closed.
ReqAcceptFail(p) ==
  /\ TookReq(p, "ACCEPT_FAIL")
  /\ conns' = [conns EXCEPT ![Wanted(p)] = "closed"]
  /\ UNCHANGED <<lst, slots, evts, proc, main, hist>>

\* _epoll_tcp_listener_on_close: connections in the backlog are reset by the kernel.
ReqCloseListener(p) ==
  /\ TookReq(p, "CLOSE_LISTENER")
  /\ lst' = [lst EXCEPT !.interest = FALSE, !.state = "DELETE"]
  /\ conns' = [c \in Conns |-> IF conns[c] = "backlog" THEN "closed" ELSE conns[c]]
  /\ UNCHANGED <<slots, evts, proc, main, hist>>

\* _do_net_req returns when the list is empty.
ReqsDone(p) ==
  /\ Thread(p, "reqs") /\ reqs[p] = <<>>
  /\ Goes(p, "epoll")
  /\ UNCHANGED <<lst, conns, slots, evts, reqs, main, hist>>

\* _epoll_tcp_listener_on_accept, once for a report of epoll.
OnAccept(p) ==
  /\ Thread(p, "epoll") /\ lst.proc = p /\ lst.interest
  /\ \E c \in Conns :
       /\ conns[c] = "backlog"
       /\ conns' = [conns EXCEPT ![c] = "accepted"]
       /\ Pushes(p, "ACCEPT", c)
       /\ hist' = [hist EXCEPT !.late = IF main.at = "wait_delete" THEN @ \cup {c} ELSE @,
                               !.uses = IF lst.state = "freed" THEN @ \cup {<<"epoll", c>>} ELSE @]
  /\ lst' = [lst EXCEPT !.push = @ + 1]
  /\ Goes(p, "check")
  /\ UNCHANGED <<slots, reqs, main>>

\* The end of the handshake of an accepted TLS session (EpollTls), with sock_ptr->listener.
Handshakes(p) ==
  /\ Thread(p, "epoll")
  /\ \E c \in Conns :
       /\ conns[c] = "shaking"
       /\ conns' = [conns EXCEPT ![c] = "shaken"]
       /\ Pushes(p, "SSL_ESTABLISH", c)
  /\ Goes(p, "check")
  /\ UNCHANGED <<lst, slots, reqs, main, hist>>

\* epoll_wait times out.
EpollQuiet(p) ==
  /\ Thread(p, "epoll")
  /\ ~(lst.proc = p /\ lst.interest /\ \E c \in Conns : conns[c] = "backlog")
  /\ Goes(p, "check")
  /\ UNCHANGED <<lst, conns, slots, evts, reqs, main, hist>>

\* The kernel completes a connection to the listening descriptor.
Arrives(c) ==
  /\ conns[c] = "absent" /\ lst.interest /\ main.at # "crashed"
  /\ \A d \in Conns : d < c => conns[d] # "absent"
  /\ conns' = [conns EXCEPT ![c] = "backlog"]
  /\ UNCHANGED <<lst, slots, evts, reqs, proc, main, hist>>

-----------------------------------------------------------------------------
MainCreates == MainInitProc \/ MainInitSet \/ MainInitStop \/ MainInitJoin
MainDestroys == MainDestroy \/ MainJoin
MainWaits == MainWaitPop \/ MainWaitDelete
MainInside == MainCreates \/ MainDestroys \/ MainWaits
MainEvt(p) == EvtAccept(p) \/ EvtEstablish(p) \/ EvtAcceptFail(p)
Io(p) ==
  \/ IoCheck(p) \/ ReqAccept(p) \/ ReqAcceptFail(p) \/ ReqCloseListener(p) \/ ReqsDone(p)
  \/ OnAccept(p) \/ Handshakes(p) \/ EpollQuiet(p)

Next ==
  \/ MainInside
  \/ AppListen \/ AppCloseListener \/ AppDestroy
  \/ \E p \in Procs : MainEvt(p) \/ Io(p)
  \/ \E c \in Conns : SessionEnds(c) \/ Arrives(c)

Spec == Init /\ [][Next]_vars

\* The io threads run, and so does the main thread inside a call of the library.
Fairness ==
  /\ WF_vars(MainInside)
  /\ \A p \in Procs : WF_vars(Io(p))

-----------------------------------------------------------------------------
(* Properties *)

Queued(type) ==
  {<<p, i>> \in Procs \X (1 .. LsnConns + 1) : i <= Len(evts[p]) /\ evts[p][i].type = type}

\* accept_push counts what accept_pop will: the difference is the ACCEPT events on their way.
AcceptCounted == lst.push - lst.pop = Cardinality(Queued("ACCEPT"))

\* An accepted descriptor is in one place: an event, a request, or an established session.
ConnectionHasOnePlace ==
  \A c \in Conns :
    Cardinality({<<p, i>> \in Procs \X (1 .. LsnConns + 1) : i <= Len(evts[p]) /\ evts[p][i].conn = c})
    + Cardinality({<<p, i>> \in Procs \X (1 .. LsnConns + 1) : i <= Len(reqs[p]) /\ reqs[p][i].conn = c})
    = IF conns[c] \in {"accepted", "asked", "refused", "established", "failed", "shaken"} THEN 1 ELSE 0

\* Every slot is free or held by one connection.
SlotsAccounted ==
  slots + Cardinality({c \in Conns : conns[c] \in
            {"asked", "established", "failed", "shaking", "shaken", "up"}}) = LsnSlots

\* What a freed listener is still used for: accepting nothing more, taking only connections that
\* were accepted between the two waits, and the establishment of those already taken.  Their
\* on_establish is handed a freed listener, and with TLS its SSL_CTX is read from it.
FreedListenerIsLetGo ==
  lst.state = "freed" =>
    /\ ~lst.interest
    /\ \A u \in hist.uses : u[1] # "epoll" /\ (u[1] = "accept" => u[2] \in hist.late)

\* The procs are freed after their threads have ended.
ThreadsJoined == main.at = "gone" => \A p \in Procs : proc[p].thread \in {"none", "exit"}

ListenerSafe ==
  AcceptCounted /\ ConnectionHasOnePlace /\ SlotsAccounted /\ FreedListenerIsLetGo /\ ThreadsJoined

\* A thread that read is_running before create_net_tcp had set it, and ended.
Stillborn(p) == proc[p].made /\ proc[p].running /\ proc[p].thread = "exit"

\* Creating and destroying return (if no use of a freed listener stops the process), and so
\* does net_tcp_close_listener, unless its io thread has ended early, or an accepted connection
\* waits in an event: only the thread that is waiting could take it, and it waits for ever.
Calling == main.at \in {"init", "init_set", "init_stop", "init_join", "destroy", "join", "wait_pop", "wait_delete"}
Closing == main.at \in {"wait_pop", "wait_delete"}
WaitsForEver == Closing /\ (Stillborn(lst.proc) \/ (main.at = "wait_pop" /\ Queued("ACCEPT") # {}))

CallsReturn == Calling ~> (~Calling \/ WaitsForEver)
=============================================================================
