------------------------------- MODULE DbWork --------------------------------
(***************************************************************************)
(* The work threads of src/db_mysql.cpp.  A thread of the application has  *)
(* a db_proc of its own, with a queue of commands and a queue of results   *)
(* for each work thread; the work threads visit the db_procs in turn.  A   *)
(* connection belongs to one work thread (db_thread_idx), or to its callers*)
(* if it was made with index 0, and counts commands and acknowledgements.  *)
(***************************************************************************)
EXTENDS Integers, Sequences, FiniteSets, SequencesExt

CONSTANTS
  Apps,          \* the threads of the application
  Main,          \* the one of them that called init_db_manager
  DbNum,         \* db_thread_num
  QueueSize,     \* max_db_event_num
  ConnIdx,       \* of each connection, the db_thread_idx it was created with
  Creator,       \* of each connection, the thread that created it
  MaxCmds        \* bound: commands posted

DbAssumption ==
  /\ Main \in Apps /\ IsFiniteSet(Apps) /\ DbNum \in Nat \ {0} /\ QueueSize \in Nat \ {0, 1}
  /\ \A c \in DOMAIN ConnIdx : ConnIdx[c] \in Nat /\ Creator[c] \in Apps
  /\ MaxCmds \in Nat

VARIABLES
  is_run,        \* g_db_manager->is_run
  procs,         \* db_proc_head and its next_proc: the threads that have a db_proc, newest first
  queue,         \* of each such thread and work thread: cmd_queue, ret_queue, ret_cache_queue
  conn,          \* the connections
  work,          \* the work threads
  app,           \* the threads of the application
  cmds           \* history of the commands: who posted it, on what, what became of it

vars == <<is_run, procs, queue, conn, work, app, cmds>>

Conns == DOMAIN ConnIdx
DbThreads == 0 .. DbNum - 1

\* connection->create_proc, and connection->db_thread_idx.
Async(c) == ConnIdx[c] # 0
ThreadOf(c) == ConnIdx[c] % DbNum

\* A loop cache of max_db_event_num pointers keeps a byte free, so that it holds one pointer less.
Room == QueueSize - 1

IdleApp == [at |-> "idle", cmd |-> 0, conn |-> 0, idx |-> 0, unbusy |-> 0, then |-> "idle"]
NoQueue == [cmd |-> <<>>, ret |-> <<>>, cache |-> <<>>]

\* init_db_manager makes the calling thread's db_proc and starts the work threads; the
\* connections are made before the first command.
Init ==
  /\ is_run = TRUE
  /\ procs = <<Main>>
  /\ queue = [t \in Apps |-> [d \in DbThreads |-> NoQueue]]
  /\ conn = [c \in Conns |-> [req |-> 0, req_mt |-> 0, ack |-> 0, alive |-> TRUE]]
  /\ work = [d \in DbThreads |-> [at |-> "top", list |-> <<>>, cmd |-> 0, busy |-> FALSE, ending |-> FALSE]]
  /\ app = [t \in Apps |-> IdleApp]
  /\ cmds = <<>>

Goto(d, at) == work' = [work EXCEPT ![d].at = at]

-----------------------------------------------------------------------------
\* The threads of the application.

\* _get_db_proc: the first use by a thread makes its db_proc and links it.
Registered(t) == IF Contains(procs, t) THEN procs ELSE <<t>> \o procs

\* The application posts only on a connection it is not destroying.
MayPost(c) ==
  /\ conn[c].alive /\ \A u \in Apps : ~(app[u].at = "destroy" /\ app[u].conn = c)
  /\ Len(cmds) < MaxCmds

Posted(t, c) == [by |-> t, conn |-> c, times |-> 0, given |-> FALSE]

\* db_async_select and the like, and db_manager_post_default_cmd, db_manager_post_custom_cmd up to
\* the push.  A callback may post, too: `then' is where the thread goes on.
PostBegin(t, c) ==
  /\ app[t].at = "idle" /\ is_run /\ MayPost(c)
  /\ cmds' = Append(cmds, Posted(t, c))
  /\ app' = [app EXCEPT ![t].at = "push", ![t].cmd = Len(cmds) + 1, ![t].conn = c]
  /\ procs' = Registered(t)
  /\ UNCHANGED <<is_run, queue, conn, work>>

\* while (!loop_cache_push_data) yield.
PostPush(t) ==
  LET d == ThreadOf(app[t].conn)
  IN /\ app[t].at = "push"
     /\ Len(queue[t][d].cmd) < Room
     /\ queue' = [queue EXCEPT ![t][d].cmd = Append(@, app[t].cmd)]
     /\ app' = [app EXCEPT ![t].at = "count"]
     /\ UNCHANGED <<is_run, procs, conn, work, cmds>>

\* db_req for the thread that made the connection, db_req_mt for the others.
PostCount(t) ==
  LET c == app[t].conn
      own == Async(c) /\ Creator[c] = t
  IN /\ app[t].at = "count"
     /\ conn' = [conn EXCEPT ![c].req = IF own THEN @ + 1 ELSE @, ![c].req_mt = IF own THEN @ ELSE @ + 1]
     /\ app' = [app EXCEPT ![t] = [IdleApp EXCEPT !.at = app[t].then, !.then = app[t].then, !.idx = app[t].idx]]
     /\ UNCHANGED <<is_run, procs, queue, work, cmds>>

\* db_sync_select and the like, db_manager_do_default_cmd: on a connection without a work thread the
\* command is carried out here, on the others it is refused.  The queues have no part in it.
DoSync(t, c) ==
  /\ app[t].at = "idle" /\ is_run /\ conn[c].alive
  /\ UNCHANGED vars

\* db_manager_run.
RunBegin(t) ==
  /\ app[t].at = "idle" /\ is_run
  /\ app' = [app EXCEPT ![t].at = "run", ![t].unbusy = 0]
  /\ procs' = Registered(t)
  /\ UNCHANGED <<is_run, queue, conn, work, cmds>>

\* Where db_manager_run returns to: uninit_db_manager, or its caller.
RunEnds(t) == [app[t] EXCEPT !.at = IF is_run THEN "idle" ELSE "join", !.unbusy = 0]

\* One look at a ret_queue: OnResult and OnRelease, or nothing; `after' is the thread after it.
RunLook(t, after) ==
  LET d == app[t].idx
      ret == queue[t][d].ret
      next == (d + 1) % DbNum
      unbusy == IF ret # <<>> THEN 0 ELSE app[t].unbusy + 1
  IN /\ app[t].at = "run"
     /\ IF ret # <<>>
        THEN /\ queue' = [queue EXCEPT ![t][d].ret = Tail(ret)]
             /\ cmds' = [cmds EXCEPT ![Head(ret)].given = TRUE]
        ELSE UNCHANGED <<queue, cmds>>
     /\ app' = [app EXCEPT ![t] = [after EXCEPT !.idx = next, !.then = "idle",
                                                !.unbusy = IF after.at = "run" THEN unbusy ELSE 0]]
     /\ UNCHANGED <<is_run, procs, conn, work>>

RunStep(t) ==
  LET ends == queue[t][app[t].idx].ret = <<>> /\ app[t].unbusy + 1 >= DbNum
  IN RunLook(t, IF ends THEN RunEnds(t) ELSE app[t])

\* The time given to db_manager_run is over; uninit_db_manager gives none.
RunTimeOver(t) == is_run /\ RunLook(t, RunEnds(t))

\* A result's callback posts the next command, also when it is uninit_db_manager that runs it.
RunPost(t, c) ==
  /\ app[t].at = "run" /\ queue[t][app[t].idx].ret # <<>> /\ MayPost(c)
  /\ LET d == app[t].idx
         result == Head(queue[t][d].ret)
     IN /\ queue' = [queue EXCEPT ![t][d].ret = Tail(@)]
        /\ cmds' = Append([cmds EXCEPT ![result].given = TRUE], Posted(t, c))
        /\ app' = [app EXCEPT ![t].at = "push", ![t].cmd = Len(cmds) + 1, ![t].conn = c, ![t].then = "run",
                              ![t].idx = (d + 1) % DbNum]
  /\ UNCHANGED <<is_run, procs, conn, work>>

\* The callback posts another one before it returns: the thread is in it until its next look.
RunPostMore(t, c) ==
  /\ app[t].at = "run" /\ app[t].then = "run" /\ MayPost(c)
  /\ cmds' = Append(cmds, Posted(t, c))
  /\ app' = [app EXCEPT ![t].at = "push", ![t].cmd = Len(cmds) + 1, ![t].conn = c]
  /\ UNCHANGED <<is_run, procs, queue, conn, work>>

\* destroy_mysql_connection, which the application calls when no thread is posting on it any more.
DestroyBegin(t, c) ==
  /\ app[t].at = "idle" /\ is_run /\ Creator[c] = t /\ conn[c].alive
  /\ \A u \in Apps : ~(app[u].at \in {"push", "count"} /\ app[u].conn = c)
  /\ app' = [app EXCEPT ![t].at = "destroy", ![t].conn = c]
  /\ UNCHANGED <<is_run, procs, queue, conn, work, cmds>>

\* Mutant: db_req_mt is forgotten.
DestroyEnd_OwnOnly(t) ==
  LET c == app[t].conn
  IN /\ app[t].at = "destroy"
     /\ conn[c].req = conn[c].ack
     /\ conn' = [conn EXCEPT ![c].alive = FALSE]
     /\ app' = [app EXCEPT ![t] = [IdleApp EXCEPT !.idx = app[t].idx]]
     /\ UNCHANGED <<is_run, procs, queue, work, cmds>>

DestroyEnd(t) ==
  LET c == app[t].conn
  IN /\ app[t].at = "destroy"
     /\ conn[c].req + conn[c].req_mt = conn[c].ack
     /\ conn' = [conn EXCEPT ![c].alive = FALSE]
     /\ app' = [app EXCEPT ![t] = [IdleApp EXCEPT !.idx = app[t].idx]]
     /\ UNCHANGED <<is_run, procs, queue, work, cmds>>

\* A thread ends, and its db_proc stays.
Leave(t) ==
  /\ t # Main /\ app[t].at = "idle"
  /\ app' = [app EXCEPT ![t].at = "gone"]
  /\ UNCHANGED <<is_run, procs, queue, conn, work, cmds>>

\* uninit_db_manager, when no other thread uses the manager any more: is_run, then db_manager_run(0), ...
UninitBegin ==
  /\ app[Main].at = "idle" /\ is_run
  /\ \A t \in Apps \ {Main} : app[t].at \in {"idle", "gone"}
  /\ is_run' = FALSE
  /\ app' = [t \in Apps |-> IF t = Main THEN [app[t] EXCEPT !.at = "run", !.unbusy = 0]
                            ELSE [app[t] EXCEPT !.at = "gone"]]
  /\ UNCHANGED <<procs, queue, conn, work, cmds>>

\* ... the join of the work threads, and the db_procs with their queues are freed.
UninitEnd ==
  /\ app[Main].at = "join"
  /\ \A d \in DbThreads : work[d].at = "ended"
  /\ procs' = <<>>
  /\ queue' = [t \in Apps |-> [d \in DbThreads |-> NoQueue]]
  /\ app' = [app EXCEPT ![Main].at = "gone"]
  /\ UNCHANGED <<is_run, conn, work, cmds>>

-----------------------------------------------------------------------------
\* The work threads.

\* The loop of _db_proc_func: a pass over the db_procs there are, or the last passes.
WorkTop(d) ==
  /\ work[d].at = "top"
  /\ work' = [work EXCEPT ![d].at = "look", ![d].list = procs, ![d].busy = FALSE, ![d].ending = ~is_run]
  /\ UNCHANGED <<is_run, procs, queue, conn, app, cmds>>

\* The pass is over: is_run is looked at again, or, in _proc_db_cmd_end, another pass is
\* made if this one did anything.
WorkPassEnds(d) ==
  /\ work[d].at = "look" /\ work[d].list = <<>>
  /\ IF ~work[d].ending THEN Goto(d, "top")
     ELSE IF work[d].busy THEN work' = [work EXCEPT ![d].list = procs, ![d].busy = FALSE]
     ELSE Goto(d, "ended")
  /\ UNCHANGED <<is_run, procs, queue, conn, app, cmds>>

WorkLook(d) ==
  LET t == Head(work[d].list)
      q == queue[t][d]
  IN /\ work[d].at = "look" /\ work[d].list # <<>>
     /\ IF q.cmd # <<>>
        THEN /\ queue' = [queue EXCEPT ![t][d].cmd = Tail(@)]
             /\ work' = [work EXCEPT ![d].at = "execute", ![d].cmd = Head(q.cmd), ![d].busy = TRUE]
        ELSE UNCHANGED queue /\ Goto(d, "drain")
     /\ UNCHANGED <<is_run, procs, conn, app, cmds>>

\* OnExecute, with its acknowledgement: on a connection of its callers the command is refused.
WorkExecute(d) ==
  LET k == work[d].cmd
      c == cmds[k].conn
  IN /\ work[d].at = "execute"
     /\ cmds' = [cmds EXCEPT ![k].times = IF Async(c) THEN @ + 1 ELSE @]
     /\ conn' = [conn EXCEPT ![c].ack = @ + 1]
     /\ Goto(d, "push")
     /\ UNCHANGED <<is_run, procs, queue, app>>

\* Mutant: a result goes past those that wait for room.
WorkPush_Overtakes(d) ==
  LET t == Head(work[d].list)
      q == queue[t][d]
  IN /\ work[d].at = "push"
     /\ queue' = [queue EXCEPT ![t][d] = IF Len(q.ret) < Room THEN [q EXCEPT !.ret = Append(@, work[d].cmd)]
                                         ELSE [q EXCEPT !.cache = Append(@, work[d].cmd)]]
     /\ work' = [work EXCEPT ![d].at = "drain", ![d].cmd = 0]
     /\ UNCHANGED <<is_run, procs, conn, app, cmds>>

\* The result, behind those in ret_cache_queue.
WorkPush(d) ==
  LET t == Head(work[d].list)
      q == queue[t][d]
  IN /\ work[d].at = "push"
     /\ queue' = [queue EXCEPT ![t][d] =
          IF q.cache = <<>> /\ Len(q.ret) < Room THEN [q EXCEPT !.ret = Append(@, work[d].cmd)]
          ELSE [q EXCEPT !.cache = Append(@, work[d].cmd)]]
     /\ work' = [work EXCEPT ![d].at = "drain", ![d].cmd = 0]
     /\ UNCHANGED <<is_run, procs, conn, app, cmds>>

\* One result from ret_cache_queue to ret_queue; without room, or without results, the next db_proc.
WorkDrain(d) ==
  LET t == Head(work[d].list)
      q == queue[t][d]
  IN /\ work[d].at = "drain"
     /\ IF q.cache # <<>> /\ Len(q.ret) < Room
        THEN /\ queue' = [queue EXCEPT ![t][d] = [q EXCEPT !.ret = Append(@, Head(q.cache)), !.cache = Tail(@)]]
             /\ work' = [work EXCEPT ![d].busy = TRUE]
        ELSE /\ work' = [work EXCEPT ![d].at = "look", ![d].list = Tail(@), ![d].busy = @ \/ q.cache # <<>>]
             /\ UNCHANGED queue
     /\ UNCHANGED <<is_run, procs, conn, app, cmds>>

-----------------------------------------------------------------------------
Work(d) ==
  \/ WorkTop(d) \/ WorkPassEnds(d) \/ WorkLook(d) \/ WorkExecute(d)
  \/ WorkPush(d) \/ WorkDrain(d)

\* A call of the library goes on.
AppInside(t) ==
  PostPush(t) \/ PostCount(t) \/ RunStep(t) \/ DestroyEnd(t) \/ (t = Main /\ UninitEnd)

App(t) ==
  \/ \E c \in Conns : PostBegin(t, c) \/ DoSync(t, c) \/ RunPost(t, c) \/ RunPostMore(t, c) \/ DestroyBegin(t, c)
  \/ RunBegin(t) \/ RunTimeOver(t) \/ Leave(t) \/ (t = Main /\ UninitBegin)

Next == (\E d \in DbThreads : Work(d)) \/ (\E t \in Apps : App(t) \/ AppInside(t))

\* The work threads run; a call that can go on does; and a thread calls db_manager_run again and again.
Fairness ==
  /\ \A d \in DbThreads : WF_vars(Work(d))
  /\ \A t \in Apps : WF_vars(AppInside(t)) /\ WF_vars(RunBegin(t))

Spec == Init /\ [][Next]_vars /\ Fairness

-----------------------------------------------------------------------------
\* The results a work thread holds for a thread of the application: the command in its hands.
InHand(t, d) ==
  IF work[d].at \in {"execute", "push"} /\ Head(work[d].list) = t THEN <<work[d].cmd>> ELSE <<>>

\* The commands of a thread for a work thread whose results were not given to it.  A command is not in
\* the queue while its post is still pushing.
Unanswered(t, d) ==
  {k \in 1 .. Len(cmds) : /\ cmds[k].by = t /\ ThreadOf(cmds[k].conn) = d
                          /\ ~cmds[k].given
                          /\ ~(app[t].at = "push" /\ app[t].cmd = k)}

\* The way of the commands through the queues, the one that goes furthest first.
OnTheWay(t, d) ==
  LET q == queue[t][d] IN q.ret \o q.cache \o InHand(t, d) \o q.cmd

\* Every command is in one place on its way through the queues, in the order it was posted, also when
\* results had to wait for room (db_mysql.cpp:426-531, 778-855).
CommandsInOrder ==
  procs # <<>> =>
    \A t \in Apps, d \in DbThreads :
      LET way == OnTheWay(t, d)
      IN Range(way) = Unanswered(t, d) /\ \A i, j \in DOMAIN way : i < j => way[i] < way[j]

\* A command is carried out once, and by the work thread of its connection only; one on a connection
\* without a work thread is refused (db_mysql.cpp:186-200, 354-368).
CarriedOutOnce ==
  \A k \in 1 .. Len(cmds) :
    /\ cmds[k].times \in {0, 1}
    /\ cmds[k].given => (cmds[k].times = 1) = Async(cmds[k].conn)

\* A connection is destroyed only when no command refers to it (db_mysql.cpp:655-670).
ConnectionsOutlive ==
  \A c \in Conns : ~conn[c].alive =>
    \A t \in Apps, d \in DbThreads :
      /\ \A k \in Range(queue[t][d].cmd) : cmds[k].conn # c
      /\ work[d].at = "execute" => cmds[work[d].cmd].conn # c

CommandsSafe == CommandsInOrder /\ CarriedOutOnce /\ ConnectionsOutlive

\* uninit_db_manager joins a work thread that waits for room in a ret_queue nobody empties any more:
\* _proc_db_cmd_end goes round as long as a result is left (db_mysql.cpp:474-531, 709-720).
StuckJoin == app[Main].at = "join" /\ \E t \in Apps, d \in DbThreads : queue[t][d].cache # <<>>

\* A callback that uninit_db_manager runs posts to a work thread that has ended: once the cmd_queue is
\* full the post spins for ever; before that its command is left behind (db_mysql.cpp:709-720, 857-866).
StuckPost ==
  /\ app[Main].at = "push" /\ ~is_run
  /\ LET d == ThreadOf(app[Main].conn) IN work[d].at = "ended" /\ Len(queue[Main][d].cmd) = Room

Stuck == StuckJoin \/ StuckPost

\* Every call returns, but for StuckJoin and StuckPost; a thread that stays and polls gets every result, unless
\* the manager is closed (db_mysql.cpp:655-670, 709-914).
Waiting == (\E t \in Apps : app[t].at \in {"push", "count", "destroy"}) \/ (\E k \in 1 .. Len(cmds) : ~cmds[k].given)
AllStay == is_run /\ \A t \in Apps : app[t].at # "gone"
Closing == app[Main].at \in {"run", "push", "count", "join"} /\ ~is_run
DbGoesOn ==
  /\ (AllStay /\ Waiting) ~> (~AllStay \/ ~Waiting)
  /\ Closing ~> (~Closing \/ Stuck)
=============================================================================
