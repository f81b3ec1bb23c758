------------------------------- MODULE Logger -------------------------------
(***************************************************************************)
(* src/logger.cpp: application threads put commands into queues, one per   *)
(* thread; the log thread takes them out, writes the file, and hands the   *)
(* commands back through a second queue; what is written is also put into  *)
(* a cache the print thread empties.                                       *)
(*                                                                         *)
(* One log thread and the one logger it serves: log threads share nothing  *)
(* but the list of threads.  The queues are loop caches, whose pushes and  *)
(* pops are atomic between one writer and one reader (LoopCache).  Which   *)
(* file a record goes to is the subject of LogFiles; here opening it may   *)
(* fail.                                                                   *)
(*                                                                         *)
(* The application keeps its side: it destroys the logger once, and stops  *)
(* the manager, when no call is under way, and calls nothing after that.   *)
(***************************************************************************)
EXTENDS Integers, Sequences, FiniteSets, SequencesExt

CONSTANTS
  Threads,     \* application threads
  Main,        \* the one that creates and destroys the logger and the manager
  QueueSize,   \* max_log_event_num; a loop cache holds one command less
  PrintSize,   \* print_cache_size, in headers and pieces of text
  Scripts      \* bound: what each thread calls, in turn, of "write", "flush" and "reset"

ASSUME LoggerAssumption ==
  /\ Main \in Threads
  /\ QueueSize \in Nat /\ PrintSize \in Nat
  /\ Scripts \subseteq [Threads -> Seq({"write", "flush", "reset"})]

VARIABLES
  cmds,        \* the commands in memory, and what each says
  pc, hand, call,        \* each thread: where it is, the command it holds, the call it makes
  calls,       \* the calls each thread has still to make
  head,        \* log_proc_head: the threads that have a log_proc, the latest first
  isRun,       \* log_proc.is_run
  cmdq, rcyq, cache,     \* cmd_queue, rcy_queue, rcy_cache_queue
  logger,      \* "open": file open, "shut": no file, "freed"
  req, reqMt, ack,       \* log_req, log_req_mt, log_ack
  managerRuns, logRuns,  \* logger_manager.is_run, log_thread.m_is_run
  lpc, last, todo, busy, lhand,   \* the log thread, `last' when in _proc_log_end
  prints,      \* m_print_data_cache
  ppc, due,    \* the print thread, and the pieces it still owes
  owed,        \* history: the calls of each thread accepted and not carried out yet
  wrong,       \* history: "order" or "text" if something came out of order, "stray" if a thread
               \* wrote into its log_proc after that was freed
  crushed      \* CRUSH_CODE, or memory used that is not there

appVars == <<pc, hand, call, calls>>
queueVars == <<cmdq, rcyq, cache>>
countVars == <<req, reqMt, ack>>
logVars == <<lpc, last, todo, busy, lhand>>
printVars == <<prints, ppc, due>>
vars == <<cmds, appVars, head, isRun, queueVars, logger, countVars, managerRuns, logRuns,
          logVars, printVars, owed, wrong, crushed>>

None == 0
Capacity == QueueSize - 1
NoCall == [option |-> "none", block |-> FALSE, shown |-> FALSE, from |-> Main, n |-> 0]

\* The memory a new command gets, which may be that of one deleted.
NewCmd == CHOOSE c \in 1 .. Cardinality(DOMAIN cmds) + 1 : c \notin DOMAIN cmds

\* S_DELETE of a command, with its arguments: it must be there.
Delete(c) == cmds' = [d \in DOMAIN cmds \ {c} |-> cmds[d]]

Init ==
  /\ cmds = <<>>
  /\ pc = [t \in Threads |-> "idle"] /\ hand = [t \in Threads |-> None]
  /\ call = [t \in Threads |-> NoCall] /\ calls \in Scripts
  /\ head = <<Main>> /\ isRun = [t \in Threads |-> TRUE]
  /\ cmdq = [t \in Threads |-> <<>>] /\ rcyq = [t \in Threads |-> <<>>] /\ cache = [t \in Threads |-> <<>>]
  /\ logger = "shut" /\ req = 0 /\ reqMt = 0 /\ ack = 0
  \* the constructor of log_thread leaves m_is_run unset
  /\ managerRuns = TRUE /\ logRuns \in BOOLEAN
  /\ lpc = "start" /\ last = FALSE /\ todo = <<>> /\ busy = FALSE /\ lhand = None
  /\ prints = <<>> /\ ppc = "run" /\ due = 0
  /\ owed = [t \in Threads |-> <<>>] /\ wrong = {}
  /\ crushed = FALSE

-----------------------------------------------------------------------------
(* The application's threads *)

Others(t) == Threads \ {t}
Closing == \E t \in Threads : call[t].option = "close"
MayCall(t) == pc[t] = "idle" /\ isRun[t] /\ managerRuns /\ ~Closing

\* CThreadLogProc: a thread's first call puts its log_proc at the head of the list.
Registered(t) == IF Contains(head, t) THEN head ELSE <<t>> \o head

Calls(t, c) ==
  /\ call' = [call EXCEPT ![t] = [c EXCEPT !.from = t, !.n = Len(calls[t])]]
  /\ pc' = [pc EXCEPT ![t] = "get"]
  /\ head' = Registered(t)
  /\ UNCHANGED <<cmds, hand, isRun, queueVars, logger, countVars, managerRuns, logRuns, logVars,
                 printVars, owed, wrong, crushed>>

\* file_logger_async_log, reset_file_logger and file_logger_flush: only the first may block.  Records
\* of the level log_nul, which are not printed, are those that do not block, to save states.
Begin(t) ==
  /\ MayCall(t) /\ calls[t] # <<>>
  /\ LET option == Head(calls[t]) IN
       \E block \in BOOLEAN :
         /\ block => option = "write"
         /\ Calls(t, [NoCall EXCEPT !.option = option, !.block = block, !.shown = block])
  /\ calls' = [calls EXCEPT ![t] = Tail(@)]

\* destroy_file_logger, by the thread that owns the logger, when no other is inside a call.
BeginDestroy ==
  /\ MayCall(Main) /\ \A t \in Others(Main) : pc[t] = "idle"
  /\ Calls(Main, [NoCall EXCEPT !.option = "close", !.block = TRUE])
  /\ UNCHANGED calls

\* _get_log_cmd, one recycled command at a time: the last one is kept.
GetRecycled(t) ==
  /\ pc[t] = "get" /\ rcyq[t] # <<>>
  /\ IF hand[t] # None THEN Delete(hand[t]) ELSE UNCHANGED cmds
  /\ hand' = [hand EXCEPT ![t] = rcyq[t][1]]
  /\ rcyq' = [rcyq EXCEPT ![t] = Tail(@)]
  /\ UNCHANGED <<pc, call, calls, head, isRun, cmdq, cache, logger, countVars, managerRuns,
                 logRuns, logVars, printVars, owed, wrong, crushed>>

\* ... or a new one is allocated; then the call fills it in.
GotCommand(t) ==
  /\ pc[t] = "get" /\ rcyq[t] = <<>>
  /\ LET c == IF hand[t] = None THEN NewCmd ELSE hand[t] IN
       /\ hand' = [hand EXCEPT ![t] = c]
       /\ cmds' = [d \in DOMAIN cmds \cup {c} |-> IF d = c THEN call[t] ELSE cmds[d]]
       \* a command freed already is used again
       /\ crushed' = (hand[t] # None /\ hand[t] \notin DOMAIN cmds)
  /\ pc' = [pc EXCEPT ![t] = IF call[t].option = "close" THEN "wait" ELSE "push"]
  /\ UNCHANGED <<call, calls, head, isRun, queueVars, logger, countVars, managerRuns, logRuns, logVars,
                 printVars, owed, wrong>>

\* destroy_file_logger sleeps until everything asked for is done.
WaitForAcks(t) ==
  /\ pc[t] = "wait" /\ req + reqMt = ack /\ pc' = [pc EXCEPT ![t] = "push"]
  /\ UNCHANGED <<cmds, hand, call, calls, head, isRun, queueVars, logger, countVars, managerRuns,
                 logRuns, logVars, printVars, owed, wrong, crushed>>

Room(t) == Len(cmdq[t]) < Capacity

\* The command is queued; a close is not counted.
Push(t) ==
  /\ pc[t] = "push" /\ Room(t)
  /\ cmdq' = [cmdq EXCEPT ![t] = Append(@, hand[t])]
  /\ hand' = [hand EXCEPT ![t] = None]
  /\ owed' = [owed EXCEPT ![t] = Append(@, call[t].n)]
  /\ pc' = [pc EXCEPT ![t] = IF call[t].option = "close" THEN "idle" ELSE "count"]
  /\ UNCHANGED <<cmds, call, calls, head, isRun, rcyq, cache, logger, countVars, managerRuns,
                 logRuns, logVars, printVars, wrong, crushed>>

\* Mutant: a thread that is not the logger's counts as if it were the logger's.
Count_Twice(t) ==
  /\ pc[t] = "count" /\ pc' = [pc EXCEPT ![t] = "idle"] /\ call' = [call EXCEPT ![t] = NoCall]
  /\ req' = req + 1 /\ reqMt' = IF t = Main THEN reqMt ELSE reqMt + 1
  /\ UNCHANGED <<cmds, hand, calls, head, isRun, queueVars, logger, ack, managerRuns, logRuns,
                 logVars, printVars, owed, wrong, crushed>>

\* log_req++ by the thread that created the logger, log_req_mt atomically by the others.
Count(t) ==
  /\ pc[t] = "count" /\ pc' = [pc EXCEPT ![t] = "idle"] /\ call' = [call EXCEPT ![t] = NoCall]
  /\ IF t = Main THEN req' = req + 1 /\ UNCHANGED reqMt ELSE reqMt' = reqMt + 1 /\ UNCHANGED req
  /\ UNCHANGED <<cmds, hand, calls, head, isRun, queueVars, logger, ack, managerRuns, logRuns,
                 logVars, printVars, owed, wrong, crushed>>

\* The queue is full and the call does not block: the command is deleted.
Refused(t) ==
  /\ pc[t] = "push" /\ ~Room(t) /\ ~call[t].block
  /\ Delete(hand[t])
  /\ hand' = [hand EXCEPT ![t] = None] /\ pc' = [pc EXCEPT ![t] = "idle"] /\ call' = [call EXCEPT ![t] = NoCall]
  /\ UNCHANGED <<calls, head, isRun, queueVars, logger, countVars, managerRuns, logRuns,
                 logVars, printVars, owed, wrong, crushed>>

\* _free_log_cmd, while a call that blocks finds the queue full.
FreeRecycled(t) ==
  /\ pc[t] = "push" /\ ~Room(t) /\ call[t].block /\ rcyq[t] # <<>>
  /\ Delete(rcyq[t][1]) /\ rcyq' = [rcyq EXCEPT ![t] = Tail(@)]
  /\ UNCHANGED <<appVars, head, isRun, cmdq, cache, logger, countVars, managerRuns, logRuns,
                 logVars, printVars, owed, wrong, crushed>>

\* ~CThreadLogProc: a thread ends, at the latest when its log_proc is freed.
ThreadEnds(t) ==
  /\ t # Main /\ pc[t] = "idle" /\ isRun[t] /\ Contains(head, t)
  /\ isRun' = [isRun EXCEPT ![t] = FALSE]
  /\ UNCHANGED <<cmds, appVars, head, queueVars, logger, countVars, managerRuns, logRuns, logVars,
                 printVars, owed, wrong, crushed>>

\* uninit_logger_manager begins.
StopManager ==
  /\ managerRuns /\ Closing /\ \A t \in Threads : pc[t] = "idle"
  /\ managerRuns' = FALSE
  /\ UNCHANGED <<cmds, appVars, head, isRun, queueVars, logger, countVars, logRuns, logVars,
                 printVars, owed, wrong, crushed>>

\* The threads that may still end while their log_procs are freed.
Strays == {t \in Threads \ {Main} : isRun[t] /\ Contains(head, t)}

\* It has joined both threads and frees what is left in the queues of every thread.  A thread that
\* ends between free(cur_proc) and g_logger_manager = 0 writes is_run of a log_proc that is gone.
FreeManager ==
  /\ ~managerRuns /\ lpc = "done" /\ ppc = "done" /\ head # <<>>
  /\ LET left == UNION {Range(cmdq[t]) \cup Range(rcyq[t]) \cup Range(cache[t]) : t \in Range(head)} IN
       cmds' = [d \in DOMAIN cmds \ left |-> cmds[d]]
  /\ head' = <<>>
  /\ cmdq' = [t \in Threads |-> <<>>] /\ rcyq' = cmdq' /\ cache' = cmdq'
  /\ \E late \in SUBSET Strays :
       /\ isRun' = [t \in Threads |-> isRun[t] /\ t \notin late]
       /\ wrong' = IF late = {} THEN wrong ELSE wrong \cup {"stray"}
  /\ UNCHANGED <<appVars, logger, countVars, managerRuns, logRuns, logVars, printVars, owed, crushed>>

-----------------------------------------------------------------------------
(* The log thread *)

LogStart ==
  /\ lpc = "start" /\ logRuns' = TRUE /\ lpc' = "pass"
  /\ UNCHANGED <<cmds, appVars, head, isRun, queueVars, logger, countVars, managerRuns, todo, busy,
                 lhand, printVars, owed, wrong, crushed, last>>

\* Mutant: the log thread ends with the manager.
PassBegins_NoLastPass ==
  /\ lpc = "pass"
  /\ lpc' = (IF managerRuns THEN "visit" ELSE "done")
  /\ todo' = head /\ busy' = FALSE /\ last' = FALSE /\ logRuns' = managerRuns
  /\ UNCHANGED <<cmds, appVars, head, isRun, queueVars, logger, countVars, managerRuns, lhand, printVars,
                 owed, wrong, crushed>>

\* _log_func and _proc_log_end: a pass over the list begins while the manager runs, once more
\* after that, and again as long as a pass has found something to do.
PassBegins ==
  /\ lpc = "pass"
  /\ lpc' = "visit" /\ last' = ~managerRuns
  /\ todo' = head /\ busy' = FALSE
  /\ UNCHANGED <<cmds, appVars, head, isRun, queueVars, logger, countVars, managerRuns, logRuns,
                 lhand, printVars, owed, wrong, crushed>>

PassEnds ==
  /\ lpc = "visit" /\ todo = <<>>
  /\ IF ~last THEN lpc' = "pass" /\ UNCHANGED <<todo, busy, logRuns>>
     ELSE IF busy THEN todo' = head /\ busy' = FALSE /\ UNCHANGED <<lpc, logRuns>>
     ELSE lpc' = "done" /\ logRuns' = FALSE /\ UNCHANGED <<todo, busy>>
  /\ UNCHANGED <<cmds, appVars, head, isRun, queueVars, logger, countVars, managerRuns, lhand,
                 printVars, owed, wrong, crushed, last>>

Now == todo[1]

\* loop_cache_pop_data finds a command.
Pop ==
  /\ lpc = "visit" /\ todo # <<>> /\ cmdq[Now] # <<>>
  /\ lhand' = cmdq[Now][1] /\ cmdq' = [cmdq EXCEPT ![Now] = Tail(@)]
  /\ busy' = TRUE /\ lpc' = "do"
  /\ UNCHANGED <<cmds, appVars, head, isRun, rcyq, cache, logger, countVars, managerRuns, logRuns,
                 todo, printVars, owed, wrong, crushed, last>>

\* It finds none.  The pop and the look at is_run are two steps.
FindsNothing ==
  /\ lpc = "visit" /\ todo # <<>> /\ cmdq[Now] = <<>>
  /\ lpc' = "look"
  /\ UNCHANGED <<cmds, appVars, head, isRun, queueVars, logger, countVars, managerRuns, logRuns,
                 todo, busy, lhand, printVars, owed, wrong, crushed, last>>

\* _proc_log hands commands back next; _proc_log_end does not.
VisitGoesOn ==
  IF last THEN lpc' = "visit" /\ todo' = Tail(todo) ELSE lpc' = "hand_back" /\ UNCHANGED todo

\* Mutant: the commands that wait for room are handed back even so.
LooksAtThread_KeepsCache ==
  /\ lpc = "look"
  /\ IF isRun[Now] THEN UNCHANGED <<cmds, queueVars>>
     ELSE /\ cmds' = [d \in DOMAIN cmds \ (Range(cache[Now]) \cup Range(rcyq[Now])) |-> cmds[d]]
          /\ rcyq' = [rcyq EXCEPT ![Now] = <<>>] /\ UNCHANGED <<cmdq, cache>>
  /\ VisitGoesOn
  /\ UNCHANGED <<appVars, head, isRun, logger, countVars, managerRuns, logRuns, busy, lhand,
                 printVars, owed, wrong, crushed, last>>

\* The recycled commands of a thread that has ended are deleted here.
LooksAtThread ==
  /\ lpc = "look"
  /\ IF isRun[Now] THEN UNCHANGED <<cmds, queueVars>>
     ELSE /\ cmds' = [d \in DOMAIN cmds \ (Range(cache[Now]) \cup Range(rcyq[Now])) |-> cmds[d]]
          /\ rcyq' = [rcyq EXCEPT ![Now] = <<>>] /\ cache' = [cache EXCEPT ![Now] = <<>>]
          /\ UNCHANGED cmdq
  /\ VisitGoesOn
  /\ UNCHANGED <<appVars, head, isRun, logger, countVars, managerRuns, logRuns, busy, lhand,
                 printVars, owed, wrong, crushed, last>>

\* The pieces _do_cmd puts into the print cache: a header and, for a record, its prefix and text.
Record == <<2, 0, 0>>
ErrorText == <<1, 0>>
PrintFree == PrintSize - 1 - Len(prints)

Cmd == cmds[lhand]

CarriedOut(c) ==
  LET t == c.from IN
  IF owed[t] # <<>> /\ owed[t][1] = c.n
  THEN owed' = [owed EXCEPT ![t] = Tail(@)] /\ UNCHANGED wrong
  ELSE wrong' = wrong \cup {"order"} /\ UNCHANGED owed

\* _check_log or _reset_log finds the file open or opens it, and a record is written.
Written == logger' = "open" /\ UNCHANGED prints

\* It cannot be opened: the first time, at a new day or when the last one is full.  The record is
\* lost, the console is told when there is room, and the next command tries the file again.
Lost ==
  /\ logger' = "shut"
  /\ prints' = IF PrintFree >= Len(ErrorText) THEN prints \o ErrorText ELSE prints

WriteOrReset ==
  /\ lpc = "do" /\ lhand \in DOMAIN cmds /\ Cmd.option \in {"write", "reset"} /\ logger # "freed"
  /\ Written \/ Lost
  /\ CarriedOut(Cmd)
  /\ lpc' = "ack"
  /\ UNCHANGED <<cmds, appVars, head, isRun, queueVars, countVars, managerRuns, logRuns, todo, busy,
                 lhand, ppc, due, crushed, last>>

Flush ==
  /\ lpc = "do" /\ lhand \in DOMAIN cmds /\ Cmd.option = "flush" /\ logger # "freed"
  /\ CarriedOut(Cmd)
  /\ lpc' = "ack"
  /\ UNCHANGED <<cmds, appVars, head, isRun, queueVars, logger, countVars, managerRuns, logRuns,
                 todo, busy, lhand, printVars, crushed, last>>

\* opt_close frees the logger only when its file is open: otherwise nobody does.
Close ==
  /\ lpc = "do" /\ lhand \in DOMAIN cmds /\ Cmd.option = "close" /\ logger # "freed"
  /\ logger' = IF logger = "open" THEN "freed" ELSE logger
  /\ CarriedOut(Cmd)
  /\ lpc' = "recycle"
  /\ UNCHANGED <<cmds, appVars, head, isRun, queueVars, countVars, managerRuns, logRuns, todo, busy,
                 lhand, printVars, crushed, last>>

Ack ==
  /\ lpc = "ack" /\ ack' = ack + 1
  /\ lpc' = IF Cmd.option = "write" /\ Cmd.shown /\ PrintFree > Len(Record) THEN "header" ELSE "recycle"
  /\ UNCHANGED <<cmds, appVars, head, isRun, queueVars, logger, req, reqMt, managerRuns, logRuns,
                 todo, busy, lhand, printVars, owed, wrong, crushed, last>>

\* The three pushes, each of which the print thread may see before the next.
AfterPiece == [header |-> "prefix", prefix |-> "text", text |-> "recycle"]

PrintPiece ==
  /\ lpc \in DOMAIN AfterPiece
  /\ IF PrintFree < 1 THEN crushed' = TRUE /\ UNCHANGED <<prints, lpc>>
     ELSE /\ prints' = Append(prints, IF lpc = "header" THEN 2 ELSE 0)
          /\ lpc' = AfterPiece[lpc] /\ UNCHANGED crushed
  /\ UNCHANGED <<cmds, appVars, head, isRun, queueVars, logger, countVars, managerRuns, logRuns,
                 todo, busy, lhand, ppc, due, owed, wrong, last>>

\* What the command said is not looked at again.  It goes back to its thread, behind those that already wait for room.
Recycle ==
  /\ lpc = "recycle"
  /\ IF cache[Now] = <<>> /\ Len(rcyq[Now]) < Capacity
     THEN rcyq' = [rcyq EXCEPT ![Now] = Append(@, lhand)] /\ UNCHANGED cache
     ELSE cache' = [cache EXCEPT ![Now] = Append(@, lhand)] /\ UNCHANGED rcyq
  /\ lhand' = None /\ cmds' = [cmds EXCEPT ![lhand] = NoCall]
  /\ VisitGoesOn
  /\ UNCHANGED <<appVars, head, isRun, cmdq, logger, countVars, managerRuns, logRuns, busy,
                 printVars, owed, wrong, crushed, last>>

\* The end of a visit of _proc_log: what waits is handed back while there is room.
HandBack ==
  /\ lpc = "hand_back"
  /\ IF cache[Now] # <<>> /\ Len(rcyq[Now]) < Capacity
     THEN /\ rcyq' = [rcyq EXCEPT ![Now] = Append(@, cache[Now][1])]
          /\ cache' = [cache EXCEPT ![Now] = Tail(@)] /\ UNCHANGED <<lpc, todo>>
     ELSE lpc' = "visit" /\ todo' = Tail(todo) /\ UNCHANGED <<rcyq, cache>>
  /\ UNCHANGED <<cmds, appVars, head, isRun, cmdq, logger, countVars, managerRuns, logRuns, busy,
                 lhand, printVars, owed, wrong, crushed, last>>

-----------------------------------------------------------------------------
(* The print thread *)

\* _do_pt_cmd: a header says how much text follows ...
TakeHeader ==
  /\ ppc \in {"run", "rest"} /\ due = 0 /\ prints # <<>>
  /\ due' = prints[1] /\ prints' = Tail(prints)
  /\ wrong' = IF prints[1] = 0 THEN wrong \cup {"text"} ELSE wrong
  /\ UNCHANGED <<cmds, appVars, head, isRun, queueVars, logger, countVars, managerRuns, logRuns,
                 logVars, ppc, owed, crushed>>

\* Mutant: what there is when the header is seen is taken for all of it.
TakeText_NoWait ==
  /\ due > 0
  /\ due' = 0 /\ prints' = SubSeq(prints, due + 1, Len(prints)) /\ UNCHANGED wrong
  /\ UNCHANGED <<cmds, appVars, head, isRun, queueVars, logger, countVars, managerRuns, logRuns,
                 logVars, ppc, owed, crushed>>

\* ... which is taken as it comes: the loop goes round until it is all there.
TakeText ==
  /\ due > 0 /\ prints # <<>>
  /\ due' = due - 1 /\ prints' = Tail(prints)
  /\ wrong' = IF prints[1] # 0 THEN wrong \cup {"text"} ELSE wrong
  /\ UNCHANGED <<cmds, appVars, head, isRun, queueVars, logger, countVars, managerRuns, logRuns,
                 logVars, ppc, owed, crushed>>

\* _print_func: the manager has stopped, then the log thread has, then the cache is empty.
PrintEnds ==
  /\ due = 0
  /\ \/ ppc = "run" /\ ~managerRuns /\ ppc' = "waits"
     \/ ppc = "waits" /\ ~logRuns /\ ppc' = "rest"
     \/ ppc = "rest" /\ prints = <<>> /\ ppc' = "done"
  /\ UNCHANGED <<cmds, appVars, head, isRun, queueVars, logger, countVars, managerRuns, logRuns,
                 logVars, prints, due, owed, wrong, crushed>>

LogStep ==
  \/ LogStart \/ PassBegins \/ PassEnds \/ Pop \/ FindsNothing \/ LooksAtThread \/ WriteOrReset \/ Flush
  \/ Close \/ Ack \/ PrintPiece \/ Recycle \/ HandBack
CallStep(t) ==
  GetRecycled(t) \/ GotCommand(t) \/ WaitForAcks(t) \/ Push(t) \/ Count(t) \/ Refused(t) \/ FreeRecycled(t)
PrintStep == TakeHeader \/ TakeText \/ PrintEnds

Next ==
  \/ \E t \in Threads : Begin(t) \/ CallStep(t) \/ ThreadEnds(t)
  \/ BeginDestroy \/ StopManager \/ FreeManager
  \/ LogStep \/ PrintStep

Spec == Init /\ [][Next]_vars

\* The threads run; a call that has begun goes on.
LiveSpec == Spec /\ WF_vars(LogStep) /\ WF_vars(PrintStep) /\ \A t \in Threads : WF_vars(CallStep(t))

-----------------------------------------------------------------------------
(* Properties *)

\* A command is in one place at a time (a thread's hand, a queue, the cache, the log thread's
\* hand) and is deleted exactly once, whoever does it; no command or logger that was freed is used,
\* and once the manager is gone no command is left (logger.cpp:1198-1328, 1634-1696, 1794-1875).
CommandHasOnePlace ==
  /\ ~crushed
  /\ lpc = "do" => lhand \in DOMAIN cmds /\ logger # "freed"
  /\ \A c \in DOMAIN cmds :
       LET places == Cardinality({t \in Threads : hand[t] = c}) + (IF lhand = c THEN 1 ELSE 0)
                     + Cardinality({t \in Threads : Contains(cmdq[t], c)})
                     + Cardinality({t \in Threads : Contains(rcyq[t], c)})
                     + Cardinality({t \in Threads : Contains(cache[t], c)})
       IN places = 1
  /\ \A t \in Threads : Range(cmdq[t]) \cup Range(rcyq[t]) \cup Range(cache[t]) \subseteq DOMAIN cmds
  /\ head = <<>> => cmds = <<>>

\* Every command that was accepted is carried out, once and in its thread's order, and none is
\* left behind when the log thread ends (logger.cpp:1198-1328, 1698-1769).  A record is written, or
\* Lost because its file cannot be opened.
AcceptedIsWritten ==
  /\ "order" \notin wrong
  /\ lpc = "done" => \A t \in Threads : owed[t] = <<>>

\* The console shows whole records: a header is never taken for text nor text for a header, though
\* the print thread runs between the three pushes of a record (logger.cpp:1081-1196, 1462-1531).
PrintedWhole ==
  /\ "text" \notin wrong
  /\ ppc = "done" => due = 0

\* What was accepted reaches the file unless it is Lost, and what reaches the console is whole.
OutputComplete == AcceptedIsWritten /\ PrintedWhole

\* Every call returns: the log thread never waits for the application, so a full queue empties,
\* and a destroy sees its acknowledgements (logger.cpp:1720-1769, 1984-2003).
CallsReturn == \A t \in Threads : pc[t] # "idle" ~> pc[t] = "idle"
=============================================================================
