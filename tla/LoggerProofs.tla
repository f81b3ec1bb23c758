---------------------------- MODULE LoggerProofs ----------------------------
(* Theorems about Logger. *)
EXTENDS Logger, TLAPS, FiniteSetTheorems, SequenceTheorems

CallType == [option : {"none", "write", "flush", "reset", "close"}, block : BOOLEAN, shown : BOOLEAN,
             from : Threads, n : Nat]
CmdLabels == {"do", "ack", "header", "prefix", "text", "recycle"}

(* The types, of the variables of each part. *)
CmdTypes ==
  cmds \in [DOMAIN cmds -> CallType] /\ IsFiniteSet(DOMAIN cmds) /\ DOMAIN cmds \subseteq Nat \ {None}
AppTypes ==
  /\ pc \in [Threads -> {"idle", "get", "wait", "push", "count"}]
  /\ hand \in [Threads -> Nat]
  /\ call \in [Threads -> CallType]
  /\ calls \in [Threads -> Seq({"write", "flush", "reset"})]
  /\ head \in Seq(Threads)
QueueTypes ==
  cmdq \in [Threads -> Seq(Nat)] /\ rcyq \in [Threads -> Seq(Nat)] /\ cache \in [Threads -> Seq(Nat)]
CountTypes == req \in Nat /\ reqMt \in Nat /\ ack \in Nat /\ logger \in {"open", "shut", "freed"}
FlagTypes ==
  /\ isRun \in [Threads -> BOOLEAN] /\ managerRuns \in BOOLEAN /\ logRuns \in BOOLEAN
  /\ last \in BOOLEAN /\ busy \in BOOLEAN /\ crushed \in BOOLEAN
LogTypes ==
  /\ lpc \in {"start", "pass", "visit", "look", "hand_back", "done"} \cup CmdLabels
  /\ todo \in Seq(Threads) /\ lhand \in Nat
PrintTypes ==
  prints \in Seq(0 .. 2) /\ ppc \in {"run", "waits", "rest", "done"} /\ due \in 0 .. 2
DoneTypes == owed \in [Threads -> Seq(Nat)] /\ wrong \subseteq {"order", "text", "stray"}
TypeOK ==
  CmdTypes /\ AppTypes /\ QueueTypes /\ CountTypes /\ FlagTypes /\ LogTypes /\ PrintTypes /\ DoneTypes

(* Where a command may be: in a thread's hand, in the log thread's, or in one of a thread's queues. *)
Kinds == {"hand", "log", "cmdq", "rcyq", "cache"}
At(k, t) ==
  CASE k = "hand"  -> {hand[t]} \ {None}
    [] k = "log"   -> IF t = Main THEN {lhand} \ {None} ELSE {}
    [] k = "cmdq"  -> Range(cmdq[t])
    [] k = "rcyq"  -> Range(rcyq[t])
    [] k = "cache" -> Range(cache[t])
Places == Kinds \X Threads
Once(q) == \A i, j \in DOMAIN q : q[i] = q[j] => i = j
(* What the places H hold, together all of D, and nothing twice. *)
OnePlace(H, D) ==
  /\ \A p \in Places : H[p] \subseteq D
  /\ \A c \in D : \E p \in Places : c \in H[p]
  /\ \A p, q \in Places : p # q => H[p] \cap H[q] = {}
Held == [p \in Places |-> At(p[1], p[2])]
PlacesInv ==
  /\ OnePlace(Held, DOMAIN cmds)
  /\ \A t \in Threads : Once(cmdq[t]) /\ Once(rcyq[t]) /\ Once(cache[t])

(* A thread: the command it holds says what it calls; only a thread in the list has anything. *)
ThreadOK(t) ==
  /\ pc[t] \in {"idle", "count"} => hand[t] = None
  /\ pc[t] \in {"wait", "push"} => hand[t] # None /\ cmds[hand[t]] = call[t]
  /\ pc[t] # "idle" => call[t].from = t
  /\ call[t].option = "close" => t = Main /\ call[t].block
  /\ pc[t] = "wait" => call[t].option = "close"
  /\ pc[t] = "count" => call[t].option # "close"
  /\ Contains(todo, t) => Contains(head, t)
  /\ ~Contains(head, t) => pc[t] = "idle" /\ cmdq[t] = <<>> /\ rcyq[t] = <<>> /\ cache[t] = <<>>
AppInv ==
  /\ \A t \in Threads : ThreadOK(t)
  /\ Closing => \A t \in Others(Main) : pc[t] = "idle"
  /\ ~managerRuns => Closing /\ \A t \in Threads : pc[t] = "idle"
  /\ head = <<>> => ~managerRuns /\ lpc = "done" /\ cmds = <<>>

(* The log thread: it has a command exactly while it handles one, and its last round misses none. *)
LogInv ==
  /\ lpc \in CmdLabels <=> lhand # None
  /\ lpc \in CmdLabels \cup {"look", "hand_back"} => todo # <<>>
  /\ lpc \in CmdLabels => busy
  /\ last => ~managerRuns
  /\ last => lpc \notin {"start", "pass", "hand_back"}
  /\ last /\ ~busy => \A t \in Threads : Contains(todo, t) \/ cmdq[t] = <<>>
  /\ last /\ lpc = "look" => cmdq[Now] = <<>>
  /\ lpc = "done" => last /\ ~busy /\ todo = <<>>

(* Requests and answers: until the logger's destruction is settled (Settled), what was requested and
   what is about to be counted is what was answered and what is still to be; afterwards at most the
   command that closes it is left. *)
Pending == {c \in DOMAIN cmds : (c = lhand /\ lpc \in {"do", "ack"}) \/ \E t \in Threads : c \in Range(cmdq[t])}
Counting == {t \in Threads : pc[t] = "count"}
Settled == call[Main].option = "close" /\ pc[Main] \in {"push", "idle"}
CountInv ==
  /\ IsFiniteSet(Counting)
  /\ ~Settled => /\ req + reqMt + Cardinality(Counting) = ack + Cardinality(Pending)
                 /\ \A c \in Pending : cmds[c].option # "close"
                 /\ logger # "freed"
  /\ Settled => /\ \A c, d \in Pending : c = d
                /\ \A c \in Pending : cmds[c].option = "close" /\ (lpc # "ack")
                /\ pc[Main] = "push" \/ logger = "freed" => Pending = {}
                /\ pc[Main] = "push" => logger # "freed"

(* A thread's calls still owed are those of its queued commands, in order, after the one at work. *)
Doing(t) == IF lpc = "do" /\ Now = t THEN 1 ELSE 0
OwedOK(t) ==
  /\ Len(owed[t]) = Len(cmdq[t]) + Doing(t)
  /\ \A i \in 1 .. Len(cmdq[t]) : cmds[cmdq[t][i]].from = t /\ owed[t][i + Doing(t)] = cmds[cmdq[t][i]].n
OrderInv ==
  /\ "order" \notin wrong
  /\ lpc = "do" => cmds[lhand].from = Now /\ owed[Now] # <<>> /\ owed[Now][1] = cmds[lhand].n
  /\ \A t \in Threads : OwedOK(t)

(* The print thread's queue cuts into whole records, d[i] pieces of one being due after the i-th piece;
   and it has room for the Room3 pieces the log thread is about to push. *)
Owing == CASE lpc = "prefix" -> 2 [] lpc = "text" -> 1 [] OTHER -> 0
Room3 == CASE lpc = "header" -> 3 [] lpc = "prefix" -> 2 [] lpc = "text" -> 1 [] OTHER -> 0
Whole(d, ps, from, to) ==
  /\ d[0] = from /\ d[Len(ps)] = to
  /\ \A i \in 1 .. Len(ps) :
       IF d[i - 1] > 0 THEN ps[i] = 0 /\ d[i] = d[i - 1] - 1 ELSE ps[i] # 0 /\ d[i] = ps[i]
IsWhole(ps, from, to) == \E d \in [0 .. Len(ps) -> 0 .. 2] : Whole(d, ps, from, to)
PrintInv ==
  /\ "text" \notin wrong
  /\ ppc = "done" => due = 0
  /\ IsWhole(prints, due, Owing)
  /\ Room3 > 0 => PrintFree >= Room3
  /\ ~crushed
-----------------------------------------------------------------------------
(* Lemmas about the queues: what an Append and a Tail hold. *)

(* An Append adds its element, which the queue holds once if it was not in it. *)
LEMMA AppendHolds ==
  ASSUME NEW S, NEW q \in Seq(S), NEW e \in S
  PROVE  /\ Append(q, e) \in Seq(S) /\ Append(q, e) # <<>>
         /\ Len(Append(q, e)) = Len(q) + 1
         /\ \A i \in 1 .. Len(q) : Append(q, e)[i] = q[i]
         /\ Append(q, e)[Len(q) + 1] = e
         /\ Range(Append(q, e)) = Range(q) \cup {e}
         /\ Once(q) /\ e \notin Range(q) => Once(Append(q, e))
<1>1. /\ Append(q, e) \in Seq(S) /\ Append(q, e) # <<>>
      /\ Len(Append(q, e)) = Len(q) + 1
      /\ \A i \in 1 .. Len(q) : Append(q, e)[i] = q[i]
      /\ Append(q, e)[Len(q) + 1] = e
  BY AppendProperties
<1>2. DOMAIN q = 1 .. Len(q) /\ DOMAIN Append(q, e) = 1 .. Len(q) + 1 /\ Len(q) \in Nat
  BY <1>1
<1>3. Range(Append(q, e)) = Range(q) \cup {e}
  BY <1>1, <1>2 DEF Range
<1>4. Once(q) /\ e \notin Range(q) => Once(Append(q, e))
  BY <1>1, <1>2 DEF Range, Once
<1> QED  BY <1>1, <1>3, <1>4

(* A Tail holds what the first element leaves. *)
LEMMA TailHolds ==
  ASSUME NEW S, NEW q \in Seq(S), q # <<>>
  PROVE  /\ Tail(q) \in Seq(S) /\ Len(q) \in Nat \ {0} /\ Len(Tail(q)) = Len(q) - 1
         /\ \A i \in 1 .. Len(Tail(q)) : Tail(q)[i] = q[i + 1]
         /\ q[1] \in S /\ q[1] \in Range(q)
         /\ Range(q) = {q[1]} \cup Range(Tail(q))
         /\ Once(q) => q[1] \notin Range(Tail(q)) /\ Once(Tail(q)) /\ Range(Tail(q)) = Range(q) \ {q[1]}
<1>1. /\ Tail(q) \in Seq(S) /\ Len(q) \in Nat \ {0} /\ Len(Tail(q)) = Len(q) - 1
      /\ \A i \in 1 .. Len(Tail(q)) : Tail(q)[i] = q[i + 1]
  BY HeadTailProperties, EmptySeq
<1>2. DOMAIN q = 1 .. Len(q) /\ DOMAIN Tail(q) = 1 .. Len(q) - 1
  BY <1>1
<1>3. q[1] \in S /\ q[1] \in Range(q)
  BY <1>1, <1>2, ElementOfSeq DEF Range
<1>4. Range(q) = {q[1]} \cup Range(Tail(q))
  <2>1. ASSUME NEW i \in 1 .. Len(q) PROVE q[i] = q[1] \/ q[i] \in Range(Tail(q))
    <3>1. CASE i = 1
      BY <3>1
    <3>2. CASE i # 1
      <4>1. i - 1 \in 1 .. Len(Tail(q)) /\ Tail(q)[i - 1] = q[i]
        BY <1>1, <3>2
      <4> QED  BY <1>1, <1>2, <4>1 DEF Range
    <3> QED  BY <3>1, <3>2
  <2>2. Range(Tail(q)) \subseteq Range(q)
    BY <1>1, <1>2 DEF Range
  <2> QED  BY <1>2, <1>3, <2>1, <2>2 DEF Range
<1>5. Once(q) => q[1] \notin Range(Tail(q)) /\ Once(Tail(q))
  BY <1>1, <1>2 DEF Range, Once
<1> QED  BY <1>1, <1>3, <1>4, <1>5

(* Nothing is mapped by a function on nothing. *)
LEMMA EmptyFunction == ASSUME NEW f PROVE [d \in {} |-> f[d]] = <<>>
<1>1. [d \in {} |-> f[d]] \in Seq(Nat)
  <2>1. 1 .. 0 = {}
    OBVIOUS
  <2>2. [d \in {} |-> f[d]] \in [1 .. 0 -> Nat]
    BY <2>1
  <2> QED  BY <2>2, SeqDef
<1>2. DOMAIN [d \in {} |-> f[d]] = {}
  OBVIOUS
<1> QED  BY <1>1, <1>2, EmptySeq

(* What Contains says, and the list of a thread that registers. *)
LEMMA Registers ==
  ASSUME NEW q \in Seq(Threads), NEW t \in Threads
  PROVE  /\ \A x : Contains(q, x) <=> x \in Range(q)
         /\ <<t>> \o q \in Seq(Threads) /\ <<t>> \o q # <<>>
         /\ \A x : Contains(<<t>> \o q, x) <=> x = t \/ Contains(q, x)
<1>1. \A s \in Seq(Threads) : \A x : Contains(s, x) <=> x \in Range(s)
  BY DEF Contains, Range
<1>2. <<t>> \in Seq(Threads) /\ Len(<<t>>) = 1 /\ <<t>>[1] = t
  OBVIOUS
<1>3. <<t>> \o q \in Seq(Threads) /\ Len(<<t>> \o q) = Len(q) + 1 /\ Len(q) \in Nat
  BY <1>2, ConcatProperties
<1>4. (<<t>> \o q)[1] = t /\ \A i \in 1 .. Len(q) : (<<t>> \o q)[i + 1] = q[i]
  BY <1>2, ConcatProperties
<1>5. \A i \in 2 .. Len(q) + 1 : (<<t>> \o q)[i] = q[i - 1]
  BY <1>2, <1>3, ConcatProperties
<1>6. \A x : Contains(<<t>> \o q, x) <=> x = t \/ Contains(q, x)
  <2> SUFFICES ASSUME NEW x PROVE Contains(<<t>> \o q, x) <=> x = t \/ Contains(q, x)
    OBVIOUS
  <2> DEFINE r == <<t>> \o q
  <2> HIDE DEF r
  <2>1. Len(r) = Len(q) + 1 /\ Len(q) \in Nat /\ r[1] = t /\ \A i \in 1 .. Len(q) : r[i + 1] = q[i]
    BY <1>3, <1>4 DEF r
  <2>2. \A i \in 2 .. Len(r) : i - 1 \in 1 .. Len(q) /\ r[i] = q[i - 1]
    BY <1>5, <2>1 DEF r
  <2>3. ASSUME Contains(r, x) PROVE x = t \/ Contains(q, x)
    BY <2>1, <2>2, <2>3 DEF Contains
  <2>4. ASSUME x = t \/ Contains(q, x) PROVE Contains(r, x)
    BY <2>1, <2>4 DEF Contains
  <2> QED  BY <2>3, <2>4 DEF r
<1> QED  BY <1>1, <1>3, <1>6

(* There is a number for a new command. *)
LEMMA NewCmdIsNew ==
  ASSUME IsFiniteSet(DOMAIN cmds)
  PROVE  NewCmd \in Nat \ {None} /\ NewCmd \notin DOMAIN cmds
<1>1. PICK n \in Nat : n = Cardinality(DOMAIN cmds)
  BY FS_CardinalityType
<1>2. IsFiniteSet(1 .. n + 1) /\ Cardinality(1 .. n + 1) = n + 1
  BY FS_Interval
<1>3. \E c \in 1 .. n + 1 : c \notin DOMAIN cmds
  BY <1>1, <1>2, FS_Subset
<1> QED  BY <1>1, <1>3 DEF NewCmd, None

-----------------------------------------------------------------------------
(* The types of the variables. *)

(* They hold at the start. *)
LEMMA InitTyped == Init => TypeOK
<1> SUFFICES ASSUME Init PROVE TypeOK
  OBVIOUS
<1>1. CmdTypes
  BY FS_EmptySet DEF Init, CmdTypes
<1>2. NoCall \in CallType
  BY LoggerAssumption DEF NoCall, CallType
<1>3. AppTypes
  BY <1>2, LoggerAssumption DEF Init, AppTypes, None
<1>4. QueueTypes /\ CountTypes /\ LogTypes /\ PrintTypes /\ DoneTypes
  BY DEF Init, QueueTypes, CountTypes, LogTypes, PrintTypes, DoneTypes, None
<1>5. FlagTypes
  BY Zenon DEF Init, FlagTypes
<1> QED  BY <1>1, <1>3, <1>4, <1>5 DEF TypeOK

(* The variables a step leaves alone keep their types. *)
LEMMA CmdsStay == ASSUME CmdTypes, UNCHANGED cmds PROVE CmdTypes'
BY DEF CmdTypes
(* The variables a step leaves alone keep their types. *)
LEMMA AppStays == ASSUME AppTypes, UNCHANGED <<appVars, head>> PROVE AppTypes'
BY DEF AppTypes, appVars
(* The variables a step leaves alone keep their types. *)
LEMMA QueuesStay == ASSUME QueueTypes, UNCHANGED queueVars PROVE QueueTypes'
BY DEF QueueTypes, queueVars
(* The variables a step leaves alone keep their types. *)
LEMMA CountsStay == ASSUME CountTypes, UNCHANGED <<logger, countVars>> PROVE CountTypes'
BY DEF CountTypes, countVars
(* The variables a step leaves alone keep their types. *)
LEMMA LogStays == ASSUME LogTypes, UNCHANGED <<lpc, todo, lhand>> PROVE LogTypes'
BY DEF LogTypes
(* The variables a step leaves alone keep their types. *)
LEMMA PrintStays == ASSUME PrintTypes, UNCHANGED printVars PROVE PrintTypes'
BY DEF PrintTypes, printVars
(* The variables a step leaves alone keep their types. *)
LEMMA DoneStays == ASSUME DoneTypes, UNCHANGED <<owed, wrong>> PROVE DoneTypes'
BY DEF DoneTypes

(* All parts but the flags. *)
Typed == CmdTypes /\ AppTypes /\ QueueTypes /\ CountTypes /\ LogTypes /\ PrintTypes /\ DoneTypes

(* The flags are BOOLEAN whatever the step does to them. *)
LEMMA FlagsTyped == FlagTypes /\ [Next]_vars => FlagTypes'
<1> SUFFICES ASSUME FlagTypes, [Next]_vars PROVE FlagTypes'
  OBVIOUS
<1>1. CASE UNCHANGED <<isRun, managerRuns, logRuns, last, busy, crushed>>
  BY <1>1, Zenon DEF FlagTypes
<1>2. ASSUME NEW t \in Threads, GotCommand(t) PROVE FlagTypes'
  <2>1. crushed' \in BOOLEAN /\ UNCHANGED <<isRun, managerRuns, logRuns, last, busy>>
    BY <1>2, Zenon DEF GotCommand, logVars
  <2> QED  BY <2>1, Zenon DEF FlagTypes
<1>3. ASSUME NEW t \in Threads, ThreadEnds(t) PROVE FlagTypes'
  <2>1. isRun' = [isRun EXCEPT ![t] = FALSE] /\ UNCHANGED <<managerRuns, logRuns, last, busy, crushed>>
    BY <1>3, Zenon DEF ThreadEnds, logVars
  <2>2. isRun' \in [Threads -> BOOLEAN]
    BY <2>1, Zenon DEF FlagTypes
  <2> QED  BY <2>1, <2>2, Zenon DEF FlagTypes
<1>4. CASE StopManager \/ LogStart
  BY <1>4, Zenon DEF FlagTypes, StopManager, LogStart, logVars
<1>5. CASE PassBegins
  <2>1. last' = ~managerRuns /\ busy' = FALSE /\ UNCHANGED <<isRun, managerRuns, logRuns, crushed>>
    BY <1>5, Zenon DEF PassBegins
  <2> QED  BY <2>1, Zenon DEF FlagTypes
<1>6. CASE PassEnds \/ Pop
  BY <1>6, Zenon DEF FlagTypes, PassEnds, Pop
<1>7. CASE PrintPiece
  BY <1>7, Zenon DEF FlagTypes, PrintPiece
<1>8. CASE UNCHANGED vars
  BY <1>1, <1>8, Zenon DEF vars, logVars
<1>9. ASSUME NEW t \in Threads, Begin(t) \/ BeginDestroy PROVE FlagTypes'
  BY <1>1, <1>9, Zenon DEF Begin, BeginDestroy, Calls, logVars
<1>10. ASSUME NEW t \in Threads,
              GetRecycled(t) \/ WaitForAcks(t) \/ Push(t) \/ Count(t) \/ Refused(t) \/ FreeRecycled(t)
       PROVE  FlagTypes'
  BY <1>1, <1>10, Zenon DEF GetRecycled, WaitForAcks, Push, Count, Refused, FreeRecycled, logVars
<1>11. CASE FindsNothing \/ LooksAtThread \/ WriteOrReset \/ Flush \/ Close \/ Ack
            \/ Recycle \/ HandBack
  BY <1>1, <1>11, Zenon DEF FindsNothing, LooksAtThread, WriteOrReset, Flush, Close, Ack,
     Recycle, HandBack, logVars
<1>15. CASE FreeManager
  <2>1. UNCHANGED <<managerRuns, logRuns, last, busy, crushed>>
    BY <1>15, Zenon DEF FreeManager, logVars
  <2>2. PICK late : isRun' = [t \in Threads |-> isRun[t] /\ t \notin late]
    BY <1>15, Zenon DEF FreeManager
  <2>3. isRun' \in [Threads -> BOOLEAN]
    BY <2>2, Zenon DEF FlagTypes
  <2> QED  BY <2>1, <2>3, Zenon DEF FlagTypes
<1>12. CASE PrintStep
  BY <1>1, <1>12, Zenon DEF PrintStep, TakeHeader, TakeText, PrintEnds, logVars
<1>13. CASE LogStep
  BY <1>13, <1>4, <1>5, <1>6, <1>7, <1>11, Zenon DEF LogStep
<1>14. ASSUME NEW t \in Threads, CallStep(t) PROVE FlagTypes'
  BY <1>14, <1>2, <1>10, Zenon DEF CallStep
<1> QED
  BY <1>3, <1>4, <1>8, <1>9, <1>12, <1>13, <1>14, <1>15, LoggerAssumption DEF Next

(* A call that begins. *)
LEMMA CallsTyped ==
  ASSUME Typed, NEW t \in Threads, NEW c \in CallType, Calls(t, c),
         calls' \in [Threads -> Seq({"write", "flush", "reset"})]
  PROVE  Typed'
<1>1. [c EXCEPT !.from = t, !.n = Len(calls[t])] \in CallType
  <2>1. Len(calls[t]) \in Nat
    BY DEF Typed, AppTypes
  <2> QED  BY <2>1 DEF CallType
<1>2. head' \in Seq(Threads)
  BY Registers DEF Calls, Registered, Typed, AppTypes
<1>3. AppTypes'
  BY <1>1, <1>2 DEF Typed, AppTypes, Calls
<1> QED  BY <1>3, CmdsStay, AppStays, QueuesStay, CountsStay, LogStays, PrintStays, DoneStays DEF Typed, Calls, logVars

(* Fewer commands are finitely many still. *)
LEMMA FewerCmds ==
  ASSUME CmdTypes, NEW S, cmds' = [d \in DOMAIN cmds \ S |-> cmds[d]]
  PROVE  CmdTypes' /\ DOMAIN cmds' = DOMAIN cmds \ S
<1>1. DOMAIN cmds' = DOMAIN cmds \ S
  OBVIOUS
<1>2. IsFiniteSet(DOMAIN cmds')
  BY <1>1, FS_Subset DEF CmdTypes
<1> QED  BY <1>1, <1>2 DEF CmdTypes

(* NoCall is a call. *)
LEMMA NoCallTyped == NoCall \in CallType
BY LoggerAssumption DEF NoCall, CallType

(* The steps of a call. *)
LEMMA CallStepTyped ==
  ASSUME Typed, NEW t \in Threads, CallStep(t)
  PROVE  Typed'
<1>1. CASE GetRecycled(t)
  <2>1. Tail(rcyq[t]) \in Seq(Nat) /\ rcyq[t][1] \in Nat
    BY <1>1, TailHolds DEF GetRecycled, Typed, QueueTypes
  <2>2. CmdTypes'
    BY <1>1, FewerCmds, CmdsStay DEF GetRecycled, Delete, Typed
  <2>3. AppTypes'
    BY <1>1, <2>1 DEF GetRecycled, Typed, AppTypes
  <2>4. QueueTypes'
    BY <1>1, <2>1 DEF GetRecycled, Typed, QueueTypes
  <2> QED  BY <1>1, <2>2, <2>3, <2>4, CountsStay, LogStays, PrintStays, DoneStays DEF GetRecycled, Typed, logVars
<1>2. CASE GotCommand(t)
  <2> DEFINE c == IF hand[t] = None THEN NewCmd ELSE hand[t]
  <2>1. c \in Nat \ {None}
    BY NewCmdIsNew DEF Typed, CmdTypes, AppTypes
  <2> HIDE DEF c
  <2>2. hand' = [hand EXCEPT ![t] = c]
        /\ cmds' = [d \in DOMAIN cmds \cup {c} |-> IF d = c THEN call[t] ELSE cmds[d]]
    BY <1>2 DEF GotCommand, c
  <2>3. IsFiniteSet(DOMAIN cmds \cup {c})
    BY FS_AddElement DEF Typed, CmdTypes
  <2>4. CmdTypes'
    BY <2>1, <2>2, <2>3 DEF Typed, CmdTypes, AppTypes
  <2>5. AppTypes'
    BY <1>2, <2>1, <2>2 DEF GotCommand, Typed, AppTypes
  <2> QED  BY <1>2, <2>4, <2>5, QueuesStay, CountsStay, LogStays, PrintStays, DoneStays DEF GotCommand, Typed, logVars
<1>3. CASE WaitForAcks(t)
  <2>1. AppTypes'
    BY <1>3 DEF WaitForAcks, Typed, AppTypes
  <2> QED  BY <1>3, <2>1, CmdsStay, AppStays, QueuesStay, CountsStay, LogStays, PrintStays, DoneStays DEF WaitForAcks, Typed, logVars
<1>4. CASE Push(t)
  <2>1. Append(cmdq[t], hand[t]) \in Seq(Nat)
    BY AppendProperties DEF Typed, QueueTypes, AppTypes
  <2>2. Append(owed[t], call[t].n) \in Seq(Nat)
    BY AppendProperties DEF CallType, Typed, AppTypes, DoneTypes
  <2>3. AppTypes'
    BY <1>4 DEF Push, Typed, AppTypes, None
  <2>4. QueueTypes'
    BY <1>4, <2>1 DEF Push, Typed, QueueTypes
  <2>5. DoneTypes'
    BY <1>4, <2>2 DEF Push, Typed, DoneTypes
  <2> QED  BY <1>4, <2>3, <2>4, <2>5, CmdsStay, CountsStay, LogStays, PrintStays DEF Push, Typed, logVars
<1>5. CASE Count(t)
  <2>1. AppTypes'
    BY <1>5, NoCallTyped DEF Count, Typed, AppTypes
  <2>2. CountTypes'
    BY <1>5 DEF Count, Typed, CountTypes
  <2> QED  BY <1>5, <2>1, <2>2, CmdsStay, AppStays, QueuesStay, CountsStay, LogStays, PrintStays, DoneStays DEF Count, Typed, logVars
<1>6. CASE Refused(t)
  <2>1. AppTypes'
    BY <1>6, NoCallTyped DEF Refused, Typed, AppTypes, None
  <2>2. CmdTypes'
    BY <1>6, FewerCmds DEF Refused, Delete, Typed
  <2> QED  BY <1>6, <2>1, <2>2, CmdsStay, AppStays, QueuesStay, CountsStay, LogStays, PrintStays, DoneStays DEF Refused, Typed, logVars
<1>7. CASE FreeRecycled(t)
  <2>1. Tail(rcyq[t]) \in Seq(Nat)
    BY <1>7, TailHolds DEF FreeRecycled, Typed, QueueTypes
  <2>2. CmdTypes'
    BY <1>7, FewerCmds DEF FreeRecycled, Delete, Typed
  <2>3. QueueTypes'
    BY <1>7, <2>1 DEF FreeRecycled, Typed, QueueTypes
  <2> QED  BY <1>7, <2>2, <2>3, CmdsStay, AppStays, QueuesStay, CountsStay, LogStays, PrintStays, DoneStays DEF FreeRecycled, Typed, logVars
<1> QED  BY <1>1, <1>2, <1>3, <1>4, <1>5, <1>6, <1>7 DEF CallStep

(* What the log thread carries out. *)
LEMMA CarriedOutTyped == ASSUME DoneTypes, CarriedOut(Cmd) PROVE DoneTypes'
<1>1. PICK t : t = Cmd.from
  OBVIOUS
<1>2. CASE owed[t] # <<>> /\ owed[t][1] = Cmd.n
  <2>1. owed' = [owed EXCEPT ![t] = Tail(@)] /\ wrong' = wrong
    BY <1>1, <1>2 DEF CarriedOut
  <2>2. t \in Threads => Tail(owed[t]) \in Seq(Nat)
    BY <1>2, TailHolds DEF DoneTypes
  <2> QED  BY <2>1, <2>2 DEF DoneTypes
<1>3. CASE ~(owed[t] # <<>> /\ owed[t][1] = Cmd.n)
  BY <1>1, <1>3 DEF CarriedOut, DoneTypes
<1> QED  BY <1>2, <1>3

(* The log thread goes on with its visit. *)
LEMMA VisitTyped == ASSUME LogTypes, todo # <<>>, VisitGoesOn, lhand' \in {lhand, None} PROVE LogTypes'
BY TailHolds DEF VisitGoesOn, LogTypes, None

(* The steps of the log thread. *)
LEMMA LogStepTyped ==
  ASSUME Typed, LogInv, LogStep
  PROVE  Typed'
<1>1. CASE LogStart \/ PassBegins \/ PassEnds \/ FindsNothing
  <2>1. LogTypes'
    BY <1>1 DEF LogStart, PassBegins, PassEnds, FindsNothing, Typed, LogTypes, AppTypes
  <2> QED  BY <1>1, <2>1, CmdsStay, AppStays, QueuesStay, CountsStay, LogStays, PrintStays, DoneStays DEF LogStart, PassBegins, PassEnds, FindsNothing, Typed
<1>2. CASE Flush \/ Close
  <2>1. LogTypes'
    BY <1>2 DEF Flush, Close, Typed, LogTypes, CmdLabels
  <2>2. CountTypes'
    BY <1>2 DEF Flush, Close, Typed, CountTypes, countVars
  <2> QED  BY <1>2, <2>1, <2>2, CarriedOutTyped, CmdsStay, AppStays, QueuesStay, CountsStay, LogStays, PrintStays, DoneStays DEF Flush, Close, Typed
<1>3. CASE WriteOrReset
  <2>1. LogTypes'
    BY <1>3 DEF WriteOrReset, Typed, LogTypes, CmdLabels
  <2>2. CountTypes'
    BY <1>3 DEF WriteOrReset, Written, Lost, Typed, CountTypes, countVars
  <2>3. ErrorText \in Seq(0 .. 2)
    BY DEF ErrorText
  <2>4. prints \o ErrorText \in Seq(0 .. 2)
    BY <2>3, ConcatProperties DEF Typed, PrintTypes
  <2>5. PrintTypes'
    BY <1>3, <2>4 DEF WriteOrReset, Written, Lost, Typed, PrintTypes
  <2> QED  BY <1>3, <2>1, <2>2, <2>5, CarriedOutTyped, CmdsStay, AppStays, QueuesStay, CountsStay, LogStays, PrintStays, DoneStays DEF WriteOrReset, Typed
<1>4. CASE Pop
  <2>1. Now \in Threads
    BY <1>4, TailHolds DEF Pop, Now, Typed, LogTypes
  <2>2. Tail(cmdq[Now]) \in Seq(Nat) /\ cmdq[Now][1] \in Nat
    BY <1>4, <2>1, TailHolds DEF Pop, Typed, QueueTypes
  <2>3. LogTypes'
    BY <1>4, <2>2 DEF Pop, Typed, LogTypes, CmdLabels
  <2>4. QueueTypes'
    BY <1>4, <2>2 DEF Pop, Typed, QueueTypes
  <2> QED  BY <1>4, <2>3, <2>4, CmdsStay, AppStays, QueuesStay, CountsStay, LogStays, PrintStays, DoneStays DEF Pop, Typed
<1>5. CASE LooksAtThread
  <2>1. LogTypes'
    BY <1>5, VisitTyped DEF LooksAtThread, LogInv, Typed
  <2>2. CmdTypes'
    BY <1>5, FewerCmds, CmdsStay DEF LooksAtThread, Typed
  <2>3. QueueTypes'
    <3>1. CASE UNCHANGED queueVars
      BY <3>1, QueuesStay DEF Typed
    <3>2. CASE rcyq' = [rcyq EXCEPT ![Now] = <<>>] /\ cache' = [cache EXCEPT ![Now] = <<>>] /\ UNCHANGED cmdq
      <4>1. PICK t : t = Now
        OBVIOUS
      <4>2. rcyq' = [rcyq EXCEPT ![t] = <<>>] /\ cache' = [cache EXCEPT ![t] = <<>>] /\ cmdq' = cmdq
        BY <3>2, <4>1
      <4>3. <<>> \in Seq(Nat)
        OBVIOUS
      <4> QED  BY <4>2, <4>3 DEF Typed, QueueTypes
    <3> QED  BY <1>5, <3>1, <3>2 DEF LooksAtThread
  <2> QED  BY <1>5, <2>1, <2>2, <2>3, CmdsStay, AppStays, QueuesStay, CountsStay, LogStays, PrintStays, DoneStays DEF LooksAtThread, Typed
<1>6. CASE Ack
  <2>1. LogTypes'
    BY <1>6 DEF Ack, Typed, LogTypes, CmdLabels
  <2>2. CountTypes'
    BY <1>6 DEF Ack, Typed, CountTypes
  <2> QED  BY <1>6, <2>1, <2>2, CmdsStay, AppStays, QueuesStay, CountsStay, LogStays, PrintStays, DoneStays DEF Ack, Typed
<1>7. CASE PrintPiece
  <2>1. Append(prints, 0) \in Seq(0 .. 2) /\ Append(prints, 2) \in Seq(0 .. 2)
    BY AppendProperties DEF Typed, PrintTypes
  <2>2. PrintTypes'
    BY <1>7, <2>1 DEF PrintPiece, Typed, PrintTypes
  <2>3. AfterPiece["header"] = "prefix" /\ AfterPiece["prefix"] = "text" /\ AfterPiece["text"] = "recycle"
        /\ DOMAIN AfterPiece = {"header", "prefix", "text"}
    BY DEF AfterPiece
  <2>4. LogTypes'
    BY <1>7, <2>3 DEF PrintPiece, Typed, LogTypes, CmdLabels
  <2> QED  BY <1>7, <2>2, <2>4, CmdsStay, AppStays, QueuesStay, CountsStay, LogStays, PrintStays, DoneStays DEF PrintPiece, Typed
<1>8. CASE Recycle
  <2>1. Now \in Threads
    BY <1>8, TailHolds DEF Recycle, LogInv, Now, Typed, LogTypes, CmdLabels
  <2>2. Append(rcyq[Now], lhand) \in Seq(Nat) /\ Append(cache[Now], lhand) \in Seq(Nat)
    BY <2>1, AppendProperties DEF Typed, QueueTypes, LogTypes
  <2>3. QueueTypes'
    BY <1>8, <2>2 DEF Recycle, Typed, QueueTypes
  <2>4. CmdTypes'
    BY <1>8, NoCallTyped DEF Recycle, Typed, CmdTypes
  <2>5. LogTypes'
    BY <1>8, VisitTyped DEF Recycle, LogInv, Typed, CmdLabels
  <2> QED  BY <1>8, <2>3, <2>4, <2>5, CmdsStay, AppStays, QueuesStay, CountsStay, LogStays, PrintStays, DoneStays DEF Recycle, Typed
<1>9. CASE HandBack
  <2>1. Now \in Threads
    BY <1>9, TailHolds DEF HandBack, LogInv, Now, Typed, LogTypes
  <2>2. LogTypes'
    <3>1. todo \in Seq(Threads) /\ lhand \in Nat /\ lpc = "hand_back" /\ todo # <<>>
      BY <1>9 DEF HandBack, LogInv, Typed, LogTypes
    <3>2. Tail(todo) \in Seq(Threads)
      BY <3>1, TailHolds
    <3>3. lpc' \in {"hand_back", "visit"} /\ todo' \in {todo, Tail(todo)} /\ lhand' = lhand
      BY <1>9, <3>1 DEF HandBack
    <3> QED  BY ONLY <3>1, <3>2, <3>3 DEF LogTypes
  <2>3. CASE cache[Now] # <<>> /\ Len(rcyq[Now]) < Capacity
    <3>1. Tail(cache[Now]) \in Seq(Nat) /\ cache[Now][1] \in Nat
      BY <2>1, <2>3, TailHolds DEF Typed, QueueTypes
    <3>2. Append(rcyq[Now], cache[Now][1]) \in Seq(Nat)
      BY <2>1, <3>1, AppendProperties DEF Typed, QueueTypes
    <3>3. QueueTypes'
      BY <1>9, <2>3, <3>1, <3>2 DEF HandBack, Typed, QueueTypes
    <3> QED  BY <1>9, <2>2, <3>3, CmdsStay, AppStays, QueuesStay, CountsStay, LogStays, PrintStays, DoneStays DEF HandBack, Typed
  <2>4. CASE ~(cache[Now] # <<>> /\ Len(rcyq[Now]) < Capacity)
    BY <1>9, <2>2, <2>4, CmdsStay, AppStays, QueuesStay, CountsStay, LogStays, PrintStays, DoneStays DEF HandBack, Typed, queueVars
  <2> QED  BY <2>3, <2>4
<1> QED  BY <1>1, <1>2, <1>3, <1>4, <1>5, <1>6, <1>7, <1>8, <1>9 DEF LogStep

(* Every step keeps the types. *)
LEMMA NextTyped == TypeOK /\ LogInv /\ [Next]_vars => TypeOK'
<1> SUFFICES ASSUME TypeOK, LogInv, [Next]_vars PROVE Typed'
  BY FlagsTyped DEF TypeOK, Typed
<1>0. Typed
  BY DEF TypeOK, Typed
<1>1. ASSUME NEW t \in Threads, Begin(t) PROVE Typed'
  <2> DEFINE S == {"write", "flush", "reset"}
  <2>1. PICK option : option = Head(calls[t])
    OBVIOUS
  <2>2. option \in S /\ Tail(calls[t]) \in Seq(S)
    BY <1>0, <1>1, <2>1 DEF Begin, Typed, AppTypes
  <2>3. PICK block \in BOOLEAN : Calls(t, [NoCall EXCEPT !.option = option, !.block = block, !.shown = block])
    BY <1>1, <2>1 DEF Begin
  <2>4. calls' \in [Threads -> Seq(S)]
    BY <1>0, <1>1, <2>2 DEF Begin, Typed, AppTypes
  <2>5. [NoCall EXCEPT !.option = option, !.block = block, !.shown = block] \in CallType
    BY <2>2, LoggerAssumption DEF NoCall, CallType
  <2> QED  BY <1>0, <2>3, <2>4, <2>5, CallsTyped
<1>2. CASE BeginDestroy
  <2>1. [NoCall EXCEPT !.option = "close", !.block = TRUE] \in CallType
    BY LoggerAssumption DEF NoCall, CallType
  <2> QED  BY <1>0, <1>2, <2>1, CallsTyped, LoggerAssumption DEF BeginDestroy, Typed, AppTypes
<1>3. ASSUME NEW t \in Threads, ThreadEnds(t) PROVE Typed'
  BY <1>0, <1>3, CmdsStay, AppStays, QueuesStay, CountsStay, LogStays, PrintStays, DoneStays DEF ThreadEnds, Typed, logVars
<1>4. CASE StopManager
  BY <1>0, <1>4, CmdsStay, AppStays, QueuesStay, CountsStay, LogStays, PrintStays, DoneStays DEF StopManager, Typed, logVars
<1>5. CASE FreeManager
  <2>1. CmdTypes'
    BY <1>0, <1>5, FewerCmds DEF FreeManager, Typed
  <2>2. QueueTypes'
    BY <1>5 DEF FreeManager, QueueTypes
  <2>3. AppTypes'
    BY <1>0, <1>5 DEF FreeManager, Typed, AppTypes, appVars
  <2>4. DoneTypes'
    BY <1>0, <1>5 DEF FreeManager, Typed, DoneTypes
  <2> QED  BY <1>0, <1>5, <2>1, <2>2, <2>3, <2>4, CmdsStay, AppStays, QueuesStay, CountsStay, LogStays, PrintStays, DoneStays DEF FreeManager, Typed, logVars
<1>6. CASE PrintStep
  <2>1. CASE TakeHeader \/ TakeText
    <3>1. prints # <<>> /\ prints' = Tail(prints) /\ ppc' = ppc
      BY <2>1 DEF TakeHeader, TakeText
    <3>2. Tail(prints) \in Seq(0 .. 2) /\ prints[1] \in 0 .. 2
      BY <1>0, <3>1, TailHolds DEF Typed, PrintTypes
    <3>5. due' \in 0 .. 2
      BY <1>0, <2>1, <3>2 DEF TakeHeader, TakeText, Typed, PrintTypes
    <3>6. wrong' \subseteq {"order", "text", "stray"} /\ owed' = owed
      BY <1>0, <2>1 DEF TakeHeader, TakeText, Typed, DoneTypes
    <3>3. due' \in 0 .. 2 /\ wrong' \subseteq {"order", "text", "stray"} /\ owed' = owed
      BY <3>5, <3>6
    <3>4. PrintTypes' /\ DoneTypes'
      BY <1>0, <3>1, <3>2, <3>3 DEF Typed, PrintTypes, DoneTypes
    <3> QED  BY <1>0, <2>1, <3>4, CmdsStay, AppStays, QueuesStay, CountsStay, LogStays, PrintStays, DoneStays DEF TakeHeader, TakeText, Typed, logVars
  <2>2. CASE PrintEnds
    <3>1. PrintTypes'
      BY <1>0, <2>2 DEF PrintEnds, Typed, PrintTypes
    <3> QED  BY <1>0, <2>2, <3>1, CmdsStay, AppStays, QueuesStay, CountsStay, LogStays, PrintStays, DoneStays DEF PrintEnds, Typed, logVars
  <2> QED  BY <1>6, <2>1, <2>2 DEF PrintStep
<1>7. CASE UNCHANGED vars
  BY <1>0, <1>7, CmdsStay, AppStays, QueuesStay, CountsStay, LogStays, PrintStays, DoneStays DEF vars, Typed, logVars
<1> QED  BY <1>0, <1>1, <1>2, <1>3, <1>4, <1>5, <1>6, <1>7, CallStepTyped, LogStepTyped DEF Next
-----------------------------------------------------------------------------
(***************************************************************************)
(* The log thread: where it is, what it holds, and what the last pass has  *)
(* found.                                                                  *)
(***************************************************************************)

(* A step that does not concern it. *)
LEMMA LogUntouched ==
  ASSUME LogInv, UNCHANGED <<lpc, lhand, todo, busy, last, managerRuns, cmdq>>
  PROVE  LogInv'
BY DEF LogInv, Now, Contains

(* Which steps of the others do not. *)
LEMMA AppOrPrint ==
  ASSUME NEW t \in Threads,
         \/ Begin(t) \/ BeginDestroy \/ GetRecycled(t) \/ GotCommand(t) \/ WaitForAcks(t) \/ Count(t)
         \/ Refused(t) \/ FreeRecycled(t) \/ ThreadEnds(t) \/ PrintStep \/ UNCHANGED vars
  PROVE  UNCHANGED <<lpc, lhand, todo, busy, last, managerRuns, cmdq>>
<1>1. CASE Begin(t) \/ BeginDestroy
  BY <1>1 DEF Begin, BeginDestroy, Calls, logVars, queueVars
<1>2. CASE GetRecycled(t) \/ GotCommand(t) \/ WaitForAcks(t) \/ Count(t)
  BY <1>2 DEF GetRecycled, GotCommand, WaitForAcks, Count, logVars, queueVars
<1>3. CASE Refused(t) \/ FreeRecycled(t) \/ ThreadEnds(t) \/ UNCHANGED vars
  BY <1>3 DEF Refused, FreeRecycled, ThreadEnds, logVars, queueVars, vars
<1>4. CASE PrintStep
  BY <1>4 DEF PrintStep, TakeHeader, TakeText, PrintEnds, logVars, queueVars
<1> QED  BY <1>1, <1>2, <1>3, <1>4

(* A command in a queue is not None. *)
LEMMA QueuedIsCmd ==
  ASSUME TypeOK, PlacesInv, NEW t \in Threads, cmdq[t] # <<>>
  PROVE  cmdq[t][1] # None /\ cmdq[t][1] \in DOMAIN cmds
<1>1. <<"cmdq", t>> \in Places /\ Held[<<"cmdq", t>>] = Range(cmdq[t])
  BY DEF Places, Kinds, Held, At
<1>2. Range(cmdq[t]) \subseteq DOMAIN cmds
  BY <1>1 DEF PlacesInv, OnePlace
<1>3. cmdq[t][1] \in Range(cmdq[t])
  BY TailHolds DEF TypeOK, QueueTypes
<1> QED  BY <1>2, <1>3 DEF TypeOK, CmdTypes

(* The thread it visits. *)
LEMMA NowIsThread ==
  ASSUME TypeOK, todo # <<>>
  PROVE  /\ Now \in Threads /\ Tail(todo) \in Seq(Threads)
         /\ \A t : Contains(todo, t) => t = Now \/ Contains(Tail(todo), t)
<1>1. todo \in Seq(Threads) /\ Tail(todo) \in Seq(Threads) /\ todo[1] \in Threads
      /\ Range(todo) = {todo[1]} \cup Range(Tail(todo))
  BY TailHolds DEF TypeOK, LogTypes
<1>2. \A s \in Seq(Threads) : \A x : Contains(s, x) <=> x \in Range(s)
  BY DEF Contains, Range
<1> QED  BY <1>1, <1>2 DEF Now

(* It is one of the list, and so are those behind it. *)
LEMMA NowInList ==
  ASSUME TypeOK, todo # <<>>
  PROVE  Contains(todo, Now)
<1>1. todo \in Seq(Threads) /\ Len(todo) \in Nat \ {0}
  BY TailHolds DEF TypeOK, LogTypes
<1> QED  BY <1>1 DEF Contains, Now

(* It is one of the list, and so are those behind it. *)
LEMMA TailInList ==
  ASSUME TypeOK, todo # <<>>, NEW t, Contains(Tail(todo), t)
  PROVE  Contains(todo, t)
<1>1. todo \in Seq(Threads) /\ Tail(todo) \in Seq(Threads) /\ Range(todo) = {todo[1]} \cup Range(Tail(todo))
  BY TailHolds DEF TypeOK, LogTypes
<1>2. \A s \in Seq(Threads) : \A x : Contains(s, x) <=> x \in Range(s)
  BY DEF Contains, Range
<1> QED  BY <1>1, <1>2

(* The steps of the log thread keep it. *)
LEMMA LogStepLog ==
  ASSUME TypeOK, PlacesInv, AppInv, LogInv, LogStep
  PROVE  LogInv'
<1>1. CASE LogStart
  BY <1>1 DEF LogStart, LogInv, CmdLabels, queueVars
<1>2. CASE PassBegins
  <2>1. \A t \in Threads : ~managerRuns => Contains(head, t) \/ cmdq[t] = <<>>
    BY DEF AppInv, ThreadOK
  <2>2. lpc = "pass" /\ lpc' = "visit" /\ last' = ~managerRuns /\ todo' = head /\ busy' = FALSE
        /\ lhand' = lhand /\ cmdq' = cmdq /\ managerRuns' = managerRuns
    BY <1>2 DEF PassBegins, queueVars
  <2> QED  BY <2>1, <2>2 DEF LogInv, CmdLabels
<1>3. CASE PassEnds
  <2>1. \A t \in Threads : Contains(head, t) \/ cmdq[t] = <<>>
    BY DEF AppInv, ThreadOK
  <2>2. lpc = "visit" /\ todo = <<>> /\ UNCHANGED <<lhand, cmdq, managerRuns, last>>
    BY <1>3 DEF PassEnds, queueVars
  <2>3. CASE ~last
    <3>1. lpc' = "pass" /\ UNCHANGED <<todo, busy>>
      BY <1>3, <2>3 DEF PassEnds
    <3> QED  BY <2>2, <2>3, <3>1 DEF LogInv, CmdLabels
  <2>4. CASE last /\ busy
    <3>1. todo' = head /\ busy' = FALSE /\ lpc' = lpc
      BY <1>3, <2>4 DEF PassEnds
    <3> QED  BY <2>1, <2>2, <2>4, <3>1 DEF LogInv, CmdLabels
  <2>5. CASE last /\ ~busy
    <3>1. lpc' = "done" /\ UNCHANGED <<todo, busy>>
      BY <1>3, <2>5 DEF PassEnds
    <3> QED  BY <2>2, <2>5, <3>1 DEF LogInv, CmdLabels
  <2> QED  BY <2>3, <2>4, <2>5
<1>4. CASE Pop
  <2>1. lpc = "visit" /\ todo # <<>> /\ busy' = TRUE /\ lpc' = "do" /\ lhand' = cmdq[Now][1] /\ cmdq[Now] # <<>>
        /\ UNCHANGED <<todo, last, managerRuns>>
    BY <1>4 DEF Pop
  <2>2. lhand' # None
    BY <2>1, NowIsThread, QueuedIsCmd
  <2> QED  BY <2>1, <2>2 DEF LogInv, CmdLabels
<1>5. CASE FindsNothing
  <2>1. lpc = "visit" /\ todo # <<>> /\ cmdq[Now] = <<>> /\ lpc' = "look"
        /\ UNCHANGED <<lhand, todo, busy, last, managerRuns, cmdq>>
    BY <1>5 DEF FindsNothing, queueVars
  <2> QED  BY <2>1 DEF LogInv, CmdLabels, Now
<1>6. CASE LooksAtThread
  <2>1. lpc = "look" /\ VisitGoesOn /\ UNCHANGED <<lhand, busy, last, managerRuns, cmdq>>
    BY <1>6 DEF LooksAtThread, queueVars
  <2>2. todo # <<>> /\ lhand = None
    BY <2>1 DEF LogInv, CmdLabels
  <2>3. CASE last
    <3>1. lpc' = "visit" /\ todo' = Tail(todo) /\ cmdq[Now] = <<>>
      BY <2>1, <2>3 DEF VisitGoesOn, LogInv
    <3>2. last /\ ~busy => \A t \in Threads : Contains(Tail(todo), t) \/ cmdq[t] = <<>>
      BY <2>2, <3>1, NowIsThread DEF LogInv
    <3> QED  BY <2>1, <2>2, <2>3, <3>1, <3>2 DEF LogInv, CmdLabels
  <2>4. CASE ~last
    <3>1. lpc' = "hand_back" /\ todo' = todo
      BY <2>1, <2>4 DEF VisitGoesOn
    <3> QED  BY <2>1, <2>2, <2>4, <3>1 DEF LogInv, CmdLabels
  <2> QED  BY <2>3, <2>4
<1>7. CASE WriteOrReset \/ Flush \/ Close \/ Ack
  <2>1. lpc \in {"do", "ack"} /\ lpc' \in {"ack", "header", "recycle"}
        /\ UNCHANGED <<lhand, todo, busy, last, managerRuns, cmdq>>
    BY <1>7 DEF WriteOrReset, Flush, Close, Ack, queueVars
  <2> QED  BY <2>1 DEF LogInv, CmdLabels
<1>8. CASE PrintPiece
  <2>1. AfterPiece["header"] = "prefix" /\ AfterPiece["prefix"] = "text" /\ AfterPiece["text"] = "recycle"
        /\ DOMAIN AfterPiece = {"header", "prefix", "text"}
    BY DEF AfterPiece
  <2>2. lpc \in {"header", "prefix", "text"} /\ lpc' \in {lpc, "prefix", "text", "recycle"}
        /\ UNCHANGED <<lhand, todo, busy, last, managerRuns, cmdq>>
    BY <1>8, <2>1 DEF PrintPiece, queueVars
  <2> QED  BY <2>2 DEF LogInv, CmdLabels
<1>9. CASE Recycle
  <2>1. lpc = "recycle" /\ lhand' = None /\ VisitGoesOn /\ UNCHANGED <<busy, last, managerRuns, cmdq>>
    BY <1>9 DEF Recycle
  <2>2. busy /\ todo # <<>>
    BY <2>1 DEF LogInv, CmdLabels
  <2>3. lpc' \in {"visit", "hand_back"} /\ (last => lpc' = "visit") /\ (lpc' = "hand_back" => todo' = todo)
    BY <2>1 DEF VisitGoesOn
  <2> QED  BY <2>1, <2>2, <2>3 DEF LogInv, CmdLabels
<1>10. CASE HandBack
  <2>1. lpc = "hand_back" /\ UNCHANGED <<lhand, busy, last, managerRuns, cmdq>>
        /\ lpc' \in {"visit", "hand_back"} /\ (lpc' = "hand_back" => todo' = todo)
    BY <1>10 DEF HandBack
  <2> QED  BY <2>1 DEF LogInv, CmdLabels
<1> QED  BY <1>1, <1>2, <1>3, <1>4, <1>5, <1>6, <1>7, <1>8, <1>9, <1>10 DEF LogStep

(* So does every step. *)
LEMMA NextLog ==
  ASSUME TypeOK, PlacesInv, AppInv, LogInv, [Next]_vars
  PROVE  LogInv'
<1>1. ASSUME NEW t \in Threads, Push(t) PROVE LogInv'
  <2>1. managerRuns /\ ~last
    BY <1>1 DEF Push, AppInv, LogInv
  <2>2. UNCHANGED <<lpc, lhand, todo, busy, last, managerRuns>>
    BY <1>1 DEF Push, logVars
  <2> QED  BY <2>1, <2>2 DEF LogInv
<1>2. CASE StopManager
  <2>1. managerRuns /\ managerRuns' = FALSE /\ UNCHANGED <<lpc, lhand, todo, busy, last, cmdq>>
    BY <1>2 DEF StopManager, logVars, queueVars
  <2>2. ~last /\ lpc # "done"
    BY <2>1 DEF LogInv
  <2> QED  BY <2>1, <2>2 DEF LogInv
<1>3. CASE FreeManager
  <2>1. lpc = "done" /\ cmdq' = [t \in Threads |-> <<>>] /\ UNCHANGED <<lpc, lhand, todo, busy, last, managerRuns>>
    BY <1>3 DEF FreeManager, logVars
  <2> QED  BY <2>1 DEF LogInv
<1>4. ASSUME NEW t \in Threads,
             \/ Begin(t) \/ BeginDestroy \/ GetRecycled(t) \/ GotCommand(t) \/ WaitForAcks(t) \/ Count(t)
             \/ Refused(t) \/ FreeRecycled(t) \/ ThreadEnds(t) \/ PrintStep \/ UNCHANGED vars
      PROVE  LogInv'
  BY <1>4, AppOrPrint, LogUntouched
<1>5. ASSUME NEW t \in Threads, CallStep(t) PROVE LogInv'
  BY <1>1, <1>4, <1>5 DEF CallStep
<1> QED  BY <1>2, <1>3, <1>4, <1>5, LogStepLog, LoggerAssumption DEF Next
-----------------------------------------------------------------------------
(***************************************************************************)
(* The threads and the calls they make.                                    *)
(***************************************************************************)

(* What one place for each command means for the commands held. *)
LEMMA Apart ==
  ASSUME PlacesInv, NEW t \in Threads
  PROVE  /\ hand[t] # None => hand[t] \in DOMAIN cmds
         /\ lhand # None => lhand \in DOMAIN cmds
         /\ Range(cmdq[t]) \subseteq DOMAIN cmds /\ Range(rcyq[t]) \subseteq DOMAIN cmds
         /\ Range(cache[t]) \subseteq DOMAIN cmds
         /\ hand[t] # None => hand[t] # lhand
         /\ lhand # None => lhand \notin Range(cmdq[t]) /\ lhand \notin Range(rcyq[t]) /\ lhand \notin Range(cache[t])
         /\ \A u \in Threads :
              /\ hand[t] # None => /\ hand[t] \notin Range(cmdq[u])
                                  /\ hand[t] \notin Range(rcyq[u]) /\ hand[t] \notin Range(cache[u])
              /\ u # t /\ hand[t] # None => hand[u] # hand[t]
              /\ Range(cmdq[t]) \cap Range(rcyq[u]) = {} /\ Range(cmdq[t]) \cap Range(cache[u]) = {}
              /\ Range(rcyq[t]) \cap Range(cache[u]) = {}
              /\ u # t => /\ Range(cmdq[t]) \cap Range(cmdq[u]) = {} /\ Range(rcyq[t]) \cap Range(rcyq[u]) = {}
                          /\ Range(cache[t]) \cap Range(cache[u]) = {}
<1> USE DEF PlacesInv, OnePlace
<1>1. \A u \in Threads : \A k \in Kinds : <<k, u>> \in Places /\ Held[<<k, u>>] = At(k, u)
  BY DEF Places, Held
<1>2. \A u, v \in Threads : \A k, l \in Kinds :
        /\ At(k, u) \subseteq DOMAIN cmds
        /\ k # l \/ u # v => At(k, u) \cap At(l, v) = {}
  <2> SUFFICES ASSUME NEW u \in Threads, NEW v \in Threads, NEW k \in Kinds, NEW l \in Kinds
               PROVE  At(k, u) \subseteq DOMAIN cmds /\ (k # l \/ u # v => At(k, u) \cap At(l, v) = {})
    OBVIOUS
  <2>1. k # l \/ u # v => <<k, u>> # <<l, v>>
    OBVIOUS
  <2>2. <<k, u>> \in Places /\ <<l, v>> \in Places /\ Held[<<k, u>>] = At(k, u) /\ Held[<<l, v>>] = At(l, v)
    BY <1>1
  <2> HIDE DEF Places, Held, At
  <2>3. PICK p, q : p = <<k, u>> /\ q = <<l, v>>
    OBVIOUS
  <2>4. Held[p] \subseteq DOMAIN cmds /\ (p # q => Held[p] \cap Held[q] = {})
    BY <2>2, <2>3
  <2> QED  BY <2>1, <2>2, <2>3, <2>4
<1>3. \A u \in Threads :
        /\ At("hand", u) = {hand[u]} \ {None} /\ At("cmdq", u) = Range(cmdq[u])
        /\ At("rcyq", u) = Range(rcyq[u]) /\ At("cache", u) = Range(cache[u])
  BY DEF At
<1>4. At("log", Main) = {lhand} \ {None} /\ Main \in Threads
  BY LoggerAssumption DEF At
<1>5. {"hand", "log", "cmdq", "rcyq", "cache"} = Kinds
  BY DEF Kinds
<1>6. /\ hand[t] # None => hand[t] \in DOMAIN cmds
      /\ lhand # None => lhand \in DOMAIN cmds
      /\ Range(cmdq[t]) \subseteq DOMAIN cmds /\ Range(rcyq[t]) \subseteq DOMAIN cmds
      /\ Range(cache[t]) \subseteq DOMAIN cmds
  BY <1>2, <1>3, <1>4, <1>5
<1>7. /\ hand[t] # None => hand[t] # lhand
      /\ lhand # None => lhand \notin Range(cmdq[t]) /\ lhand \notin Range(rcyq[t]) /\ lhand \notin Range(cache[t])
  <2>1. /\ At("hand", t) \cap At("log", Main) = {} /\ At("cmdq", t) \cap At("log", Main) = {}
        /\ At("rcyq", t) \cap At("log", Main) = {} /\ At("cache", t) \cap At("log", Main) = {}
    BY <1>2, <1>4, <1>5
  <2> QED  BY <1>3, <1>4, <2>1
<1>8. ASSUME NEW u \in Threads
      PROVE  /\ hand[t] # None => /\ hand[t] \notin Range(cmdq[u])
                                  /\ hand[t] \notin Range(rcyq[u]) /\ hand[t] \notin Range(cache[u])
             /\ u # t /\ hand[t] # None => hand[u] # hand[t]
             /\ Range(cmdq[t]) \cap Range(rcyq[u]) = {} /\ Range(cmdq[t]) \cap Range(cache[u]) = {}
             /\ Range(rcyq[t]) \cap Range(cache[u]) = {}
             /\ u # t => /\ Range(cmdq[t]) \cap Range(cmdq[u]) = {} /\ Range(rcyq[t]) \cap Range(rcyq[u]) = {}
                         /\ Range(cache[t]) \cap Range(cache[u]) = {}
  <2>1. /\ At("hand", t) \cap At("cmdq", u) = {} /\ At("hand", t) \cap At("rcyq", u) = {}
        /\ At("hand", t) \cap At("cache", u) = {} /\ At("cmdq", t) \cap At("rcyq", u) = {}
        /\ At("cmdq", t) \cap At("cache", u) = {} /\ At("rcyq", t) \cap At("cache", u) = {}
    BY <1>2, <1>5
  <2>2. u # t => /\ At("hand", t) \cap At("hand", u) = {} /\ At("cmdq", t) \cap At("cmdq", u) = {}
                 /\ At("rcyq", t) \cap At("rcyq", u) = {} /\ At("cache", t) \cap At("cache", u) = {}
    BY <1>2, <1>5
  <2> QED  BY <1>3, <2>1, <2>2
<1> QED  BY <1>6, <1>7, <1>8

(* A step that changes no thread, no command held and nothing of a thread outside the list. *)
LEMMA ThreadsUntouched ==
  ASSUME AppInv, UNCHANGED <<pc, hand, call, head, managerRuns>>,
         \A t \in Threads : hand[t] # None => cmds'[hand[t]] = cmds[hand[t]],
         \A t \in Threads : /\ Contains(todo', t) => (Contains(todo, t) \/ Contains(head, t))
                            /\ ~Contains(head, t) => cmdq'[t] = <<>> /\ rcyq'[t] = <<>> /\ cache'[t] = <<>>,
         head = <<>> => lpc' = "done" /\ cmds' = <<>>
  PROVE  AppInv'
<1>1. ASSUME NEW t \in Threads PROVE ThreadOK(t)'
  <2>1. ThreadOK(t)
    BY DEF AppInv
  <2>2. /\ Contains(todo', t) => Contains(head', t)
        /\ ~Contains(head', t) => pc'[t] = "idle" /\ cmdq'[t] = <<>> /\ rcyq'[t] = <<>> /\ cache'[t] = <<>>
    BY <2>1 DEF ThreadOK
  <2>3. pc'[t] \in {"wait", "push"} => hand'[t] # None /\ cmds'[hand'[t]] = call'[t]
    BY <2>1 DEF ThreadOK
  <2>4. pc' = pc /\ hand' = hand /\ call' = call
    OBVIOUS
  <2> QED  BY <2>1, <2>2, <2>3, <2>4, Zenon DEF ThreadOK
<1> QED  BY <1>1 DEF AppInv, Closing, Others

(* Where a thread's queues are empty they stay so. *)
LEMMA EmptyOutside ==
  ASSUME AppInv, NEW t \in Threads, ~Contains(head, t)
  PROVE  cmdq[t] = <<>> /\ rcyq[t] = <<>> /\ cache[t] = <<>>
BY DEF AppInv, ThreadOK

(* The log thread leaves the threads as they are. *)
LEMMA LogStepApp ==
  ASSUME TypeOK, PlacesInv, AppInv, LogInv, LogStep
  PROVE  AppInv'
<1>1. UNCHANGED <<pc, hand, call, head, managerRuns>>
  BY DEF LogStep, LogStart, PassBegins, PassEnds, Pop, FindsNothing, LooksAtThread, WriteOrReset, Flush, Close,
     Ack, PrintPiece, Recycle, HandBack, appVars
<1>2. lpc # "done" /\ head # <<>>
  BY DEF LogStep, LogStart, PassBegins, PassEnds, Pop, FindsNothing, LooksAtThread, WriteOrReset, Flush, Close,
     Ack, PrintPiece, Recycle, HandBack, AfterPiece, AppInv
<1>3. todo' \in {todo, head} \/ (todo # <<>> /\ todo' = Tail(todo))
  BY DEF LogStep, LogStart, PassBegins, PassEnds, Pop, FindsNothing, LooksAtThread, WriteOrReset, Flush, Close,
     Ack, PrintPiece, Recycle, HandBack, VisitGoesOn, LogInv, CmdLabels
<1>4. \A t \in Threads : Contains(todo', t) => Contains(todo, t) \/ Contains(head, t)
  <2>1. CASE todo' \in {todo, head}
    BY <2>1
  <2>2. CASE todo # <<>> /\ todo' = Tail(todo)
    BY <2>2, TailInList
  <2> QED  BY <1>3, <2>1, <2>2
<1>5. \A t \in Threads : hand[t] # None => cmds'[hand[t]] = cmds[hand[t]]
  <2> SUFFICES ASSUME NEW t \in Threads, hand[t] # None PROVE cmds'[hand[t]] = cmds[hand[t]]
    OBVIOUS
  <2>1. hand[t] \in DOMAIN cmds /\ hand[t] # lhand
    BY Apart
  <2>2. CASE Recycle
    BY <2>1, <2>2 DEF Recycle
  <2>3. CASE LooksAtThread
    <3>1. todo # <<>>
      BY <2>3 DEF LooksAtThread, LogInv
    <3>2. hand[t] \notin Range(cache[Now]) \cup Range(rcyq[Now])
      BY <3>1, NowIsThread, Apart
    <3> QED  BY <2>1, <2>3, <3>2 DEF LooksAtThread
  <2>4. CASE UNCHANGED cmds
    BY <2>4
  <2> QED
    BY <2>2, <2>3, <2>4 DEF LogStep, LogStart, PassBegins, PassEnds, Pop, FindsNothing, WriteOrReset, Flush,
       Close, Ack, PrintPiece, HandBack
<1>6. ASSUME NEW t \in Threads, ~Contains(head, t)
      PROVE  cmdq'[t] = <<>> /\ rcyq'[t] = <<>> /\ cache'[t] = <<>>
  <2>1. cmdq[t] = <<>> /\ rcyq[t] = <<>> /\ cache[t] = <<>> /\ ~Contains(todo, t)
    BY <1>6, EmptyOutside DEF AppInv, ThreadOK
  <2>2. CASE UNCHANGED queueVars
    BY <2>1, <2>2 DEF queueVars
  <2>3. CASE Pop \/ LooksAtThread \/ Recycle \/ HandBack
    <3>1. todo # <<>>
      BY <2>3 DEF Pop, LooksAtThread, Recycle, HandBack, LogInv, CmdLabels
    <3>2. Now # t
      BY <2>1, <3>1, NowInList
    <3>3. \A x : /\ [cmdq EXCEPT ![Now] = x][t] = cmdq[t] /\ [rcyq EXCEPT ![Now] = x][t] = rcyq[t]
                 /\ [cache EXCEPT ![Now] = x][t] = cache[t]
      BY <3>2 DEF TypeOK, QueueTypes
    <3> QED  BY <2>1, <2>3, <3>3 DEF Pop, LooksAtThread, Recycle, HandBack, queueVars
  <2> QED
    BY <2>2, <2>3 DEF LogStep, LogStart, PassBegins, PassEnds, FindsNothing, WriteOrReset, Flush,
       Close, Ack, PrintPiece
<1> QED  BY <1>1, <1>2, <1>4, <1>5, <1>6, ThreadsUntouched

(* A step of one thread. *)
LEMMA OneThread ==
  ASSUME AppInv, NEW t \in Threads, ThreadOK(t)',
         \A u \in Threads : u # t =>
           /\ pc'[u] = pc[u] /\ hand'[u] = hand[u] /\ call'[u] = call[u]
           /\ hand[u] # None => cmds'[hand[u]] = cmds[hand[u]]
           /\ Contains(head, u) => Contains(head', u)
           /\ Contains(todo', u) => Contains(todo, u)
           /\ cmdq'[u] = cmdq[u] /\ rcyq'[u] = rcyq[u] /\ cache'[u] = cache[u],
         Closing' => \A u \in Others(Main) : pc'[u] = "idle",
         ~managerRuns' => Closing' /\ \A u \in Threads : pc'[u] = "idle",
         head' # <<>>
  PROVE  AppInv'
<1>1. ASSUME NEW u \in Threads, u # t PROVE ThreadOK(u)'
  <2>1. ThreadOK(u) /\ pc'[u] = pc[u] /\ hand'[u] = hand[u] /\ call'[u] = call[u]
    BY <1>1 DEF AppInv
  <2>2. pc[u] \in {"wait", "push"} => hand[u] # None /\ cmds'[hand[u]] = call[u]
    BY <1>1, <2>1 DEF ThreadOK
  <2>3. /\ Contains(todo', u) => Contains(head', u)
        /\ ~Contains(head', u) => pc[u] = "idle" /\ cmdq'[u] = <<>> /\ rcyq'[u] = <<>> /\ cache'[u] = <<>>
    BY <1>1, <2>1 DEF ThreadOK
  <2> QED  BY <2>1, <2>2, <2>3, Zenon DEF ThreadOK
<1> QED  BY <1>1 DEF AppInv

(* A call begins. *)
LEMMA CallsApp ==
  ASSUME TypeOK, AppInv, NEW t \in Threads, NEW c \in CallType, Calls(t, c), MayCall(t),
         c.option = "close" => t = Main /\ c.block /\ \A u \in Others(Main) : pc[u] = "idle"
  PROVE  AppInv'
<1> DEFINE r == [c EXCEPT !.from = t, !.n = Len(calls[t])]
<1>1. r.from = t /\ r.option = c.option /\ r.block = c.block
  BY DEF CallType
<1>2. call' = [call EXCEPT ![t] = r] /\ pc' = [pc EXCEPT ![t] = "get"] /\ head' = Registered(t)
      /\ UNCHANGED <<cmds, hand, cmdq, rcyq, cache, managerRuns, todo>>
  BY DEF Calls, queueVars, logVars
<1> HIDE DEF r
<1>3. Contains(head', t) /\ head' # <<>> /\ \A u : Contains(head, u) => Contains(head', u)
  <2>1. head \in Seq(Threads)
    BY DEF TypeOK, AppTypes
  <2>2. Contains(head, t) => head # <<>>
    BY DEF Contains
  <2> QED  BY <1>2, <2>1, <2>2, Registers DEF Registered
<1>4. pc \in [Threads -> {"idle", "get", "wait", "push", "count"}] /\ call \in [Threads -> CallType]
  BY DEF TypeOK, AppTypes
<1>5. pc'[t] = "get" /\ call'[t] = r
  BY <1>2, <1>4
<1>6. ThreadOK(t)'
  <2>1. r.option = "close" => t = Main /\ r.block
    BY <1>1, Zenon
  <2> QED  BY <1>1, <1>3, <1>5, <2>1 DEF ThreadOK
<1>7. Closing' => \A u \in Others(Main) : pc'[u] = "idle"
  <2>1. ASSUME NEW u \in Threads, call'[u].option = "close", NEW v \in Others(Main) PROVE pc'[v] = "idle"
    <3>1. u = t
      BY <1>2, <1>4, <2>1 DEF MayCall, Closing
    <3>2. c.option = "close"
      BY <1>1, <1>5, <2>1, <3>1
    <3> QED  BY <1>2, <1>4, <3>2 DEF Others
  <2> QED  BY <2>1 DEF Closing
<1>8. managerRuns'
  BY <1>2 DEF MayCall
<1>9. \A u \in Threads : u # t =>
        /\ pc'[u] = pc[u] /\ hand'[u] = hand[u] /\ call'[u] = call[u]
        /\ hand[u] # None => cmds'[hand[u]] = cmds[hand[u]]
        /\ Contains(head, u) => Contains(head', u)
        /\ Contains(todo', u) => Contains(todo, u)
        /\ cmdq'[u] = cmdq[u] /\ rcyq'[u] = rcyq[u] /\ cache'[u] = cache[u]
  BY <1>2, <1>3, <1>4
<1> QED  BY <1>3, <1>6, <1>7, <1>8, <1>9, OneThread

(* The steps of a call. *)
LEMMA CallStepApp ==
  ASSUME TypeOK, PlacesInv, AppInv, LogInv, NEW t \in Threads, CallStep(t)
  PROVE  AppInv'
<1>1. pc[t] \in {"get", "wait", "push", "count"} /\ UNCHANGED <<head, managerRuns, todo>>
  BY DEF CallStep, GetRecycled, GotCommand, WaitForAcks, Push, Count, Refused, FreeRecycled, logVars
<1>2. managerRuns /\ head # <<>> /\ Contains(head, t) /\ ThreadOK(t)
  BY <1>1 DEF AppInv, ThreadOK
<1>3. /\ pc \in [Threads -> {"idle", "get", "wait", "push", "count"}] /\ call \in [Threads -> CallType]
      /\ hand \in [Threads -> Nat] /\ cmdq \in [Threads -> Seq(Nat)] /\ rcyq \in [Threads -> Seq(Nat)]
      /\ cache \in [Threads -> Seq(Nat)]
  BY DEF TypeOK, AppTypes, QueueTypes
<1>4. \A u \in Threads : u # t =>
        /\ pc'[u] = pc[u] /\ hand'[u] = hand[u] /\ call'[u] = call[u]
        /\ cmdq'[u] = cmdq[u] /\ rcyq'[u] = rcyq[u] /\ cache'[u] = cache[u]
  BY <1>3 DEF CallStep, GetRecycled, GotCommand, WaitForAcks, Push, Count, Refused, FreeRecycled, queueVars, appVars
<1>5. \A u \in Threads : u # t /\ hand[u] # None => cmds'[hand[u]] = cmds[hand[u]]
  <2> SUFFICES ASSUME NEW u \in Threads, u # t, hand[u] # None PROVE cmds'[hand[u]] = cmds[hand[u]]
    OBVIOUS
  <2>1. hand[u] \in DOMAIN cmds /\ hand[u] # hand[t] /\ hand[u] \notin Range(rcyq[t])
    BY Apart
  <2>2. CASE GetRecycled(t) \/ Refused(t)
    BY <2>1, <2>2 DEF GetRecycled, Refused, Delete
  <2>3. CASE GotCommand(t)
    <3> DEFINE c == IF hand[t] = None THEN NewCmd ELSE hand[t]
    <3>1. c # hand[u]
      BY <2>1, NewCmdIsNew DEF TypeOK, CmdTypes
    <3> HIDE DEF c
    <3>2. cmds' = [d \in DOMAIN cmds \cup {c} |-> IF d = c THEN call[t] ELSE cmds[d]]
      BY <2>3 DEF GotCommand, c
    <3> QED  BY <2>1, <3>1, <3>2
  <2>4. CASE FreeRecycled(t)
    <3>1. rcyq[t][1] \in Range(rcyq[t])
      BY <1>3, <2>4, TailHolds DEF FreeRecycled
    <3> QED  BY <2>1, <2>4, <3>1 DEF FreeRecycled, Delete
  <2>5. CASE WaitForAcks(t) \/ Push(t) \/ Count(t)
    BY <2>5 DEF WaitForAcks, Push, Count
  <2> QED  BY <2>2, <2>3, <2>4, <2>5 DEF CallStep
<1>6. call'[t] \in {call[t], NoCall} /\ NoCall.option # "close"
  BY <1>3 DEF CallStep, GetRecycled, GotCommand, WaitForAcks, Push, Count, Refused, FreeRecycled, appVars, NoCall
<1>7. Closing' => \A u \in Others(Main) : pc'[u] = "idle"
  <2> SUFFICES ASSUME NEW u \in Threads, call'[u].option = "close", NEW v \in Others(Main) PROVE pc'[v] = "idle"
    BY DEF Closing
  <2>1. call[u].option = "close"
    BY <1>4, <1>6
  <2>2. \A w \in Others(Main) : pc[w] = "idle"
    BY <2>1 DEF AppInv, Closing
  <2>3. t = Main
    BY <1>1, <2>2 DEF Others
  <2> QED  BY <1>4, <2>2, <2>3 DEF Others
<1>8. ThreadOK(t)'
  <2>1. CASE GetRecycled(t)
    BY <1>1, <1>2, <1>3, <2>1 DEF GetRecycled, ThreadOK
  <2>2. CASE GotCommand(t)
    <3> DEFINE c == IF hand[t] = None THEN NewCmd ELSE hand[t]
    <3>1. c # None
      BY NewCmdIsNew DEF TypeOK, CmdTypes
    <3> HIDE DEF c
    <3>2. /\ cmds' = [d \in DOMAIN cmds \cup {c} |-> IF d = c THEN call[t] ELSE cmds[d]]
          /\ hand' = [hand EXCEPT ![t] = c] /\ call' = call
          /\ pc' = [pc EXCEPT ![t] = IF call[t].option = "close" THEN "wait" ELSE "push"]
      BY <2>2 DEF GotCommand, c
    <3>3. pc'[t] \in {"wait", "push"} /\ hand'[t] = c /\ cmds'[c] = call[t] /\ call'[t] = call[t]
          /\ (pc'[t] = "wait" => call[t].option = "close")
      BY <1>3, <3>2
    <3> QED  BY <1>1, <1>2, <3>1, <3>3 DEF ThreadOK
  <2>3. CASE WaitForAcks(t)
    BY <1>1, <1>2, <1>3, <2>3 DEF WaitForAcks, ThreadOK
  <2>4. CASE Push(t)
    <3>1. pc' = [pc EXCEPT ![t] = IF call[t].option = "close" THEN "idle" ELSE "count"]
          /\ hand' = [hand EXCEPT ![t] = None] /\ call' = call
      BY <2>4 DEF Push
    <3>2. pc'[t] \in {"idle", "count"} /\ hand'[t] = None /\ call'[t] = call[t]
          /\ (pc'[t] = "count" => call[t].option # "close")
      BY <1>3, <3>1
    <3> QED  BY <1>1, <1>2, <3>2 DEF ThreadOK
  <2>5. CASE Count(t)
    BY <1>1, <1>2, <1>3, <1>6, <2>5 DEF Count, ThreadOK
  <2>6. CASE Refused(t)
    BY <1>1, <1>2, <1>3, <1>6, <2>6 DEF Refused, ThreadOK
  <2>7. CASE FreeRecycled(t)
    <3>1. hand[t] # None /\ rcyq[t] # <<>> /\ hand[t] \in DOMAIN cmds /\ hand[t] \notin Range(rcyq[t])
      BY <1>2, <2>7, Apart DEF FreeRecycled, ThreadOK
    <3>2. rcyq[t][1] # hand[t]
      BY <1>3, <3>1, TailHolds
    <3>3. cmds'[hand[t]] = cmds[hand[t]]
      BY <2>7, <3>1, <3>2 DEF FreeRecycled, Delete
    <3>4. pc' = pc /\ hand' = hand /\ call' = call
      BY <2>7 DEF FreeRecycled, appVars
    <3> QED  BY <1>1, <1>2, <3>1, <3>3, <3>4 DEF ThreadOK
  <2> QED  BY <2>1, <2>2, <2>3, <2>4, <2>5, <2>6, <2>7 DEF CallStep
<1> QED  BY <1>1, <1>2, <1>4, <1>5, <1>7, <1>8, OneThread

(* Every step keeps the threads in order. *)
LEMMA NextApp ==
  ASSUME TypeOK, PlacesInv, AppInv, LogInv, [Next]_vars
  PROVE  AppInv'
<1>1. ASSUME NEW t \in Threads, Begin(t) PROVE AppInv'
  <2>1. PICK option : option = Head(calls[t])
    OBVIOUS
  <2>2. option \in {"write", "flush", "reset"}
    BY <1>1, <2>1 DEF Begin, TypeOK, AppTypes
  <2>3. PICK block \in BOOLEAN : Calls(t, [NoCall EXCEPT !.option = option, !.block = block, !.shown = block])
    BY <1>1, <2>1 DEF Begin
  <2>4. [NoCall EXCEPT !.option = option, !.block = block, !.shown = block] \in CallType
        /\ [NoCall EXCEPT !.option = option, !.block = block, !.shown = block].option # "close"
    BY <2>2, LoggerAssumption DEF NoCall, CallType
  <2> QED  BY <1>1, <2>3, <2>4, CallsApp DEF Begin
<1>2. CASE BeginDestroy
  <2>1. [NoCall EXCEPT !.option = "close", !.block = TRUE] \in CallType
        /\ [NoCall EXCEPT !.option = "close", !.block = TRUE].block
    BY LoggerAssumption DEF NoCall, CallType
  <2> QED  BY <1>2, <2>1, CallsApp, LoggerAssumption DEF BeginDestroy
<1>3. ASSUME NEW t \in Threads, ThreadEnds(t) \/ PrintStep \/ UNCHANGED vars PROVE AppInv'
  <2>1. UNCHANGED <<pc, hand, call, head, managerRuns, cmds, cmdq, rcyq, cache, todo, lpc>>
    BY <1>3 DEF ThreadEnds, PrintStep, TakeHeader, TakeText, PrintEnds, vars, appVars, queueVars, logVars
  <2>2. head = <<>> => lpc' = "done" /\ cmds' = <<>>
    BY <2>1 DEF AppInv
  <2> QED  BY <2>1, <2>2, EmptyOutside, ThreadsUntouched
<1>4. CASE StopManager
  <2>1. Closing /\ (\A t \in Threads : pc[t] = "idle") /\ managerRuns /\ managerRuns' = FALSE
        /\ UNCHANGED <<pc, hand, call, head, cmds, cmdq, rcyq, cache, todo, lpc>>
    BY <1>4 DEF StopManager, appVars, queueVars, logVars
  <2>2. \A t \in Threads : ThreadOK(t)'
    BY <2>1 DEF AppInv, ThreadOK
  <2> QED  BY <2>1, <2>2 DEF AppInv, Closing, Others
<1>5. CASE FreeManager
  <2>1. /\ lpc = "done" /\ ~managerRuns /\ head' = <<>>
        /\ cmdq' = [t \in Threads |-> <<>>] /\ rcyq' = cmdq' /\ cache' = cmdq'
        /\ UNCHANGED <<pc, hand, call, managerRuns, todo, lpc>>
    BY <1>5 DEF FreeManager, appVars, logVars
  <2>2. todo = <<>> /\ lhand = None
    BY <2>1 DEF LogInv, CmdLabels
  <2>3. \A t \in Threads : pc[t] = "idle" /\ ThreadOK(t)
    BY <2>1 DEF AppInv
  <2>4. \A t \in Threads : ThreadOK(t)'
    <3>1. \A x : ~Contains(<<>>, x)
      BY DEF Contains
    <3> QED  BY <2>1, <2>2, <2>3, <3>1 DEF ThreadOK
  <2>5. cmds' = <<>>
    <3> DEFINE left == UNION {Range(cmdq[t]) \cup Range(rcyq[t]) \cup Range(cache[t]) : t \in Range(head)}
    <3>1. cmds' = [d \in DOMAIN cmds \ left |-> cmds[d]]
      BY <1>5 DEF FreeManager
    <3>2. \A c \in DOMAIN cmds : c \in left
      <4> SUFFICES ASSUME NEW c \in DOMAIN cmds PROVE c \in left
        OBVIOUS
      <4>1. PICK k \in Kinds, t \in Threads : c \in At(k, t)
        BY DEF PlacesInv, OnePlace, Held, Places
      <4>2. c \in Range(cmdq[t]) \cup Range(rcyq[t]) \cup Range(cache[t])
        BY <2>2, <2>3, <4>1 DEF At, Kinds, ThreadOK
      <4>3. Contains(head, t)
        <5>1. Range(<<>>) = {}
          BY DEF Range
        <5> QED  BY <4>2, <5>1, EmptyOutside
      <4>4. t \in Range(head)
        BY <4>3 DEF Contains, Range, TypeOK, AppTypes
      <4> QED  BY <4>2, <4>4
    <3>3. cmds' = [d \in {} |-> cmds[d]]
      BY <3>1, <3>2
    <3> QED  BY <3>3, EmptyFunction
  <2> QED  BY <2>1, <2>3, <2>4, <2>5 DEF AppInv, Closing, Others
<1> QED  BY <1>1, <1>2, <1>3, <1>4, <1>5, CallStepApp, LogStepApp, LoggerAssumption DEF Next
-----------------------------------------------------------------------------
(***************************************************************************)
(* The places of the commands.                                             *)
(***************************************************************************)

(* What is held at each place, before and after a step. *)
LEMMA HeldAt ==
  /\ \A k \in Kinds, u \in Threads : <<k, u>> \in Places /\ Held[<<k, u>>] = At(k, u) /\ Held'[<<k, u>>] = At(k, u)'
  /\ \A r \in Places : \E k \in Kinds, u \in Threads : r = <<k, u>>
BY DEF Held, Places

(* What a step does to the places: c goes from one to another, or is added, and those of S are deleted. *)
Moves(S, c, k, t, l, v) ==
  \A j \in Kinds, u \in Threads :
    At(j, u)' = IF j = k /\ u = t THEN At(j, u) \ (S \cup {c})
                ELSE IF j = l /\ u = v THEN (At(j, u) \ S) \cup {c} ELSE At(j, u) \ S
Adds(c, k, t) ==
  \A j \in Kinds, u \in Threads : At(j, u)' = IF j = k /\ u = t THEN At(j, u) \cup {c} ELSE At(j, u)
Drops(S) == \A j \in Kinds, u \in Threads : At(j, u)' = At(j, u) \ S

(* A command goes from one place to another, while those of S are deleted. *)
LEMMA Moved ==
  ASSUME OnePlace(Held, DOMAIN cmds), NEW S, NEW c, c \notin S,
         NEW k \in Kinds, NEW t \in Threads, NEW l \in Kinds, NEW v \in Threads, k # l \/ t # v, c \in At(k, t),
         Moves(S, c, k, t, l, v),
         DOMAIN cmds' = DOMAIN cmds \ S
  PROVE  OnePlace(Held', DOMAIN cmds')
<1>1. PICK H, G, D, E, p, q : /\ H = Held /\ G = Held' /\ D = DOMAIN cmds /\ E = DOMAIN cmds'
                            /\ p = <<k, t>> /\ q = <<l, v>>
  OBVIOUS
<1>2. p \in Places /\ q \in Places /\ p # q /\ c \in H[p] /\ E = D \ S
  BY <1>1, HeldAt
<1>3. \A r \in Places : G[r] = IF r = p THEN H[r] \ (S \cup {c})
                              ELSE IF r = q THEN (H[r] \ S) \cup {c} ELSE H[r] \ S
  <2> SUFFICES ASSUME NEW r \in Places
               PROVE  G[r] = IF r = p THEN H[r] \ (S \cup {c}) ELSE IF r = q THEN (H[r] \ S) \cup {c} ELSE H[r] \ S
    OBVIOUS
  <2>1. PICK j \in Kinds, u \in Threads : r = <<j, u>>
    BY HeldAt
  <2>2. H[r] = At(j, u) /\ G[r] = At(j, u)'
    BY <1>1, <2>1, HeldAt
  <2>3. (r = p <=> j = k /\ u = t) /\ (r = q <=> j = l /\ u = v)
    BY <1>1, <2>1
  <2> QED  BY <2>2, <2>3 DEF Moves
<1>4. OnePlace(H, D)
  BY <1>1
<1>5. c \in D /\ c \in E
  BY <1>2, <1>4 DEF OnePlace
<1>6. ASSUME NEW r \in Places PROVE G[r] \subseteq E
  <2>1. H[r] \subseteq D /\ (r # p => c \notin H[r])
    BY <1>2, <1>4 DEF OnePlace
  <2>2. G[r] = IF r = p THEN H[r] \ (S \cup {c}) ELSE IF r = q THEN (H[r] \ S) \cup {c} ELSE H[r] \ S
    BY <1>3
  <2> QED  BY <1>2, <1>5, <2>1, <2>2
<1>7. \A d \in E : \E r \in Places : d \in G[r]
  <2> SUFFICES ASSUME NEW d \in E PROVE \E r \in Places : d \in G[r]
    OBVIOUS
  <2>1. CASE d = c
    BY <1>2, <1>3, <2>1
  <2>2. CASE d # c
    <3>1. d \in D /\ d \notin S
      BY <1>2
    <3>2. PICK r \in Places : d \in H[r]
      BY <1>4, <3>1 DEF OnePlace
    <3> QED  BY <1>3, <2>2, <3>1, <3>2
  <2> QED  BY <2>1, <2>2
<1>8. ASSUME NEW r \in Places, NEW w \in Places, r # w PROVE G[r] \cap G[w] = {}
  <2>1. H[r] \cap H[w] = {} /\ (r # p => c \notin H[r]) /\ (w # p => c \notin H[w])
    BY <1>2, <1>4, <1>8 DEF OnePlace
  <2>2. G[r] = IF r = p THEN H[r] \ (S \cup {c}) ELSE IF r = q THEN (H[r] \ S) \cup {c} ELSE H[r] \ S
    BY <1>3
  <2>3. G[w] = IF w = p THEN H[w] \ (S \cup {c}) ELSE IF w = q THEN (H[w] \ S) \cup {c} ELSE H[w] \ S
    BY <1>3
  <2> QED  BY <1>2, <1>8, <2>1, <2>2, <2>3
<1>9. OnePlace(G, E)
  BY <1>6, <1>7, <1>8 DEF OnePlace
<1> QED  BY <1>1, <1>9

(* Commands are deleted, wherever they are. *)
LEMMA Dropped ==
  ASSUME OnePlace(Held, DOMAIN cmds), NEW S,
         Drops(S),
         DOMAIN cmds' = DOMAIN cmds \ S
  PROVE  OnePlace(Held', DOMAIN cmds')
<1>1. PICK H, G, D, E : H = Held /\ G = Held' /\ D = DOMAIN cmds /\ E = DOMAIN cmds'
  OBVIOUS
<1>2. \A r \in Places : G[r] = H[r] \ S
  BY <1>1, HeldAt DEF Drops
<1>3. OnePlace(H, D) /\ E = D \ S
  BY <1>1
<1>4. ASSUME NEW r \in Places PROVE G[r] \subseteq E
  BY <1>2, <1>3 DEF OnePlace
<1>5. ASSUME NEW d \in E PROVE \E r \in Places : d \in G[r]
  BY <1>2, <1>3 DEF OnePlace
<1>6. ASSUME NEW r \in Places, NEW w \in Places, r # w PROVE G[r] \cap G[w] = {}
  <2>1. H[r] \cap H[w] = {}
    BY <1>3, <1>6 DEF OnePlace
  <2> QED  BY <1>2, <2>1
<1>7. OnePlace(G, E)
  BY <1>4, <1>5, <1>6 DEF OnePlace
<1> QED  BY <1>1, <1>7

(* A new command gets a place. *)
LEMMA Added ==
  ASSUME OnePlace(Held, DOMAIN cmds), NEW c, c \notin DOMAIN cmds, NEW k \in Kinds, NEW t \in Threads,
         Adds(c, k, t),
         DOMAIN cmds' = DOMAIN cmds \cup {c}
  PROVE  OnePlace(Held', DOMAIN cmds')
<1>1. PICK H, G, D, E, p : H = Held /\ G = Held' /\ D = DOMAIN cmds /\ E = DOMAIN cmds' /\ p = <<k, t>>
  OBVIOUS
<1>2. p \in Places /\ \A r \in Places : G[r] = IF r = p THEN H[r] \cup {c} ELSE H[r]
  <2>1. p \in Places
    BY <1>1, HeldAt
  <2> SUFFICES ASSUME NEW r \in Places PROVE G[r] = IF r = p THEN H[r] \cup {c} ELSE H[r]
    BY <2>1
  <2>2. PICK j \in Kinds, u \in Threads : r = <<j, u>>
    BY HeldAt
  <2>3. H[r] = At(j, u) /\ G[r] = At(j, u)' /\ (r = p <=> j = k /\ u = t)
    BY <1>1, <2>2, HeldAt
  <2> QED  BY <2>3 DEF Adds
<1>3. OnePlace(H, D) /\ E = D \cup {c} /\ c \notin D
  BY <1>1
<1>4. ASSUME NEW r \in Places PROVE G[r] \subseteq E
  BY <1>2, <1>3 DEF OnePlace
<1>5. ASSUME NEW d \in E PROVE \E r \in Places : d \in G[r]
  BY <1>2, <1>3 DEF OnePlace
<1>6. ASSUME NEW r \in Places, NEW w \in Places, r # w PROVE G[r] \cap G[w] = {}
  <2>1. H[r] \cap H[w] = {} /\ c \notin H[r] /\ c \notin H[w]
    BY <1>3, <1>6 DEF OnePlace
  <2> QED  BY <1>2, <1>6, <2>1
<1>7. OnePlace(G, E)
  BY <1>4, <1>5, <1>6 DEF OnePlace
<1> QED  BY <1>1, <1>7

(* All places, by their kind. *)
LEMMA EveryKind ==
  /\ Kinds = {"hand", "log", "cmdq", "rcyq", "cache"}
  /\ \A u : /\ At("hand", u) = {hand[u]} \ {None} /\ At("log", u) = IF u = Main THEN {lhand} \ {None} ELSE {}
            /\ At("cmdq", u) = Range(cmdq[u]) /\ At("rcyq", u) = Range(rcyq[u]) /\ At("cache", u) = Range(cache[u])
            /\ At("hand", u)' = {hand'[u]} \ {None} /\ At("log", u)' = IF u = Main THEN {lhand'} \ {None} ELSE {}
            /\ At("cmdq", u)' = Range(cmdq'[u]) /\ At("rcyq", u)' = Range(rcyq'[u]) /\ At("cache", u)' = Range(cache'[u])
BY DEF Kinds, At

(* Nothing moves. *)
LEMMA NothingMoved ==
  ASSUME PlacesInv, DOMAIN cmds' = DOMAIN cmds, UNCHANGED <<hand, lhand, cmdq, rcyq, cache>>
  PROVE  PlacesInv'
<1>1. Drops({})
  BY DEF At, Drops
<1>2. OnePlace(Held', DOMAIN cmds')
  BY <1>1, Dropped DEF PlacesInv
<1> QED  BY <1>2 DEF PlacesInv, Once

(* The steps of a call. *)
LEMMA CallStepPlaces ==
  ASSUME TypeOK, PlacesInv, AppInv, NEW t \in Threads, CallStep(t)
  PROVE  PlacesInv'
<1>1. /\ hand \in [Threads -> Nat] /\ cmdq \in [Threads -> Seq(Nat)] /\ rcyq \in [Threads -> Seq(Nat)]
      /\ cache \in [Threads -> Seq(Nat)] /\ OnePlace(Held, DOMAIN cmds) /\ ThreadOK(t)
  BY DEF TypeOK, AppTypes, QueueTypes, PlacesInv, AppInv
<1>2. \A u \in Threads : Once(cmdq[u]) /\ Once(rcyq[u]) /\ Once(cache[u])
  BY DEF PlacesInv
<1>3. CASE GetRecycled(t)
  <2>1. rcyq[t] # <<>> /\ hand' = [hand EXCEPT ![t] = rcyq[t][1]] /\ rcyq' = [rcyq EXCEPT ![t] = Tail(rcyq[t])]
        /\ UNCHANGED <<lhand, cmdq, cache>>
    BY <1>3 DEF GetRecycled, logVars
  <2>2. PICK c, q : c = rcyq[t][1] /\ q = Tail(rcyq[t])
    OBVIOUS
  <2>3. c \in Range(rcyq[t]) /\ Range(q) = Range(rcyq[t]) \ {c} /\ Once(q)
    BY <1>1, <1>2, <2>1, <2>2, TailHolds
  <2>4. c \in DOMAIN cmds /\ c # None /\ c # hand[t]
    BY <2>3, Apart DEF TypeOK, CmdTypes
  <2>5. PICK S : S = {hand[t]} \ {None}
    OBVIOUS
  <2>6. c \notin S /\ DOMAIN cmds' = DOMAIN cmds \ S
    BY <1>3, <2>4, <2>5, Apart DEF GetRecycled, Delete, TypeOK, CmdTypes
  <2>7. ASSUME NEW j \in Kinds, NEW u \in Threads
        PROVE  At(j, u)' = IF j = "rcyq" /\ u = t THEN At(j, u) \ (S \cup {c})
                           ELSE IF j = "hand" /\ u = t THEN (At(j, u) \ S) \cup {c} ELSE At(j, u) \ S
    <3>1. CASE j = "rcyq"
      <4>1. Range(rcyq[u]) \cap S = {}
        BY <2>5, Apart
      <4>2. Range(rcyq'[u]) = IF u = t THEN Range(rcyq[u]) \ {c} ELSE Range(rcyq[u])
        BY <1>1, <2>1, <2>2, <2>3
      <4> QED  BY <3>1, <4>1, <4>2, EveryKind
    <3>2. CASE j = "hand"
      <4>1. u # t => hand[u] \notin S
        BY <2>5, Apart
      <4>2. hand'[u] = IF u = t THEN c ELSE hand[u]
        BY <1>1, <2>1, <2>2
      <4> QED  BY <2>4, <2>5, <3>2, <4>1, <4>2, EveryKind
    <3>3. CASE j \in {"cmdq", "cache"}
      <4>1. Range(cmdq[u]) \cap S = {} /\ Range(cache[u]) \cap S = {}
        BY <2>5, Apart
      <4> QED  BY <2>1, <3>3, <4>1, EveryKind
    <3>4. CASE j = "log"
      <4>1. lhand \notin S
        BY <2>5, Apart
      <4> QED  BY <2>1, <3>4, <4>1, EveryKind
    <3> QED  BY <3>1, <3>2, <3>3, <3>4, EveryKind
  <2>8. c \in At("rcyq", t) /\ Moves(S, c, "rcyq", t, "hand", t)
    BY <2>3, <2>7, EveryKind, Zenon DEF Moves
  <2>9. OnePlace(Held', DOMAIN cmds')
    <3>1. "rcyq" \in Kinds /\ "hand" \in Kinds /\ "rcyq" # "hand"
      BY DEF Kinds
    <3> QED  BY <1>1, <2>6, <2>8, <3>1, Moved, Zenon
  <2>10. \A u \in Threads : Once(cmdq'[u]) /\ Once(rcyq'[u]) /\ Once(cache'[u])
    BY <1>1, <1>2, <2>1, <2>2, <2>3
  <2> QED  BY <2>9, <2>10 DEF PlacesInv, Once
<1>4. CASE GotCommand(t)
  <2>1. UNCHANGED <<lhand, cmdq, rcyq, cache>>
    BY <1>4 DEF GotCommand, logVars, queueVars
  <2>2. CASE hand[t] = None
    <3>1. PICK c : c = NewCmd
      OBVIOUS
    <3>2. c \notin DOMAIN cmds /\ c # None
      BY <3>1, NewCmdIsNew DEF TypeOK, CmdTypes
    <3>3. hand' = [hand EXCEPT ![t] = c] /\ DOMAIN cmds' = DOMAIN cmds \cup {c}
      BY <1>4, <2>2, <3>1 DEF GotCommand
    <3>4. ASSUME NEW j \in Kinds, NEW u \in Threads
          PROVE  At(j, u)' = IF j = "hand" /\ u = t THEN At(j, u) \cup {c} ELSE At(j, u)
      <4>1. hand'[u] = IF u = t THEN c ELSE hand[u]
        BY <1>1, <3>3
      <4>2. CASE j = "hand"
        <5>1. At(j, u)' = {hand'[u]} \ {None} /\ At(j, u) = {hand[u]} \ {None}
          BY <4>2 DEF At
        <5> QED  BY <2>2, <3>2, <4>1, <4>2, <5>1
      <4>3. CASE j # "hand"
        <5>1. At(j, u)' = At(j, u)
          BY <2>1, <4>3 DEF At, Kinds
        <5> QED  BY <4>3, <5>1
      <4> QED  BY <4>2, <4>3
    <3>5. OnePlace(Held', DOMAIN cmds')
      <4>1. "hand" \in Kinds
        BY DEF Kinds
      <4>2. Adds(c, "hand", t)
        BY <3>4, Zenon DEF Adds
      <4> QED  BY <1>1, <3>2, <3>3, <4>1, <4>2, Added, Zenon
    <3> QED  BY <1>2, <2>1, <3>5 DEF PlacesInv, Once
  <2>3. CASE hand[t] # None
    <3>1. hand[t] \in DOMAIN cmds
      BY <2>3, Apart
    <3>2. hand' = hand /\ DOMAIN cmds' = DOMAIN cmds
      BY <1>1, <1>4, <2>3, <3>1 DEF GotCommand
    <3> QED  BY <2>1, <3>2, NothingMoved
  <2> QED  BY <2>2, <2>3
<1>5. CASE WaitForAcks(t) \/ Count(t)
  <2>1. UNCHANGED <<cmds, hand, lhand, cmdq, rcyq, cache>>
    BY <1>5 DEF WaitForAcks, Count, logVars, queueVars
  <2> QED  BY <2>1, NothingMoved
<1>6. CASE Push(t)
  <2>1. hand[t] # None /\ hand' = [hand EXCEPT ![t] = None] /\ cmdq' = [cmdq EXCEPT ![t] = Append(cmdq[t], hand[t])]
        /\ UNCHANGED <<cmds, lhand, rcyq, cache>>
    BY <1>1, <1>6 DEF Push, logVars, ThreadOK
  <2>2. PICK c, q, S : c = hand[t] /\ q = Append(cmdq[t], c) /\ S = {}
    OBVIOUS
  <2>3. c \notin Range(cmdq[t]) /\ c \in Nat
    BY <1>1, <2>1, <2>2, Apart
  <2>4. Range(q) = Range(cmdq[t]) \cup {c} /\ Once(q)
    BY <1>1, <1>2, <2>2, <2>3, AppendHolds
  <2>5. ASSUME NEW j \in Kinds, NEW u \in Threads
        PROVE  At(j, u)' = IF j = "hand" /\ u = t THEN At(j, u) \ (S \cup {c})
                           ELSE IF j = "cmdq" /\ u = t THEN (At(j, u) \ S) \cup {c} ELSE At(j, u) \ S
    <3>1. hand'[u] = (IF u = t THEN None ELSE hand[u]) /\ cmdq'[u] = (IF u = t THEN q ELSE cmdq[u])
      BY <1>1, <2>1, <2>2
    <3>2. CASE j = "hand"
      <4>1. At(j, u)' = {hand'[u]} \ {None} /\ At(j, u) = {hand[u]} \ {None}
        BY <3>2 DEF At
      <4> QED  BY <2>2, <3>1, <3>2, <4>1
    <3>3. CASE j = "cmdq"
      <4>1. At(j, u)' = Range(cmdq'[u]) /\ At(j, u) = Range(cmdq[u])
        BY <3>3 DEF At
      <4> QED  BY <2>2, <2>4, <3>1, <3>3, <4>1
    <3>4. CASE j \notin {"hand", "cmdq"}
      <4>1. At(j, u)' = At(j, u)
        BY <2>1, <3>4 DEF At, Kinds
      <4> QED  BY <2>2, <3>4, <4>1
    <3> QED  BY <3>2, <3>3, <3>4
  <2>6. c \in At("hand", t) /\ Moves(S, c, "hand", t, "cmdq", t)
    <3>1. c \in At("hand", t)
      BY <2>1, <2>2, EveryKind
    <3> QED  BY <2>5, <3>1, Zenon DEF Moves
  <2>7. DOMAIN cmds' = DOMAIN cmds \ S
    BY <2>1, <2>2
  <2>8. OnePlace(Held', DOMAIN cmds')
    <3>1. "hand" \in Kinds /\ "cmdq" \in Kinds /\ "hand" # "cmdq" /\ c \notin S
      BY <2>2 DEF Kinds
    <3> QED  BY <1>1, <2>6, <2>7, <3>1, Moved, Zenon
  <2>9. \A u \in Threads : Once(cmdq'[u]) /\ Once(rcyq'[u]) /\ Once(cache'[u])
    BY <1>1, <1>2, <2>1, <2>2, <2>4
  <2> QED  BY <2>8, <2>9 DEF PlacesInv, Once
<1>7. CASE Refused(t)
  <2>1. hand[t] # None /\ hand' = [hand EXCEPT ![t] = None] /\ UNCHANGED <<lhand, cmdq, rcyq, cache>>
        /\ DOMAIN cmds' = DOMAIN cmds \ {hand[t]}
    BY <1>1, <1>7 DEF Refused, Delete, logVars, queueVars, ThreadOK
  <2>2. ASSUME NEW j \in Kinds, NEW u \in Threads PROVE At(j, u)' = At(j, u) \ {hand[t]}
    <3>1. hand'[u] = IF u = t THEN None ELSE hand[u]
      BY <1>1, <2>1
    <3>2. hand[t] # lhand /\ hand[t] \notin Range(cmdq[u]) /\ hand[t] \notin Range(rcyq[u])
          /\ hand[t] \notin Range(cache[u]) /\ (u # t => hand[u] # hand[t])
      BY <2>1, Apart
    <3> QED  BY <2>1, <3>1, <3>2, EveryKind
  <2>3. OnePlace(Held', DOMAIN cmds')
    <3>1. Drops({hand[t]})
      BY <2>2, Zenon DEF Drops
    <3> QED  BY <1>1, <2>1, <3>1, Dropped, Zenon
  <2> QED  BY <1>2, <2>1, <2>3 DEF PlacesInv, Once
<1>8. CASE FreeRecycled(t)
  <2>1. rcyq[t] # <<>> /\ rcyq' = [rcyq EXCEPT ![t] = Tail(rcyq[t])] /\ UNCHANGED <<hand, lhand, cmdq, cache>>
        /\ DOMAIN cmds' = DOMAIN cmds \ {rcyq[t][1]}
    BY <1>8 DEF FreeRecycled, Delete, logVars, appVars
  <2>2. PICK c, q : c = rcyq[t][1] /\ q = Tail(rcyq[t])
    OBVIOUS
  <2>3. c \in Range(rcyq[t]) /\ Range(q) = Range(rcyq[t]) \ {c} /\ Once(q)
    BY <1>1, <1>2, <2>1, <2>2, TailHolds
  <2>4. ASSUME NEW j \in Kinds, NEW u \in Threads PROVE At(j, u)' = At(j, u) \ {c}
    <3>1. rcyq'[u] = IF u = t THEN q ELSE rcyq[u]
      BY <1>1, <2>1, <2>2
    <3>2. /\ hand[u] # None => hand[u] # c
          /\ lhand # None => lhand # c
          /\ c \notin Range(cmdq[u]) /\ c \notin Range(cache[u]) /\ (u # t => c \notin Range(rcyq[u]))
      BY <2>3, Apart
    <3> QED  BY <2>1, <2>3, <3>1, <3>2, EveryKind
  <2>5. OnePlace(Held', DOMAIN cmds')
    <3>1. Drops({c}) /\ DOMAIN cmds' = DOMAIN cmds \ {c}
      BY <2>1, <2>2, <2>4, Zenon DEF Drops
    <3> QED  BY <1>1, <3>1, Dropped, Zenon
  <2>6. \A u \in Threads : Once(cmdq'[u]) /\ Once(rcyq'[u]) /\ Once(cache'[u])
    BY <1>1, <1>2, <2>1, <2>2, <2>3
  <2> QED  BY <2>5, <2>6 DEF PlacesInv, Once
<1> QED  BY <1>3, <1>4, <1>5, <1>6, <1>7, <1>8 DEF CallStep

(* The steps of the log thread. *)
LEMMA LogStepPlaces ==
  ASSUME TypeOK, PlacesInv, AppInv, LogInv, LogStep
  PROVE  PlacesInv'
<1>1. /\ hand \in [Threads -> Nat] /\ cmdq \in [Threads -> Seq(Nat)] /\ rcyq \in [Threads -> Seq(Nat)]
      /\ cache \in [Threads -> Seq(Nat)] /\ OnePlace(Held, DOMAIN cmds)
  BY DEF TypeOK, AppTypes, QueueTypes, PlacesInv
<1>2. \A u \in Threads : Once(cmdq[u]) /\ Once(rcyq[u]) /\ Once(cache[u])
  BY DEF PlacesInv
<1>3. CASE Pop
  <2>1. PICK n, c, q, S : n = Now /\ c = cmdq[n][1] /\ q = Tail(cmdq[n]) /\ S = {}
    OBVIOUS
  <2>2. n \in Threads
    BY <1>3, <2>1, NowIsThread DEF Pop
  <2>3. cmdq[n] # <<>> /\ cmdq' = [cmdq EXCEPT ![n] = q] /\ lhand' = c /\ lhand = None
        /\ UNCHANGED <<cmds, hand, rcyq, cache>>
    BY <1>3, <2>1 DEF Pop, appVars, LogInv, CmdLabels
  <2>4. c \in Range(cmdq[n]) /\ Range(q) = Range(cmdq[n]) \ {c} /\ Once(q)
    BY <1>1, <1>2, <2>1, <2>2, <2>3, TailHolds
  <2>5. c \in DOMAIN cmds /\ c # None
    BY <2>2, <2>4, Apart DEF TypeOK, CmdTypes
  <2>6. ASSUME NEW j \in Kinds, NEW u \in Threads
        PROVE  At(j, u)' = IF j = "cmdq" /\ u = n THEN At(j, u) \ (S \cup {c})
                           ELSE IF j = "log" /\ u = Main THEN (At(j, u) \ S) \cup {c} ELSE At(j, u) \ S
    <3>1. CASE j = "cmdq"
      <4>1. At(j, u)' = Range(cmdq'[u]) /\ At(j, u) = Range(cmdq[u])
        BY <3>1 DEF At
      <4>2. cmdq'[u] = IF u = n THEN q ELSE cmdq[u]
        BY <1>1, <2>3
      <4> QED  BY <2>1, <2>4, <3>1, <4>1, <4>2
    <3>2. CASE j = "log"
      <4>1. At(j, u)' = IF u = Main THEN {c} \ {None} ELSE {}
        BY <2>3, <3>2 DEF At
      <4>2. At(j, u) = {}
        BY <2>3, <3>2 DEF At
      <4> QED  BY <2>1, <2>5, <3>2, <4>1, <4>2
    <3>3. CASE j \notin {"cmdq", "log"}
      <4>1. At(j, u)' = At(j, u)
        BY <2>3, <3>3 DEF At, Kinds
      <4> QED  BY <2>1, <3>3, <4>1
    <3> QED  BY <3>1, <3>2, <3>3
  <2>7. c \in At("cmdq", n) /\ Moves(S, c, "cmdq", n, "log", Main)
    <3>1. c \in At("cmdq", n)
      BY <2>4, EveryKind
    <3> QED  BY <2>6, <3>1, Zenon DEF Moves
  <2>8. OnePlace(Held', DOMAIN cmds')
    <3>1. "cmdq" \in Kinds /\ "log" \in Kinds /\ "cmdq" # "log" /\ c \notin S /\ Main \in Threads
      BY <2>1, LoggerAssumption DEF Kinds
    <3>2. DOMAIN cmds' = DOMAIN cmds \ S
      BY <2>1, <2>3
    <3> QED  BY <1>1, <2>2, <2>7, <3>1, <3>2, Moved, Zenon
  <2>9. \A u \in Threads : Once(cmdq'[u]) /\ Once(rcyq'[u]) /\ Once(cache'[u])
    BY <1>1, <1>2, <2>2, <2>3, <2>4
  <2> QED  BY <2>8, <2>9 DEF PlacesInv, Once
<1>4. CASE LooksAtThread
  <2>1. PICK n, S : n = Now /\ S = Range(cache[n]) \cup Range(rcyq[n])
    OBVIOUS
  <2>2. n \in Threads
    BY <1>4, <2>1, NowIsThread DEF LooksAtThread, LogInv
  <2>3. CASE isRun[n]
    <3>1. UNCHANGED <<cmds, hand, lhand, cmdq, rcyq, cache>>
      BY <1>4, <2>1, <2>3 DEF LooksAtThread, appVars, queueVars
    <3> QED  BY <3>1, NothingMoved
  <2>4. CASE ~isRun[n]
    <3>1. DOMAIN cmds' = DOMAIN cmds \ S /\ rcyq' = [rcyq EXCEPT ![n] = <<>>] /\ cache' = [cache EXCEPT ![n] = <<>>]
          /\ UNCHANGED <<cmdq, hand, lhand>>
      BY <1>4, <2>1, <2>4 DEF LooksAtThread, appVars
    <3>2. Range(<<>>) = {} /\ Once(<<>>)
      BY DEF Range, Once
    <3>3. ASSUME NEW j \in Kinds, NEW u \in Threads PROVE At(j, u)' = At(j, u) \ S
      <4>1. /\ hand[u] # None => hand[u] \notin S
            /\ lhand # None => lhand \notin S
            /\ Range(cmdq[u]) \cap S = {}
            /\ u # n => Range(rcyq[u]) \cap S = {} /\ Range(cache[u]) \cap S = {}
        BY <2>1, <2>2, Apart
      <4>2. rcyq'[u] = (IF u = n THEN <<>> ELSE rcyq[u]) /\ cache'[u] = (IF u = n THEN <<>> ELSE cache[u])
        BY <1>1, <3>1
      <4>3. CASE j = "rcyq"
        <5>1. At(j, u)' = Range(rcyq'[u]) /\ At(j, u) = Range(rcyq[u])
          BY <4>3 DEF At
        <5> QED  BY <2>1, <3>2, <4>1, <4>2, <5>1
      <4>4. CASE j = "cache"
        <5>1. At(j, u)' = Range(cache'[u]) /\ At(j, u) = Range(cache[u])
          BY <4>4 DEF At
        <5> QED  BY <2>1, <3>2, <4>1, <4>2, <5>1
      <4>5. CASE j = "hand"
        <5>1. At(j, u)' = {hand[u]} \ {None} /\ At(j, u) = {hand[u]} \ {None}
          BY <3>1, <4>5 DEF At
        <5> QED  BY <4>1, <5>1
      <4>6. CASE j = "log"
        <5>1. At(j, u)' = At(j, u) /\ At(j, u) \in {{lhand} \ {None}, {}}
          BY <3>1, <4>6 DEF At
        <5> QED  BY <4>1, <5>1
      <4>7. CASE j = "cmdq"
        <5>1. At(j, u)' = Range(cmdq[u]) /\ At(j, u) = Range(cmdq[u])
          BY <3>1, <4>7 DEF At
        <5> QED  BY <4>1, <5>1
      <4> QED  BY <4>3, <4>4, <4>5, <4>6, <4>7 DEF Kinds
    <3>4. OnePlace(Held', DOMAIN cmds')
      <4>1. Drops(S)
        BY <3>3, Zenon DEF Drops
      <4> QED  BY <1>1, <3>1, <4>1, Dropped, Zenon
    <3>5. \A u \in Threads : Once(cmdq'[u]) /\ Once(rcyq'[u]) /\ Once(cache'[u])
      BY <1>1, <1>2, <2>2, <3>1, <3>2
    <3> QED  BY <3>4, <3>5 DEF PlacesInv, Once
  <2> QED  BY <2>3, <2>4
<1>5. CASE Recycle
  <2>1. PICK n, c, S : n = Now /\ c = lhand /\ S = {}
    OBVIOUS
  <2>2. n \in Threads /\ c # None /\ c \in Nat
    BY <1>5, <2>1, NowIsThread DEF Recycle, LogInv, CmdLabels, TypeOK, LogTypes
  <2>3. lhand' = None /\ DOMAIN cmds' = DOMAIN cmds \ S /\ UNCHANGED <<hand, cmdq>>
    BY <1>5, <2>1 DEF Recycle, appVars
  <2>4. c \in At("log", Main)
    BY <2>1, <2>2, EveryKind
  <2>5. \A u \in Threads : At("log", u)' = {} /\ (u # Main => At("log", u) = {}) /\ At("log", Main) = {c}
    BY <2>1, <2>2, <2>3, EveryKind, LoggerAssumption
  <2>6. c \notin Range(rcyq[n]) /\ c \notin Range(cache[n])
    BY <2>1, <2>2, Apart
  <2>7. CASE rcyq' = [rcyq EXCEPT ![n] = Append(@, c)] /\ UNCHANGED cache
    <3>1. PICK q : q = Append(rcyq[n], c)
      OBVIOUS
    <3>2. Range(q) = Range(rcyq[n]) \cup {c} /\ Once(q)
      BY <1>1, <1>2, <2>2, <2>6, <3>1, AppendHolds
    <3>3. ASSUME NEW j \in Kinds, NEW u \in Threads
          PROVE  At(j, u)' = IF j = "log" /\ u = Main THEN At(j, u) \ (S \cup {c})
                             ELSE IF j = "rcyq" /\ u = n THEN (At(j, u) \ S) \cup {c} ELSE At(j, u) \ S
      <4>1. CASE j = "log"
        BY <2>5, <4>1
      <4>2. CASE j = "rcyq"
        <5>1. At(j, u)' = Range(rcyq'[u]) /\ At(j, u) = Range(rcyq[u])
          BY <4>2 DEF At
        <5>2. rcyq'[u] = IF u = n THEN q ELSE rcyq[u]
          BY <1>1, <2>7, <3>1
        <5> QED  BY <2>1, <3>2, <4>2, <5>1, <5>2
      <4>3. CASE j \notin {"rcyq", "log"}
        <5>1. At(j, u)' = At(j, u)
          BY <2>3, <2>7, <4>3 DEF At, Kinds
        <5> QED  BY <2>1, <4>3, <5>1
      <4> QED  BY <4>1, <4>2, <4>3
    <3>4. OnePlace(Held', DOMAIN cmds')
      <4>1. "log" \in Kinds /\ "rcyq" \in Kinds /\ "log" # "rcyq" /\ c \notin S /\ Main \in Threads
        BY <2>1, LoggerAssumption DEF Kinds
      <4>2. Moves(S, c, "log", Main, "rcyq", n)
        BY <3>3, Zenon DEF Moves
      <4> QED  BY <1>1, <2>2, <2>3, <2>4, <4>1, <4>2, Moved, Zenon
    <3>5. \A u \in Threads : Once(cmdq'[u]) /\ Once(rcyq'[u]) /\ Once(cache'[u])
      BY <1>1, <1>2, <2>2, <2>3, <2>7, <3>1, <3>2
    <3> QED  BY <3>4, <3>5 DEF PlacesInv, Once
  <2>8. CASE cache' = [cache EXCEPT ![n] = Append(@, c)] /\ UNCHANGED rcyq
    <3>1. PICK q : q = Append(cache[n], c)
      OBVIOUS
    <3>2. Range(q) = Range(cache[n]) \cup {c} /\ Once(q)
      BY <1>1, <1>2, <2>2, <2>6, <3>1, AppendHolds
    <3>3. ASSUME NEW j \in Kinds, NEW u \in Threads
          PROVE  At(j, u)' = IF j = "log" /\ u = Main THEN At(j, u) \ (S \cup {c})
                             ELSE IF j = "cache" /\ u = n THEN (At(j, u) \ S) \cup {c} ELSE At(j, u) \ S
      <4>1. CASE j = "log"
        BY <2>5, <4>1
      <4>2. CASE j = "cache"
        <5>1. At(j, u)' = Range(cache'[u]) /\ At(j, u) = Range(cache[u])
          BY <4>2 DEF At
        <5>2. cache'[u] = IF u = n THEN q ELSE cache[u]
          BY <1>1, <2>8, <3>1
        <5> QED  BY <2>1, <3>2, <4>2, <5>1, <5>2
      <4>3. CASE j \notin {"cache", "log"}
        <5>1. At(j, u)' = At(j, u)
          BY <2>3, <2>8, <4>3 DEF At, Kinds
        <5> QED  BY <2>1, <4>3, <5>1
      <4> QED  BY <4>1, <4>2, <4>3
    <3>4. OnePlace(Held', DOMAIN cmds')
      <4>1. "log" \in Kinds /\ "cache" \in Kinds /\ "log" # "cache" /\ c \notin S /\ Main \in Threads
        BY <2>1, LoggerAssumption DEF Kinds
      <4>2. Moves(S, c, "log", Main, "cache", n)
        BY <3>3, Zenon DEF Moves
      <4> QED  BY <1>1, <2>2, <2>3, <2>4, <4>1, <4>2, Moved, Zenon
    <3>5. \A u \in Threads : Once(cmdq'[u]) /\ Once(rcyq'[u]) /\ Once(cache'[u])
      BY <1>1, <1>2, <2>2, <2>3, <2>8, <3>1, <3>2
    <3> QED  BY <3>4, <3>5 DEF PlacesInv, Once
  <2> QED  BY <1>5, <2>1, <2>7, <2>8 DEF Recycle
<1>6. CASE HandBack
  <2>1. PICK n : n = Now
    OBVIOUS
  <2>2. n \in Threads
    BY <1>6, <2>1, NowIsThread DEF HandBack, LogInv
  <2>3. UNCHANGED <<cmds, hand, lhand, cmdq>>
    BY <1>6 DEF HandBack, appVars
  <2>4. CASE UNCHANGED <<rcyq, cache>>
    BY <2>3, <2>4, NothingMoved
  <2>5. CASE cache[n] # <<>> /\ rcyq' = [rcyq EXCEPT ![n] = Append(@, cache[n][1])]
             /\ cache' = [cache EXCEPT ![n] = Tail(@)]
    <3>1. PICK c, q, r, S : c = cache[n][1] /\ q = Tail(cache[n]) /\ r = Append(rcyq[n], c) /\ S = {}
      OBVIOUS
    <3>2. c \in Range(cache[n]) /\ Range(q) = Range(cache[n]) \ {c} /\ Once(q) /\ c \in Nat
      BY <1>1, <1>2, <2>2, <2>5, <3>1, TailHolds
    <3>3. c \notin Range(rcyq[n])
      BY <2>2, <3>2, Apart
    <3>4. Range(r) = Range(rcyq[n]) \cup {c} /\ Once(r)
      BY <1>1, <1>2, <2>2, <3>1, <3>2, <3>3, AppendHolds
    <3>5. \A u \in Threads : cache'[u] = (IF u = n THEN q ELSE cache[u]) /\ rcyq'[u] = (IF u = n THEN r ELSE rcyq[u])
      BY <1>1, <2>5, <3>1
    <3>6. ASSUME NEW j \in Kinds, NEW u \in Threads
          PROVE  At(j, u)' = IF j = "cache" /\ u = n THEN At(j, u) \ (S \cup {c})
                             ELSE IF j = "rcyq" /\ u = n THEN (At(j, u) \ S) \cup {c} ELSE At(j, u) \ S
      <4>1. CASE j = "cache"
        <5>1. At(j, u)' = Range(cache'[u]) /\ At(j, u) = Range(cache[u])
          BY <4>1 DEF At
        <5> QED  BY <3>1, <3>2, <3>5, <4>1, <5>1
      <4>2. CASE j = "rcyq"
        <5>1. At(j, u)' = Range(rcyq'[u]) /\ At(j, u) = Range(rcyq[u])
          BY <4>2 DEF At
        <5> QED  BY <3>1, <3>4, <3>5, <4>2, <5>1
      <4>3. CASE j \notin {"rcyq", "cache"}
        <5>1. At(j, u)' = At(j, u)
          BY <2>3, <4>3 DEF At, Kinds
        <5> QED  BY <3>1, <4>3, <5>1
      <4> QED  BY <4>1, <4>2, <4>3
    <3>7. OnePlace(Held', DOMAIN cmds')
      <4>1. "cache" \in Kinds /\ "rcyq" \in Kinds /\ "cache" # "rcyq" /\ c \notin S /\ DOMAIN cmds' = DOMAIN cmds \ S
        BY <2>3, <3>1 DEF Kinds
      <4>2. c \in At("cache", n)
        BY <3>2, EveryKind
      <4>3. Moves(S, c, "cache", n, "rcyq", n)
        BY <3>6, Zenon DEF Moves
      <4> QED  BY <1>1, <2>2, <4>1, <4>2, <4>3, Moved, Zenon
    <3>8. \A u \in Threads : Once(cmdq'[u]) /\ Once(rcyq'[u]) /\ Once(cache'[u])
      BY <1>2, <2>3, <3>2, <3>4, <3>5
    <3> QED  BY <3>7, <3>8 DEF PlacesInv, Once
  <2> QED  BY <1>6, <2>1, <2>4, <2>5 DEF HandBack
<1>7. CASE UNCHANGED <<cmds, hand, lhand, cmdq, rcyq, cache>>
  BY <1>7, NothingMoved
<1> QED
  BY <1>3, <1>4, <1>5, <1>6, <1>7 DEF LogStep, LogStart, PassBegins, PassEnds, FindsNothing, WriteOrReset, Flush,
     Close, Ack, PrintPiece, appVars, queueVars

(* Nothing is held at the start, when there are no commands. *)
LEMMA InitPlaces == ASSUME Init PROVE PlacesInv
<1>0. /\ cmds = <<>> /\ lhand = None
      /\ \A t \in Threads : hand[t] = None /\ cmdq[t] = <<>> /\ rcyq[t] = <<>> /\ cache[t] = <<>>
  BY DEF Init
<1>1. Range(<<>>) = {} /\ Once(<<>>) /\ DOMAIN <<>> = {}
  BY DEF Range, Once
<1>2. \A k \in Kinds, u \in Threads : At(k, u) = {}
  BY <1>0, <1>1 DEF At, Kinds
<1>3. \A r \in Places : Held[r] = {}
  <2> SUFFICES ASSUME NEW r \in Places PROVE Held[r] = {}
    OBVIOUS
  <2>1. PICK k \in Kinds, u \in Threads : r = <<k, u>>
    BY HeldAt
  <2> QED  BY <1>2, <2>1, HeldAt
<1> QED  BY <1>0, <1>1, <1>3 DEF PlacesInv, OnePlace

(* Every command is in one place throughout. *)
LEMMA NextPlaces == TypeOK /\ PlacesInv /\ AppInv /\ LogInv /\ [Next]_vars => PlacesInv'
<1> SUFFICES ASSUME TypeOK, PlacesInv, AppInv, LogInv, [Next]_vars PROVE PlacesInv'
  OBVIOUS
<1>1. CASE UNCHANGED <<cmds, hand, lhand, cmdq, rcyq, cache>>
  BY <1>1, NothingMoved
<1>2. ASSUME NEW t \in Threads, Begin(t) \/ BeginDestroy \/ ThreadEnds(t) PROVE PlacesInv'
  BY <1>1, <1>2, Zenon DEF Begin, BeginDestroy, Calls, ThreadEnds, queueVars, logVars, appVars
<1>3. CASE StopManager \/ PrintStep \/ UNCHANGED vars
  BY <1>1, <1>3, Zenon DEF StopManager, PrintStep, TakeHeader, TakeText, PrintEnds, queueVars, logVars, appVars, vars
<1>4. CASE FreeManager
  <2>1. AppInv'
    BY <1>4, NextApp DEF Next
  <2>2. /\ head' = <<>> /\ hand' = hand /\ pc' = pc /\ lhand' = lhand
        /\ \A t \in Threads : cmdq'[t] = <<>> /\ rcyq'[t] = <<>> /\ cache'[t] = <<>>
    BY <1>4 DEF FreeManager, appVars, logVars
  <2>3. cmds' = <<>>
    BY <2>1, <2>2 DEF AppInv
  <2>4. lhand = None
    BY <1>4 DEF FreeManager, LogInv, CmdLabels
  <2>5. \A t \in Threads : hand[t] = None
    BY <1>4 DEF FreeManager, AppInv, ThreadOK
  <2>6. Range(<<>>) = {} /\ Once(<<>>) /\ DOMAIN <<>> = {}
    BY DEF Range, Once
  <2>7. \A k \in Kinds, u \in Threads : At(k, u)' = {}
    BY <2>2, <2>4, <2>5, <2>6 DEF At, Kinds
  <2>8. \A r \in Places : Held'[r] = {}
    <3> SUFFICES ASSUME NEW r \in Places PROVE Held'[r] = {}
      OBVIOUS
    <3>1. PICK k \in Kinds, u \in Threads : r = <<k, u>>
      BY HeldAt
    <3> QED  BY <2>7, <3>1, HeldAt
  <2>9. OnePlace(Held', DOMAIN cmds')
    <3>1. PICK H, D : H = Held' /\ D = DOMAIN cmds'
      OBVIOUS
    <3>2. OnePlace(H, D)
      BY <2>3, <2>6, <2>8, <3>1 DEF OnePlace
    <3> QED  BY <3>1, <3>2
  <2> QED  BY <2>2, <2>6, <2>9 DEF PlacesInv
<1> QED  BY <1>1, <1>2, <1>3, <1>4, CallStepPlaces, LogStepPlaces, LoggerAssumption DEF Next

-----------------------------------------------------------------------------
(***************************************************************************)
(* What was asked for and what was acknowledged: each command counted and  *)
(* still pending, or pending and still to be counted.                      *)
(***************************************************************************)

(* A step that neither counts nor acknowledges. *)
LEMMA CountsSame ==
  ASSUME CountInv, Counting' = Counting, Settled' = Settled, Pending' = Pending,
         \A c \in Pending : cmds'[c] = cmds[c], UNCHANGED <<req, reqMt, ack>>,
         logger' = "freed" <=> logger = "freed", pc'[Main] = "push" <=> pc[Main] = "push",
         Settled /\ Pending # {} => lpc' # "ack"
  PROVE  CountInv'
BY DEF CountInv

(* Only finitely many commands are pending. *)
LEMMA PendingFinite ==
  ASSUME TypeOK
  PROVE  IsFiniteSet(Pending) /\ Cardinality(Pending) \in Nat
<1>1. Pending \subseteq DOMAIN cmds /\ IsFiniteSet(DOMAIN cmds)
  BY DEF TypeOK, CmdTypes, Pending
<1> QED  BY <1>1, FS_Subset, FS_CardinalityType

(* Calls that are not closes are made only before the logger is settled. *)
LEMMA NotSettled ==
  ASSUME AppInv, NEW t \in Threads, pc[t] # "idle", call[t].option # "close" \/ t # Main
  PROVE  ~Settled
<1> SUFFICES ASSUME Settled PROVE FALSE
  OBVIOUS
<1>1. \A u \in Others(Main) : pc[u] = "idle"
  BY LoggerAssumption DEF AppInv, Closing, Settled
<1>2. t = Main
  BY <1>1 DEF Others
<1> QED  BY <1>2 DEF Settled

(* The commands that wait, or that the log thread carries out, are there whatever a call does to its own. *)
LEMMA PendingKept ==
  ASSUME TypeOK, PlacesInv, UNCHANGED <<cmdq, lhand, lpc>>, NEW t \in Threads, NEW X,
         X \subseteq ({hand[t]} \ {None}) \cup Range(rcyq[t]),
         DOMAIN cmds' = DOMAIN cmds \ X, \A c \in DOMAIN cmds \ X : cmds'[c] = cmds[c]
  PROVE  Pending' = Pending /\ \A c \in Pending : cmds'[c] = cmds[c]
<1>1. \A c \in Pending : c \notin X
  <2> SUFFICES ASSUME NEW c \in Pending PROVE c \notin X
    OBVIOUS
  <2>1. CASE c = lhand
    <3>1. lhand # None
      BY <2>1 DEF Pending, TypeOK, CmdTypes
    <3> QED  BY <2>1, <3>1, Apart
  <2>2. CASE \E u \in Threads : c \in Range(cmdq[u])
    BY <2>2, Apart
  <2> QED  BY <2>1, <2>2 DEF Pending
<1> QED  BY <1>1 DEF Pending

(* The steps of a call. *)
LEMMA CallStepCount ==
  ASSUME TypeOK, PlacesInv, AppInv, LogInv, CountInv, NEW t \in Threads, CallStep(t)
  PROVE  CountInv'
<1>1. /\ pc \in [Threads -> {"idle", "get", "wait", "push", "count"}] /\ call \in [Threads -> CallType]
      /\ hand \in [Threads -> Nat] /\ cmdq \in [Threads -> Seq(Nat)] /\ ThreadOK(t) /\ Main \in Threads
  BY LoggerAssumption DEF TypeOK, AppTypes, QueueTypes, AppInv
<1>2. CASE GetRecycled(t)
  <2>1. UNCHANGED <<pc, call, cmdq, lhand, lpc, req, reqMt, ack, logger>>
    BY <1>2 DEF GetRecycled, countVars, logVars
  <2>2. PICK X : X = {hand[t]} \ {None}
    OBVIOUS
  <2>3. DOMAIN cmds' = DOMAIN cmds \ X /\ \A c \in DOMAIN cmds \ X : cmds'[c] = cmds[c]
    <3>1. None \notin DOMAIN cmds
      BY DEF TypeOK, CmdTypes
    <3> QED  BY <1>2, <2>2, <3>1 DEF GetRecycled, Delete
  <2>4. Pending' = Pending /\ \A c \in Pending : cmds'[c] = cmds[c]
    BY <2>1, <2>2, <2>3, PendingKept
  <2> QED  BY <2>1, <2>4 DEF CountInv, Counting, Settled
<1>3. CASE GotCommand(t)
  <2>1. UNCHANGED <<call, cmdq, lhand, lpc, req, reqMt, ack, logger>>
    BY <1>3 DEF GotCommand, countVars, logVars, queueVars
  <2>2. PICK c : c = IF hand[t] = None THEN NewCmd ELSE hand[t]
    OBVIOUS
  <2>3. cmds' = [d \in DOMAIN cmds \cup {c} |-> IF d = c THEN call[t] ELSE cmds[d]]
    BY <1>3, <2>2 DEF GotCommand
  <2>4. c # lhand \/ lhand = None
    BY <2>2, NewCmdIsNew, Apart DEF TypeOK, CmdTypes
  <2>5. \A u \in Threads : c \notin Range(cmdq[u])
    BY <2>2, NewCmdIsNew, Apart DEF TypeOK, CmdTypes
  <2>6. c # None /\ None \notin DOMAIN cmds
    BY <2>2, NewCmdIsNew DEF TypeOK, CmdTypes
  <2>7. Pending' = Pending /\ \A d \in Pending : cmds'[d] = cmds[d]
    BY <2>1, <2>3, <2>4, <2>5, <2>6 DEF Pending
  <2>8. pc[t] = "get" /\ pc' = [pc EXCEPT ![t] = IF call[t].option = "close" THEN "wait" ELSE "push"]
    BY <1>3 DEF GotCommand
  <2>9. \A u \in Threads : pc'[u] = "count" <=> pc[u] = "count"
    BY <1>1, <2>8
  <2>10. Settled' = Settled /\ (Settled => (pc'[Main] = "push" <=> pc[Main] = "push"))
    BY <1>1, <2>1, <2>8 DEF Settled
  <2> QED  BY <2>1, <2>7, <2>9, <2>10 DEF CountInv, Counting
<1>4. CASE WaitForAcks(t)
  <2>1. /\ pc[t] = "wait" /\ req + reqMt = ack /\ pc' = [pc EXCEPT ![t] = "push"]
        /\ UNCHANGED <<cmds, call, cmdq, lhand, lpc, logger>>
    BY <1>4 DEF WaitForAcks, logVars, queueVars
  <2>2. t = Main /\ call[Main].option = "close" /\ ~Settled
    BY <1>1, <2>1 DEF ThreadOK, Settled
  <2>3. Counting = {}
    BY <1>1, <2>1, <2>2 DEF AppInv, Closing, Others, Counting
  <2>4. Pending = {}
    <3>1. Cardinality(Counting) = 0
      BY <2>3, FS_EmptySet
    <3>2. Cardinality(Pending) = 0
      <4>1. PICK n : n = Cardinality(Pending)
        OBVIOUS
      <4>2. n \in Nat /\ req + reqMt + 0 = ack + n /\ req \in Nat /\ reqMt \in Nat /\ ack \in Nat
        BY <2>2, <3>1, <4>1, PendingFinite DEF CountInv, TypeOK, CountTypes
      <4> QED  BY <2>1, <4>1, <4>2
    <3> QED  BY <3>2, PendingFinite, FS_EmptySet
  <2>5. Pending' = {} /\ Settled' /\ logger' # "freed" /\ Counting' = {}
    <3>1. Pending' = Pending
      BY <2>1 DEF Pending
    <3>2. Counting' = {}
      BY <1>1, <2>1, <2>3 DEF Counting
    <3> QED  BY <1>1, <2>1, <2>2, <2>4, <3>1, <3>2 DEF Settled, CountInv
  <2> QED  BY <2>5, FS_EmptySet DEF CountInv
<1>5. CASE Push(t)
  <2>1. /\ pc[t] = "push" /\ cmdq' = [cmdq EXCEPT ![t] = Append(@, hand[t])]
        /\ pc' = [pc EXCEPT ![t] = IF call[t].option = "close" THEN "idle" ELSE "count"]
        /\ UNCHANGED <<cmds, call, lhand, lpc, req, reqMt, ack, logger>>
    BY <1>5 DEF Push, countVars, logVars
  <2>2. PICK c : c = hand[t]
    OBVIOUS
  <2>3. c \in DOMAIN cmds /\ c # None /\ cmds[c] = call[t]
    BY <1>1, <2>1, <2>2, Apart DEF ThreadOK
  <2>4. c \notin Pending
    BY <2>2, <2>3, Apart DEF Pending
  <2>5. Pending' = Pending \cup {c}
    <3>1. \A u \in Threads : Range(cmdq'[u]) = IF u = t THEN Range(cmdq[u]) \cup {c} ELSE Range(cmdq[u])
      <4>1. PICK q : q = Append(cmdq[t], c)
        OBVIOUS
      <4>2. Range(q) = Range(cmdq[t]) \cup {c}
        <5>1. cmdq[t] \in Seq(Nat) /\ c \in Nat
          BY <1>1, <2>2
        <5>2. Range(Append(cmdq[t], c)) = Range(cmdq[t]) \cup {c}
          BY <5>1, AppendHolds
        <5> QED  BY <4>1, <5>2
      <4>3. \A u \in Threads : cmdq'[u] = IF u = t THEN q ELSE cmdq[u]
        BY <1>1, <2>1, <2>2, <4>1
      <4> QED  BY <4>2, <4>3
    <3>2. \A d : (\E u \in Threads : d \in Range(cmdq'[u])) <=> d = c \/ \E u \in Threads : d \in Range(cmdq[u])
      BY <3>1
    <3>3. c \in DOMAIN cmds /\ cmds' = cmds /\ lhand' = lhand /\ lpc' = lpc
      BY <2>1, <2>3
    <3> QED  BY <3>2, <3>3 DEF Pending
  <2>6. CASE call[t].option # "close"
    <3>1. ~Settled
      BY <2>1, <2>6, NotSettled
    <3>2. ~Settled'
      <4>1. CASE t = Main
        BY <2>1, <2>6, <4>1 DEF Settled
      <4>2. CASE t # Main
        BY <1>1, <2>1, <3>1, <4>2 DEF Settled
      <4> QED  BY <4>1, <4>2
    <3>3. Counting' = Counting \cup {t} /\ t \notin Counting
      BY <1>1, <2>1, <2>6 DEF Counting
    <3>4. IsFiniteSet(Counting') /\ Cardinality(Counting') = Cardinality(Counting) + 1
          /\ Cardinality(Counting) \in Nat
      BY <3>3, FS_AddElement, FS_CardinalityType DEF CountInv
    <3>5. Cardinality(Pending') = Cardinality(Pending) + 1 /\ Cardinality(Pending) \in Nat
      BY <2>4, <2>5, PendingFinite, FS_AddElement
    <3>6. req + reqMt + Cardinality(Counting') = ack + Cardinality(Pending')
      <4>1. PICK k, n : k = Cardinality(Counting) /\ n = Cardinality(Pending)
        OBVIOUS
      <4>2. k \in Nat /\ n \in Nat /\ req + reqMt + k = ack + n /\ req \in Nat /\ reqMt \in Nat /\ ack \in Nat
        BY <3>1, <3>4, <3>5, <4>1 DEF CountInv, TypeOK, CountTypes
      <4>3. req + reqMt + (k + 1) = ack + (n + 1)
        BY <4>2
      <4> QED  BY <3>4, <3>5, <4>1, <4>3
    <3>7. \A d \in Pending' : cmds[d].option # "close"
      BY <2>3, <2>5, <2>6, <3>1 DEF CountInv
    <3> QED  BY <2>1, <3>1, <3>2, <3>4, <3>6, <3>7 DEF CountInv
  <2>7. CASE call[t].option = "close"
    <3>1. t = Main /\ Settled
      BY <1>1, <2>1, <2>7 DEF ThreadOK, Settled
    <3>2. Pending = {} /\ logger # "freed"
      BY <2>1, <3>1 DEF CountInv
    <3>3. lpc # "ack" \/ lhand \notin DOMAIN cmds
      BY <3>2 DEF Pending
    <3>4. Settled' /\ pc'[Main] = "idle"
      BY <1>1, <2>1, <2>7, <3>1 DEF Settled
    <3>5. Counting' = Counting
      BY <1>1, <2>1, <2>7 DEF Counting
    <3>6. lpc # "ack"
      <4>1. lpc = "ack" => lhand \in DOMAIN cmds
        BY <1>1, Apart DEF LogInv, CmdLabels
      <4> QED  BY <3>3, <4>1
    <3> QED  BY <2>1, <2>3, <2>5, <2>7, <3>2, <3>4, <3>5, <3>6 DEF CountInv
  <2> QED  BY <2>6, <2>7
<1>6. CASE Count(t)
  <2>1. /\ pc[t] = "count" /\ pc' = [pc EXCEPT ![t] = "idle"] /\ call' = [call EXCEPT ![t] = NoCall]
        /\ req' + reqMt' = req + reqMt + 1 /\ UNCHANGED <<cmds, cmdq, lhand, lpc, ack, logger>>
    <3>1. req \in Nat /\ reqMt \in Nat
      BY DEF TypeOK, CountTypes
    <3> QED  BY <1>6, <3>1 DEF Count, logVars, queueVars
  <2>2. call[t].option # "close" /\ ~Settled
    BY <1>1, <2>1, NotSettled DEF ThreadOK
  <2>3. ~Settled'
    BY <1>1, <2>1, <2>2 DEF Settled, NoCall
  <2>4. Counting' = Counting \ {t} /\ t \in Counting
    BY <1>1, <2>1 DEF Counting
  <2>5. IsFiniteSet(Counting') /\ Cardinality(Counting') = Cardinality(Counting) - 1
        /\ Cardinality(Counting) \in Nat
    BY <2>4, FS_RemoveElement, FS_CardinalityType DEF CountInv
  <2>6. Pending' = Pending
    BY <2>1 DEF Pending
  <2>7. req' + reqMt' + Cardinality(Counting') = ack' + Cardinality(Pending')
    <3>1. PICK k, n : k = Cardinality(Counting) /\ n = Cardinality(Pending)
      OBVIOUS
    <3>2. k \in Nat /\ n \in Nat /\ req + reqMt + k = ack + n /\ req \in Nat /\ reqMt \in Nat /\ ack \in Nat
      BY <2>2, <2>5, <3>1, PendingFinite DEF CountInv, TypeOK, CountTypes
    <3>3. (req + reqMt + 1) + (k - 1) = ack + n
      BY <3>2
    <3> QED  BY <2>1, <2>5, <2>6, <3>1, <3>3
  <2> QED  BY <2>1, <2>2, <2>3, <2>5, <2>6, <2>7 DEF CountInv
<1>7. CASE Refused(t)
  <2>1. /\ pc[t] = "push" /\ ~call[t].block
        /\ pc' = [pc EXCEPT ![t] = "idle"] /\ call' = [call EXCEPT ![t] = NoCall]
        /\ UNCHANGED <<cmdq, lhand, lpc, req, reqMt, ack, logger>>
    BY <1>7 DEF Refused, logVars, queueVars, countVars
  <2>2. call[t].option # "close" /\ ~Settled
    BY <1>1, <2>1, NotSettled DEF ThreadOK
  <2>3. ~Settled'
    BY <1>1, <2>1, <2>2 DEF Settled, NoCall
  <2>4. PICK X : X = {hand[t]}
    OBVIOUS
  <2>5. DOMAIN cmds' = DOMAIN cmds \ X /\ \A c \in DOMAIN cmds \ X : cmds'[c] = cmds[c]
    BY <1>7, <2>4 DEF Refused, Delete
  <2>6. X \subseteq ({hand[t]} \ {None}) \cup Range(rcyq[t])
    BY <1>1, <2>1, <2>4 DEF ThreadOK
  <2>7. Pending' = Pending /\ \A c \in Pending : cmds'[c] = cmds[c]
    BY <2>1, <2>5, <2>6, PendingKept
  <2>8. Counting' = Counting
    BY <1>1, <2>1 DEF Counting
  <2> QED  BY <2>1, <2>2, <2>3, <2>7, <2>8 DEF CountInv
<1>8. CASE FreeRecycled(t)
  <2>1. UNCHANGED <<pc, call, cmdq, lhand, lpc, req, reqMt, ack, logger>>
    BY <1>8 DEF FreeRecycled, countVars, logVars, appVars
  <2>2. PICK X : X = {rcyq[t][1]}
    OBVIOUS
  <2>3. DOMAIN cmds' = DOMAIN cmds \ X /\ \A c \in DOMAIN cmds \ X : cmds'[c] = cmds[c]
    BY <1>8, <2>2 DEF FreeRecycled, Delete
  <2>4. X \subseteq ({hand[t]} \ {None}) \cup Range(rcyq[t])
    BY <1>8, <2>2, TailHolds DEF FreeRecycled, TypeOK, QueueTypes
  <2>5. Pending' = Pending /\ \A c \in Pending : cmds'[c] = cmds[c]
    BY <2>1, <2>3, <2>4, PendingKept
  <2> QED  BY <2>1, <2>5 DEF CountInv, Counting, Settled
<1> QED  BY <1>2, <1>3, <1>4, <1>5, <1>6, <1>7, <1>8 DEF CallStep

(* The steps of the log thread. *)
LEMMA LogStepCount ==
  ASSUME TypeOK, PlacesInv, AppInv, LogInv, CountInv, LogStep
  PROVE  CountInv'
<1>1. UNCHANGED <<pc, call, req, reqMt>>
  BY DEF LogStep, LogStart, PassBegins, PassEnds, Pop, FindsNothing, LooksAtThread, WriteOrReset, Flush, Close,
     Ack, PrintPiece, Recycle, HandBack, appVars, countVars
<1>2. Counting' = Counting /\ Settled' = Settled
  BY <1>1 DEF Counting, Settled
<1>3. cmdq \in [Threads -> Seq(Nat)]
  BY DEF TypeOK, QueueTypes
<1>4. CASE Pop
  <2>1. PICK n, c, q : n = Now /\ c = cmdq[n][1] /\ q = Tail(cmdq[n])
    OBVIOUS
  <2>2. n \in Threads /\ lpc = "visit" /\ lpc' = "do" /\ cmdq' = [cmdq EXCEPT ![n] = q] /\ lhand' = c /\ cmdq[n] # <<>>
        /\ UNCHANGED <<cmds, ack, logger>>
    BY <1>4, <2>1, NowIsThread DEF Pop, countVars
  <2>3. Range(cmdq[n]) = {c} \cup Range(q)
    BY <1>3, <2>1, <2>2, TailHolds
  <2>4. \A u \in Threads : cmdq'[u] = IF u = n THEN q ELSE cmdq[u]
    BY <1>3, <2>2
  <2>5. Pending' = Pending
    BY <2>2, <2>3, <2>4 DEF Pending
  <2> QED  BY <1>1, <1>2, <2>2, <2>5, CountsSame
<1>5. CASE WriteOrReset \/ Flush
  <2>1. /\ lpc = "do" /\ lpc' = "ack" /\ lhand \in DOMAIN cmds /\ cmds[lhand].option # "close" /\ logger # "freed"
        /\ logger' # "freed" /\ UNCHANGED <<cmds, cmdq, lhand, ack>>
    BY <1>5 DEF WriteOrReset, Written, Lost, Flush, countVars, queueVars, Cmd
  <2>2. lhand \in Pending /\ Pending' = Pending
    BY <2>1 DEF Pending
  <2>3. ~Settled
    BY <2>1, <2>2 DEF CountInv
  <2> QED  BY <1>1, <1>2, <2>1, <2>2, <2>3, CountsSame
<1>6. CASE Close
  <2>1. /\ lpc = "do" /\ lpc' = "recycle" /\ lhand \in DOMAIN cmds /\ cmds[lhand].option = "close"
        /\ UNCHANGED <<cmds, cmdq, lhand, ack>>
    BY <1>6 DEF Close, countVars, queueVars, Cmd
  <2>2. lhand \in Pending
    BY <2>1 DEF Pending
  <2>3. Settled
    BY <2>1, <2>2 DEF CountInv
  <2>4. Pending = {lhand} /\ pc[Main] # "push"
    BY <2>2, <2>3 DEF CountInv
  <2>5. \A u \in Threads : lhand \notin Range(cmdq[u])
    BY <2>1, Apart DEF LogInv, CmdLabels
  <2>6. Pending' = {}
    BY <2>1, <2>4, <2>5 DEF Pending
  <2> QED  BY <1>1, <1>2, <2>3, <2>4, <2>6 DEF CountInv
<1>7. CASE Ack
  <2>1. /\ lpc = "ack" /\ lpc' \in {"header", "recycle"} /\ ack' = ack + 1
        /\ UNCHANGED <<cmds, cmdq, lhand, logger>>
    BY <1>7 DEF Ack, queueVars
  <2>2. lhand \in DOMAIN cmds /\ \A u \in Threads : lhand \notin Range(cmdq[u])
    BY <2>1, LoggerAssumption, Apart DEF LogInv, CmdLabels
  <2>3. lhand \in Pending /\ Pending' = Pending \ {lhand}
    BY <2>1, <2>2 DEF Pending
  <2>4. ~Settled
    BY <2>1, <2>3 DEF CountInv
  <2>5. Cardinality(Pending') = Cardinality(Pending) - 1 /\ Cardinality(Pending) \in Nat
    BY <2>3, PendingFinite, FS_RemoveElement
  <2>6. req + reqMt + Cardinality(Counting) = ack' + Cardinality(Pending')
    <3>1. PICK k, n : k = Cardinality(Counting) /\ n = Cardinality(Pending)
      OBVIOUS
    <3>2. req + reqMt + k = ack + n /\ ack \in Nat /\ n \in Nat
      BY <2>4, <2>5, <3>1 DEF CountInv, TypeOK, CountTypes
    <3>3. ack + n = (ack + 1) + (n - 1)
      BY <3>2
    <3> QED  BY <2>1, <2>5, <3>1, <3>2, <3>3
  <2> QED  BY <1>1, <1>2, <2>1, <2>3, <2>4, <2>6 DEF CountInv
<1>8. CASE LooksAtThread
  <2>1. PICK n, S : n = Now /\ S = Range(cache[n]) \cup Range(rcyq[n])
    OBVIOUS
  <2>2. n \in Threads
    BY <1>8, <2>1, NowIsThread DEF LooksAtThread, LogInv
  <2>3. lpc = "look" /\ lpc' \in {"visit", "hand_back"} /\ UNCHANGED <<cmdq, lhand, ack, logger>>
    BY <1>8 DEF LooksAtThread, VisitGoesOn, countVars, queueVars
  <2>4. cmds' = cmds \/ cmds' = [d \in DOMAIN cmds \ S |-> cmds[d]]
    BY <1>8, <2>1 DEF LooksAtThread
  <2>5. \A c \in Pending : c \notin S
    BY <2>1, <2>2, <2>3, Apart DEF Pending
  <2>6. Pending' = Pending /\ \A c \in Pending : cmds'[c] = cmds[c]
    BY <2>3, <2>4, <2>5 DEF Pending
  <2> QED  BY <1>1, <1>2, <2>3, <2>6, CountsSame
<1>9. CASE Recycle
  <2>1. lpc = "recycle" /\ lpc' \in {"visit", "hand_back"} /\ cmds' = [cmds EXCEPT ![lhand] = NoCall]
        /\ UNCHANGED <<cmdq, ack, logger>>
    BY <1>9 DEF Recycle, VisitGoesOn, countVars
  <2>2. \A u \in Threads : lhand \notin Range(cmdq[u])
    BY <2>1, Apart DEF LogInv, CmdLabels
  <2>3. Pending' = Pending /\ \A c \in Pending : cmds'[c] = cmds[c]
    BY <2>1, <2>2 DEF Pending
  <2> QED  BY <1>1, <1>2, <2>1, <2>3, CountsSame
<1>10. CASE UNCHANGED <<cmds, cmdq, lhand, ack, logger>> /\ lpc \notin {"do", "ack"} /\ lpc' \notin {"do", "ack"}
  <2>1. Pending' = Pending
    BY <1>10 DEF Pending
  <2> QED  BY <1>1, <1>2, <1>10, <2>1, CountsSame
<1>11. CASE LogStart \/ PassBegins \/ PassEnds \/ FindsNothing \/ PrintPiece \/ HandBack
  <2>1. UNCHANGED <<cmds, cmdq, lhand, ack, logger>>
    BY <1>11 DEF LogStart, PassBegins, PassEnds, FindsNothing, PrintPiece, HandBack, countVars, queueVars
  <2>2. lpc \notin {"do", "ack"} /\ lpc' \notin {"do", "ack"}
    BY <1>11 DEF LogStart, PassBegins, PassEnds, FindsNothing, PrintPiece, HandBack, AfterPiece
  <2> QED  BY <1>10, <2>1, <2>2
<1> QED  BY <1>4, <1>5, <1>6, <1>7, <1>8, <1>9, <1>11 DEF LogStep

(* The counts agree throughout. *)
LEMMA NextCount == TypeOK /\ PlacesInv /\ AppInv /\ LogInv /\ CountInv /\ [Next]_vars => CountInv'
<1> SUFFICES ASSUME TypeOK, PlacesInv, AppInv, LogInv, CountInv, [Next]_vars PROVE CountInv'
  OBVIOUS
<1>1. CASE UNCHANGED <<cmds, pc, call, cmdq, lhand, lpc, req, reqMt, ack, logger>>
  <2>1. Pending' = Pending /\ Counting' = Counting /\ Settled' = Settled
    BY <1>1 DEF Pending, Counting, Settled
  <2>2. lpc = "ack" => lhand \in Pending
    <3>1. lpc = "ack" => lhand \in DOMAIN cmds
      BY LoggerAssumption, Apart DEF LogInv, CmdLabels
    <3> QED  BY <3>1 DEF Pending
  <2> QED  BY <1>1, <2>1, <2>2, CountsSame DEF CountInv
<1>2. ASSUME NEW t \in Threads, NEW c, MayCall(t), Calls(t, c) PROVE CountInv'
  <2>1. pc[t] = "idle" /\ pc' = [pc EXCEPT ![t] = "get"] /\ ~Closing
        /\ UNCHANGED <<cmds, cmdq, lhand, lpc, req, reqMt, ack, logger>>
    BY <1>2 DEF MayCall, Calls, queueVars, countVars, logVars
  <2>2. pc \in [Threads -> {"idle", "get", "wait", "push", "count"}] /\ call \in [Threads -> CallType]
    BY DEF TypeOK, AppTypes
  <2>3. ~Settled
    BY <2>1, LoggerAssumption DEF Closing, Settled
  <2>4. ~Settled'
    <3>1. CASE t = Main
      BY <2>1, <2>2, <3>1 DEF Settled
    <3>2. CASE t # Main
      BY <1>2, <2>1, <2>2, <2>3, <3>2 DEF Settled, Calls
    <3> QED  BY <3>1, <3>2
  <2>5. Counting' = Counting /\ Pending' = Pending
    BY <2>1, <2>2 DEF Counting, Pending
  <2> QED  BY <2>1, <2>3, <2>4, <2>5 DEF CountInv
<1>3. ASSUME NEW t \in Threads, Begin(t) PROVE CountInv'
  BY <1>2, <1>3 DEF Begin
<1>4. CASE BeginDestroy
  BY <1>2, <1>4, LoggerAssumption DEF BeginDestroy
<1>5. ASSUME NEW t \in Threads, ThreadEnds(t) PROVE CountInv'
  BY <1>1, <1>5, Zenon DEF ThreadEnds, appVars, queueVars, logVars, countVars
<1>6. CASE StopManager \/ PrintStep \/ UNCHANGED vars
  BY <1>1, <1>6, Zenon DEF StopManager, PrintStep, TakeHeader, TakeText, PrintEnds, queueVars, logVars, appVars,
     countVars, vars
<1>7. CASE FreeManager
  <2>1. /\ ~managerRuns /\ lpc = "done" /\ cmdq' = [t \in Threads |-> <<>>]
        /\ UNCHANGED <<pc, call, lhand, lpc, req, reqMt, ack, logger>>
    BY <1>7 DEF FreeManager, appVars, countVars, logVars
  <2>2. PICK t \in Threads : call[t].option = "close" /\ pc[Main] = "idle"
    BY <2>1, LoggerAssumption DEF AppInv, Closing
  <2>3. Settled
    BY <2>2 DEF AppInv, ThreadOK, Settled
  <2>4. Settled' /\ Counting' = Counting
    BY <2>1, <2>3 DEF Settled, Counting
  <2>5. Range(<<>>) = {}
    BY DEF Range
  <2>6. Pending' = {}
    BY <2>1, <2>5 DEF Pending
  <2> QED  BY <2>1, <2>3, <2>4, <2>6 DEF CountInv
<1> QED  BY <1>3, <1>4, <1>5, <1>6, <1>7, CallStepCount, LogStepCount DEF Next

-----------------------------------------------------------------------------
(***************************************************************************)
(* What was accepted and not carried out is what the queue holds.          *)
(***************************************************************************)

(* The commands that wait, or are carried out, say the same until they are. *)
LEMMA PendingSays ==
  ASSUME TypeOK, PlacesInv, AppInv, LogInv, NEW t \in Threads, CallStep(t) \/ LogStep
  PROVE  \A c \in Pending : cmds'[c] = cmds[c]
<1>1. CASE UNCHANGED cmds
  BY <1>1
<1>2. ASSUME NEW X, X \subseteq ({hand[t]} \ {None}) \cup Range(rcyq[t]), cmds' = [d \in DOMAIN cmds \ X |-> cmds[d]],
             UNCHANGED <<cmdq, lhand, lpc>>
      PROVE  \A c \in Pending : cmds'[c] = cmds[c]
  <2>1. DOMAIN cmds' = DOMAIN cmds \ X /\ \A c \in DOMAIN cmds \ X : cmds'[c] = cmds[c]
    BY <1>2
  <2> QED  BY <1>2, <2>1, PendingKept
<1>3. CASE GetRecycled(t)
  <2>1. CASE hand[t] # None
    <3>1. PICK X : X = {hand[t]}
      OBVIOUS
    <3>2. cmds' = [d \in DOMAIN cmds \ X |-> cmds[d]] /\ UNCHANGED <<cmdq, lhand, lpc>>
      BY <1>3, <2>1, <3>1 DEF GetRecycled, Delete, logVars
    <3>3. X \subseteq ({hand[t]} \ {None}) \cup Range(rcyq[t])
      BY <2>1, <3>1
    <3> QED  BY <1>2, <3>2, <3>3
  <2> QED  BY <1>1, <1>3, <2>1 DEF GetRecycled
<1>4. CASE Refused(t)
  <2>1. PICK X : X = {hand[t]}
    OBVIOUS
  <2>2. cmds' = [d \in DOMAIN cmds \ X |-> cmds[d]] /\ UNCHANGED <<cmdq, lhand, lpc>> /\ hand[t] # None
    BY <1>4, <2>1 DEF Refused, Delete, logVars, queueVars, AppInv, ThreadOK
  <2>3. X \subseteq ({hand[t]} \ {None}) \cup Range(rcyq[t])
    BY <2>1, <2>2
  <2> QED  BY <1>2, <2>2, <2>3
<1>5. CASE FreeRecycled(t)
  <2>1. PICK X : X = {rcyq[t][1]}
    OBVIOUS
  <2>2. cmds' = [d \in DOMAIN cmds \ X |-> cmds[d]] /\ UNCHANGED <<cmdq, lhand, lpc>>
    BY <1>5, <2>1 DEF FreeRecycled, Delete, logVars
  <2>3. X \subseteq ({hand[t]} \ {None}) \cup Range(rcyq[t])
    BY <1>5, <2>1, TailHolds DEF FreeRecycled, TypeOK, QueueTypes
  <2> QED  BY <1>2, <2>2, <2>3
<1>6. CASE GotCommand(t)
  <2>1. PICK c : c = IF hand[t] = None THEN NewCmd ELSE hand[t]
    OBVIOUS
  <2>2. cmds' = [d \in DOMAIN cmds \cup {c} |-> IF d = c THEN call[t] ELSE cmds[d]]
    BY <1>6, <2>1 DEF GotCommand
  <2>3. c # lhand \/ lhand = None
    BY <2>1, NewCmdIsNew, Apart DEF TypeOK, CmdTypes
  <2>4. \A u \in Threads : c \notin Range(cmdq[u])
    BY <2>1, NewCmdIsNew, Apart DEF TypeOK, CmdTypes
  <2>5. c # None /\ None \notin DOMAIN cmds
    BY <2>1, NewCmdIsNew DEF TypeOK, CmdTypes
  <2> QED  BY <2>2, <2>3, <2>4, <2>5 DEF Pending
<1>7. CASE LooksAtThread
  <2>1. PICK n, S : n = Now /\ S = Range(cache[n]) \cup Range(rcyq[n])
    OBVIOUS
  <2>2. n \in Threads /\ lpc = "look"
    BY <1>7, <2>1, NowIsThread DEF LooksAtThread, LogInv
  <2>3. cmds' = cmds \/ cmds' = [d \in DOMAIN cmds \ S |-> cmds[d]]
    BY <1>7, <2>1 DEF LooksAtThread
  <2>4. \A c \in Pending : c \notin S
    BY <2>1, <2>2, Apart DEF Pending
  <2> QED  BY <2>3, <2>4 DEF Pending
<1>8. CASE Recycle
  <2>1. lpc = "recycle" /\ cmds' = [cmds EXCEPT ![lhand] = NoCall]
    BY <1>8 DEF Recycle
  <2>2. \A u \in Threads : lhand \notin Range(cmdq[u])
    BY <2>1, Apart DEF LogInv, CmdLabels
  <2> QED  BY <2>1, <2>2 DEF Pending
<1> QED
  BY <1>1, <1>3, <1>4, <1>5, <1>6, <1>7, <1>8 DEF CallStep, LogStep, WaitForAcks, Push, Count, LogStart, PassBegins,
     PassEnds, Pop, FindsNothing, WriteOrReset, Flush, Close, Ack, PrintPiece, HandBack

(* The commands of a queue are pending. *)
LEMMA QueuedPending ==
  ASSUME TypeOK, PlacesInv, LogInv
  PROVE  /\ \A t \in Threads : \A i \in 1 .. Len(cmdq[t]) : cmdq[t][i] \in Pending
         /\ lpc = "do" => lhand \in Pending
<1>1. ASSUME NEW t \in Threads, NEW i \in 1 .. Len(cmdq[t]) PROVE cmdq[t][i] \in Pending
  <2>1. cmdq[t] \in Seq(Nat)
    BY DEF TypeOK, QueueTypes
  <2>2. cmdq[t][i] \in Range(cmdq[t])
    BY <2>1 DEF Range
  <2> QED  BY <2>2, Apart DEF Pending
<1>2. ASSUME lpc = "do" PROVE lhand \in Pending
  <2>1. lhand \in DOMAIN cmds
    BY <1>2, Apart, LoggerAssumption DEF LogInv, CmdLabels
  <2> QED  BY <1>2, <2>1 DEF Pending
<1> QED  BY <1>1, <1>2

(* A step that queues nothing and carries nothing out. *)
LEMMA OrderKept ==
  ASSUME TypeOK, PlacesInv, LogInv, OrderInv, \A c \in Pending : cmds'[c] = cmds[c],
         UNCHANGED <<cmdq, owed, wrong>>,
         (lpc # "do" /\ lpc' # "do") \/ UNCHANGED <<lpc, todo, lhand>>
  PROVE  OrderInv'
<1>1. "order" \notin wrong'
  BY DEF OrderInv
<1>2. lpc' = "do" => cmds'[lhand'].from = Now' /\ owed'[Now'] # <<>> /\ owed'[Now'][1] = cmds'[lhand'].n
  BY QueuedPending DEF OrderInv, Now
<1>3. ASSUME NEW t \in Threads PROVE OwedOK(t)'
  <2>1. Doing(t)' = Doing(t)
    BY DEF Doing, Now
  <2>2. \A i \in 1 .. Len(cmdq[t]) : cmds'[cmdq[t][i]] = cmds[cmdq[t][i]]
    BY QueuedPending
  <2> QED  BY <2>1, <2>2 DEF OwedOK, OrderInv
<1> QED  BY <1>1, <1>2, <1>3 DEF OrderInv

(* A command is queued. *)
LEMMA PushOrder ==
  ASSUME TypeOK, PlacesInv, AppInv, LogInv, OrderInv, NEW t \in Threads, Push(t)
  PROVE  OrderInv'
<1>1. /\ pc[t] = "push" /\ cmdq' = [cmdq EXCEPT ![t] = Append(@, hand[t])]
      /\ owed' = [owed EXCEPT ![t] = Append(@, call[t].n)]
      /\ UNCHANGED <<cmds, lhand, lpc, todo, wrong>>
  BY DEF Push, logVars
<1>2. PICK c, n, q, o : c = hand[t] /\ n = call[t].n /\ q = Append(cmdq[t], c) /\ o = Append(owed[t], n)
  OBVIOUS
<1>3. c \in Nat /\ n \in Nat /\ cmdq[t] \in Seq(Nat) /\ owed[t] \in Seq(Nat)
  BY <1>2 DEF TypeOK, AppTypes, QueueTypes, DoneTypes, CallType
<1>4. cmds[c] = call[t] /\ call[t].from = t
  BY <1>1, <1>2 DEF AppInv, ThreadOK
<1>5. \A u \in Threads : cmdq'[u] = (IF u = t THEN q ELSE cmdq[u]) /\ owed'[u] = (IF u = t THEN o ELSE owed[u])
  BY <1>1, <1>2 DEF TypeOK, QueueTypes, DoneTypes
<1>6. \A u \in Threads : Doing(u)' = Doing(u) /\ Doing(u) \in {0, 1}
  BY <1>1 DEF Doing, Now
<1>7. /\ Len(q) = Len(cmdq[t]) + 1 /\ (\A i \in 1 .. Len(cmdq[t]) : q[i] = cmdq[t][i]) /\ q[Len(cmdq[t]) + 1] = c
      /\ Len(o) = Len(owed[t]) + 1 /\ (\A i \in 1 .. Len(owed[t]) : o[i] = owed[t][i]) /\ o[Len(owed[t]) + 1] = n
      /\ o # <<>> /\ Len(cmdq[t]) \in Nat /\ Len(owed[t]) \in Nat
  <2>1. PICK a, b : a = cmdq[t] /\ b = owed[t]
    OBVIOUS
  <2>2. a \in Seq(Nat) /\ b \in Seq(Nat) /\ q = Append(a, c) /\ o = Append(b, n)
    BY <1>2, <1>3, <2>1
  <2>3. Len(q) = Len(a) + 1 /\ (\A i \in 1 .. Len(a) : q[i] = a[i]) /\ q[Len(a) + 1] = c
    <3>1. c \in Nat /\ a \in Seq(Nat)
      BY <1>3, <2>1
    <3>2. /\ Len(Append(a, c)) = Len(a) + 1
          /\ \A i \in 1 .. Len(a) : Append(a, c)[i] = a[i]
          /\ Append(a, c)[Len(a) + 1] = c
      BY <3>1, AppendHolds
    <3> QED  BY <2>2, <3>2
  <2>4. Len(o) = Len(b) + 1 /\ (\A i \in 1 .. Len(b) : o[i] = b[i]) /\ o[Len(b) + 1] = n /\ o # <<>>
    <3>1. n \in Nat /\ b \in Seq(Nat)
      BY <1>3, <2>1
    <3>2. /\ Len(Append(b, n)) = Len(b) + 1 /\ Append(b, n) # <<>>
          /\ \A i \in 1 .. Len(b) : Append(b, n)[i] = b[i]
          /\ Append(b, n)[Len(b) + 1] = n
      BY <3>1, AppendHolds
    <3> QED  BY <2>2, <3>2
  <2> QED  BY <2>1, <2>2, <2>3, <2>4
<1>8. OwedOK(t)'
  <2>1. PICK m, k, d : m = Len(cmdq[t]) /\ k = Len(owed[t]) /\ d = Doing(t)
    OBVIOUS
  <2>2. m \in Nat /\ k \in Nat /\ d \in {0, 1} /\ k = m + d
    BY <1>6, <1>7, <2>1 DEF OrderInv, OwedOK
  <2>3. ASSUME NEW i \in 1 .. m + 1 PROVE cmds[q[i]].from = t /\ o[i + d] = cmds[q[i]].n
    <3>1. CASE i = m + 1
      <4>1. q[i] = c /\ i + d = k + 1 /\ o[k + 1] = n
        BY <1>7, <2>1, <2>2, <3>1
      <4> QED  BY <1>2, <1>4, <4>1
    <3>2. CASE i # m + 1
      <4>1. i \in 1 .. m /\ i + d \in 1 .. k
        BY <2>2, <3>2
      <4>2. cmds[cmdq[t][i]].from = t /\ owed[t][i + d] = cmds[cmdq[t][i]].n
        BY <2>1, <4>1 DEF OrderInv, OwedOK
      <4> QED  BY <1>7, <2>1, <4>1, <4>2
    <3> QED  BY <3>1, <3>2
  <2>4. Len(q) = m + 1 /\ Len(o) = (m + 1) + d
    BY <1>7, <2>1, <2>2
  <2>5. cmdq'[t] = q /\ owed'[t] = o /\ Doing(t)' = d /\ cmds' = cmds
    BY <1>1, <1>5, <1>6, <2>1
  <2> QED  BY <2>3, <2>4, <2>5 DEF OwedOK
<1>9. ASSUME NEW u \in Threads PROVE OwedOK(u)'
  <2>1. CASE u # t
    <3>1. cmdq'[u] = cmdq[u] /\ owed'[u] = owed[u] /\ Doing(u)' = Doing(u) /\ cmds' = cmds
      BY <1>1, <1>5, <1>6, <2>1
    <3> QED  BY <3>1 DEF OwedOK, OrderInv
  <2> QED  BY <1>8, <2>1
<1>10. ASSUME lpc' = "do"
       PROVE  cmds'[lhand'].from = Now' /\ owed'[Now'] # <<>> /\ owed'[Now'][1] = cmds'[lhand'].n
  <2>1. Now \in Threads /\ Now' = Now /\ lpc = "do"
    BY <1>1, <1>10, NowIsThread DEF LogInv, CmdLabels, Now
  <2>2. cmds[lhand].from = Now /\ owed[Now] # <<>> /\ owed[Now][1] = cmds[lhand].n
    BY <2>1 DEF OrderInv
  <2>3. CASE Now = t
    <3>1. 1 \in 1 .. Len(owed[t])
      BY <1>3, <2>2, <2>3, EmptySeq
    <3>2. o # <<>> /\ o[1] = owed[t][1]
      BY <1>7, <3>1
    <3> QED  BY <1>1, <1>5, <2>1, <2>2, <2>3, <3>2
  <2>4. CASE Now # t
    BY <1>1, <1>5, <2>1, <2>2, <2>4
  <2> QED  BY <2>3, <2>4
<1> QED  BY <1>1, <1>9, <1>10 DEF OrderInv

(* A command is taken out. *)
LEMMA PopOrder ==
  ASSUME TypeOK, LogInv, OrderInv, Pop
  PROVE  OrderInv'
<1>1. PICK n, c, q : n = Now /\ c = cmdq[n][1] /\ q = Tail(cmdq[n])
  OBVIOUS
<1>2. /\ n \in Threads /\ lpc = "visit" /\ lpc' = "do" /\ cmdq' = [cmdq EXCEPT ![n] = q] /\ lhand' = c
      /\ cmdq[n] # <<>> /\ UNCHANGED <<cmds, todo, owed, wrong>>
  BY <1>1, NowIsThread DEF Pop
<1>3. cmdq[n] \in Seq(Nat) /\ owed[n] \in Seq(Nat)
  BY <1>2 DEF TypeOK, QueueTypes, DoneTypes
<1>4. Len(cmdq[n]) \in Nat \ {0} /\ Len(q) = Len(cmdq[n]) - 1 /\ \A i \in 1 .. Len(q) : q[i] = cmdq[n][i + 1]
  BY <1>1, <1>2, <1>3, TailHolds
<1>5. \A u \in Threads : cmdq'[u] = (IF u = n THEN q ELSE cmdq[u]) /\ Doing(u) = 0
                         /\ Doing(u)' = (IF u = n THEN 1 ELSE 0)
  BY <1>1, <1>2 DEF TypeOK, QueueTypes, Doing, Now
<1>6. /\ Len(owed[n]) = Len(cmdq[n])
      /\ \A i \in 1 .. Len(cmdq[n]) : cmds[cmdq[n][i]].from = n /\ owed[n][i] = cmds[cmdq[n][i]].n
  <2>1. Len(owed[n]) = Len(cmdq[n]) + 0
        /\ \A i \in 1 .. Len(cmdq[n]) : cmds[cmdq[n][i]].from = n /\ owed[n][i + 0] = cmds[cmdq[n][i]].n
    BY <1>2, <1>5 DEF OrderInv, OwedOK
  <2> QED  BY <1>4, <2>1
<1>7. OwedOK(n)'
  <2>1. Len(owed[n]) = Len(q) + 1
    BY <1>4, <1>6
  <2>2. \A i \in 1 .. Len(q) : cmds[q[i]].from = n /\ owed[n][i + 1] = cmds[q[i]].n
    <3> SUFFICES ASSUME NEW i \in 1 .. Len(q) PROVE cmds[q[i]].from = n /\ owed[n][i + 1] = cmds[q[i]].n
      OBVIOUS
    <3>1. i + 1 \in 1 .. Len(cmdq[n])
      BY <1>4
    <3> QED  BY <1>4, <1>6, <3>1
  <2>3. cmdq'[n] = q /\ Doing(n)' = 1 /\ owed' = owed /\ cmds' = cmds
    BY <1>2, <1>5
  <2> QED  BY <2>1, <2>2, <2>3 DEF OwedOK
<1>8. ASSUME NEW u \in Threads PROVE OwedOK(u)'
  <2>1. CASE u # n
    <3>1. cmdq'[u] = cmdq[u] /\ owed' = owed /\ Doing(u)' = Doing(u) /\ cmds' = cmds
      BY <1>2, <1>5, <2>1
    <3> QED  BY <3>1 DEF OwedOK, OrderInv
  <2> QED  BY <1>7, <2>1
<1>9. cmds[c].from = n /\ owed[n] # <<>> /\ owed[n][1] = cmds[c].n
  <2>1. 1 \in 1 .. Len(cmdq[n])
    BY <1>4
  <2>2. Len(owed[n]) # 0
    BY <1>4, <1>6
  <2>3. owed[n] # <<>>
    BY <1>3, <2>2, EmptySeq
  <2> QED  BY <1>1, <1>6, <2>1, <2>3
<1>10. Now' = n
  BY <1>1, <1>2 DEF Now
<1> QED  BY <1>2, <1>8, <1>9, <1>10 DEF OrderInv

(* A command is carried out: the one its thread is owed first. *)
LEMMA DoneOrder ==
  ASSUME TypeOK, LogInv, OrderInv, lpc = "do", lpc' # "do", CarriedOut(Cmd), UNCHANGED <<cmds, cmdq>>
  PROVE  OrderInv' /\ wrong' = wrong
<1>1. PICK n, o : n = Now /\ o = Tail(owed[n])
  OBVIOUS
<1>2. n \in Threads /\ cmds[lhand].from = n /\ owed[n] # <<>> /\ owed[n][1] = cmds[lhand].n
  BY <1>1, NowIsThread DEF OrderInv, LogInv, CmdLabels
<1>3. owed' = [owed EXCEPT ![n] = o] /\ wrong' = wrong
  BY <1>1, <1>2 DEF CarriedOut, Cmd
<1>4. cmdq[n] \in Seq(Nat) /\ owed[n] \in Seq(Nat)
  BY <1>2 DEF TypeOK, QueueTypes, DoneTypes
<1>5. Len(owed[n]) \in Nat \ {0} /\ Len(o) = Len(owed[n]) - 1 /\ \A i \in 1 .. Len(o) : o[i] = owed[n][i + 1]
  BY <1>1, <1>2, <1>4, TailHolds
<1>6. \A u \in Threads : owed'[u] = (IF u = n THEN o ELSE owed[u]) /\ Doing(u)' = 0
                         /\ Doing(u) = (IF u = n THEN 1 ELSE 0)
  BY <1>1, <1>2, <1>3 DEF TypeOK, DoneTypes, Doing, Now
<1>7. /\ Len(owed[n]) = Len(cmdq[n]) + 1
      /\ \A i \in 1 .. Len(cmdq[n]) : cmds[cmdq[n][i]].from = n /\ owed[n][i + 1] = cmds[cmdq[n][i]].n
  <2>1. OwedOK(n) /\ Doing(n) = 1
    BY <1>2, <1>6 DEF OrderInv
  <2> QED  BY ONLY <2>1 DEF OwedOK
<1>8. OwedOK(n)'
  <2>1. PICK m : m = Len(cmdq[n])
    OBVIOUS
  <2>2. m \in Nat /\ Len(o) = m + 0
    BY <1>4, <1>5, <1>7, <2>1
  <2>3. \A i \in 1 .. m : cmds[cmdq[n][i]].from = n /\ o[i + 0] = cmds[cmdq[n][i]].n
    BY <1>5, <1>7, <2>1, <2>2
  <2>4. owed'[n] = o /\ Doing(n)' = 0 /\ cmdq' = cmdq /\ cmds' = cmds
    BY <1>2, <1>6
  <2> QED  BY <2>1, <2>2, <2>3, <2>4 DEF OwedOK
<1>9. ASSUME NEW u \in Threads PROVE OwedOK(u)'
  <2>1. CASE u # n
    <3>1. owed'[u] = owed[u] /\ Doing(u)' = Doing(u)
      BY <1>6, <2>1
    <3> QED  BY <3>1 DEF OwedOK, OrderInv
  <2> QED  BY <1>8, <2>1
<1> QED  BY <1>3, <1>9 DEF OrderInv

(* Nothing is owed to any thread once the log thread has ended. *)
LEMMA DoneOwesNothing ==
  ASSUME TypeOK, LogInv, OrderInv, lpc = "done", NEW t \in Threads
  PROVE  cmdq[t] = <<>> /\ owed[t] = <<>> /\ Doing(t) = 0
<1>1. cmdq[t] = <<>>
  BY DEF LogInv, Contains
<1>2. Doing(t) = 0
  BY DEF Doing
<1>3. Len(cmdq[t]) = 0 /\ owed[t] \in Seq(Nat)
  BY <1>1 DEF TypeOK, DoneTypes
<1>4. Len(owed[t]) = 0
  BY <1>2, <1>3 DEF OrderInv, OwedOK
<1> QED  BY <1>1, <1>2, <1>3, <1>4, EmptySeq

(* What is owed is what is queued, in its order, throughout. *)
LEMMA NextOrder == TypeOK /\ PlacesInv /\ AppInv /\ LogInv /\ OrderInv /\ [Next]_vars => OrderInv'
<1> SUFFICES ASSUME TypeOK, PlacesInv, AppInv, LogInv, OrderInv, [Next]_vars PROVE OrderInv'
  OBVIOUS
<1>1. CASE UNCHANGED <<cmds, cmdq, owed, wrong, lpc, todo, lhand>>
  BY <1>1, OrderKept
<1>2. ASSUME NEW t \in Threads, Begin(t) \/ BeginDestroy \/ ThreadEnds(t) PROVE OrderInv'
  BY <1>1, <1>2, Zenon DEF Begin, BeginDestroy, Calls, ThreadEnds, queueVars, logVars
<1>3. CASE StopManager \/ PrintEnds \/ UNCHANGED vars
  BY <1>1, <1>3, Zenon DEF StopManager, PrintEnds, queueVars, logVars, vars
<1>4. CASE TakeHeader \/ TakeText
  <2>1. UNCHANGED <<cmds, cmdq, owed, lpc, todo, lhand>> /\ wrong' \in {wrong, wrong \cup {"text"}}
    BY <1>4 DEF TakeHeader, TakeText, queueVars, logVars
  <2>2. "order" \notin wrong'
    BY <2>1 DEF OrderInv
  <2>3. \A t \in Threads : OwedOK(t)'
    BY <2>1, ZenonT(60) DEF OrderInv, OwedOK, Doing, Now
  <2>4. lpc' = "do" => cmds'[lhand'].from = Now' /\ owed'[Now'] # <<>> /\ owed'[Now'][1] = cmds'[lhand'].n
    BY <2>1 DEF OrderInv, Now
  <2> QED  BY <2>2, <2>3, <2>4 DEF OrderInv
<1>5. ASSUME NEW t \in Threads, CallStep(t) PROVE OrderInv'
  <2>1. CASE Push(t)
    BY <2>1, PushOrder
  <2>2. CASE GetRecycled(t) \/ GotCommand(t) \/ WaitForAcks(t) \/ Count(t) \/ Refused(t) \/ FreeRecycled(t)
    <3>1. UNCHANGED <<cmdq, owed, wrong, lpc, todo, lhand>>
      BY <2>2 DEF GetRecycled, GotCommand, WaitForAcks, Count, Refused, FreeRecycled, queueVars, logVars
    <3> QED  BY <1>5, <3>1, PendingSays, OrderKept
  <2> QED  BY <1>5, <2>1, <2>2 DEF CallStep
<1>6. CASE LogStep
  <2>1. CASE Pop
    BY <2>1, PopOrder
  <2>2. CASE WriteOrReset \/ Flush \/ Close
    <3>1. lpc = "do" /\ lpc' # "do" /\ CarriedOut(Cmd) /\ UNCHANGED <<cmds, cmdq>>
      BY <2>2 DEF WriteOrReset, Flush, Close, queueVars
    <3> QED  BY <3>1, DoneOrder
  <2>3. CASE LogStart \/ PassBegins \/ PassEnds \/ FindsNothing \/ LooksAtThread \/ Ack \/ PrintPiece \/ Recycle
             \/ HandBack
    <3>1. UNCHANGED <<cmdq, owed, wrong>>
      BY <2>3 DEF LogStart, PassBegins, PassEnds, FindsNothing, LooksAtThread, Ack, PrintPiece, Recycle, HandBack, queueVars
    <3>2. lpc # "do" /\ lpc' # "do"
      BY <2>3 DEF LogStart, PassBegins, PassEnds, FindsNothing, LooksAtThread, Ack, PrintPiece, Recycle, HandBack,
         VisitGoesOn, AfterPiece
    <3> QED  BY <1>6, <3>1, <3>2, LoggerAssumption, PendingSays, OrderKept
  <2> QED  BY <1>6, <2>1, <2>2, <2>3 DEF LogStep
<1>7. CASE FreeManager
  <2>1. /\ lpc = "done" /\ cmdq' = [t \in Threads |-> <<>>] /\ UNCHANGED <<owed, lpc>>
        /\ wrong' \in {wrong, wrong \cup {"stray"}}
    BY <1>7 DEF FreeManager, logVars
  <2>2. ASSUME NEW t \in Threads PROVE OwedOK(t)'
    <3>1. cmdq'[t] = <<>> /\ owed'[t] = <<>> /\ Doing(t)' = 0
      BY <2>1, DoneOwesNothing DEF Doing
    <3>2. Len(<<>>) = 0 /\ 1 .. 0 = {} /\ 0 + 0 = 0
      OBVIOUS
    <3> QED  BY <3>1, <3>2 DEF OwedOK
  <2> QED  BY <2>1, <2>2 DEF OrderInv
<1> QED  BY <1>2, <1>3, <1>4, <1>5, <1>6, <1>7, LoggerAssumption DEF Next, PrintStep

-----------------------------------------------------------------------------
(***************************************************************************)
(* What the print thread still owes at each piece of the print cache.      *)
(***************************************************************************)

(* The pieces put in make sense to the one that takes them: a header where nothing is due, else text. *)
LEMMA WholeAppend ==
  ASSUME NEW ps \in Seq(0 .. 2), NEW from \in 0 .. 2, NEW to \in 0 .. 2, IsWhole(ps, from, to),
         NEW e \in 0 .. 2, NEW next \in 0 .. 2,
         IF to > 0 THEN e = 0 /\ next = to - 1 ELSE e # 0 /\ next = e
  PROVE  IsWhole(Append(ps, e), from, next) /\ Append(ps, e) \in Seq(0 .. 2) /\ Len(Append(ps, e)) = Len(ps) + 1
<1>1. PICK d \in [0 .. Len(ps) -> 0 .. 2] : Whole(d, ps, from, to)
  BY DEF IsWhole
<1>2. PICK k, qs : k = Len(ps) /\ qs = Append(ps, e)
  OBVIOUS
<1>3. qs \in Seq(0 .. 2) /\ Len(qs) = k + 1 /\ (\A i \in 1 .. k : qs[i] = ps[i]) /\ qs[k + 1] = e /\ k \in Nat
  BY <1>2, AppendProperties
<1>4. PICK f : f = [i \in 0 .. k + 1 |-> IF i = k + 1 THEN next ELSE d[i]]
  OBVIOUS
<1>5. f \in [0 .. k + 1 -> 0 .. 2] /\ f[k + 1] = next /\ \A i \in 0 .. k : f[i] = d[i]
  BY <1>1, <1>2, <1>3, <1>4
<1>6. /\ d[0] = from /\ d[k] = to
      /\ \A i \in 1 .. k : IF d[i - 1] > 0 THEN ps[i] = 0 /\ d[i] = d[i - 1] - 1 ELSE ps[i] # 0 /\ d[i] = ps[i]
  BY <1>1, <1>2 DEF Whole
<1>7. ASSUME NEW i \in 1 .. k + 1
      PROVE  IF f[i - 1] > 0 THEN qs[i] = 0 /\ f[i] = f[i - 1] - 1 ELSE qs[i] # 0 /\ f[i] = qs[i]
  <2>1. CASE i = k + 1
    <3>1. i - 1 = k /\ f[k] = to
      BY <1>3, <1>5, <1>6, <2>1
    <3> QED  BY <1>3, <1>5, <2>1, <3>1
  <2>2. CASE i # k + 1
    <3>1. i \in 1 .. k /\ i \in 0 .. k /\ i - 1 \in 0 .. k
      BY <1>3, <2>2
    <3> QED  BY <1>3, <1>5, <1>6, <3>1
  <2> QED  BY <2>1, <2>2
<1>8. f[0] = from
  BY <1>3, <1>5, <1>6
<1>9. IsWhole(qs, from, next)
  <2>1. f \in [0 .. Len(qs) -> 0 .. 2] /\ f[Len(qs)] = next
    BY <1>3, <1>5
  <2>2. Whole(f, qs, from, next)
    BY <1>3, <1>7, <1>8, <2>1, Zenon DEF Whole
  <2> QED  BY <2>1, <2>2, Zenon DEF IsWhole
<1> QED  BY <1>2, <1>3, <1>9

(* The piece taken out is the one expected, and so are the others. *)
LEMMA WholeTail ==
  ASSUME NEW ps \in Seq(0 .. 2), NEW from \in 0 .. 2, NEW to \in 0 .. 2, IsWhole(ps, from, to), ps # <<>>
  PROVE  /\ from = 0 => ps[1] # 0 /\ IsWhole(Tail(ps), ps[1], to)
         /\ from > 0 => ps[1] = 0 /\ IsWhole(Tail(ps), from - 1, to)
         /\ Len(Tail(ps)) = Len(ps) - 1 /\ Len(ps) \in Nat
<1>1. PICK d \in [0 .. Len(ps) -> 0 .. 2] : Whole(d, ps, from, to)
  BY DEF IsWhole
<1>2. PICK k, qs : k = Len(ps) /\ qs = Tail(ps)
  OBVIOUS
<1>3. k \in Nat \ {0} /\ Len(qs) = k - 1 /\ \A i \in 1 .. k - 1 : qs[i] = ps[i + 1]
  <2>1. Len(Tail(ps)) = Len(ps) - 1 /\ \A i \in 1 .. Len(Tail(ps)) : Tail(ps)[i] = ps[i + 1]
    BY HeadTailProperties
  <2>2. Len(ps) \in Nat \ {0}
    BY EmptySeq
  <2> QED  BY <1>2, <2>1, <2>2
<1>4. /\ d[0] = from /\ d[k] = to
      /\ \A i \in 1 .. k : IF d[i - 1] > 0 THEN ps[i] = 0 /\ d[i] = d[i - 1] - 1 ELSE ps[i] # 0 /\ d[i] = ps[i]
  BY <1>1, <1>2 DEF Whole
<1>5. PICK f : f = [i \in 0 .. k - 1 |-> d[i + 1]]
  OBVIOUS
<1>6. f \in [0 .. k - 1 -> 0 .. 2] /\ \A i \in 0 .. k - 1 : f[i] = d[i + 1]
  <2>1. \A i \in 0 .. k - 1 : i + 1 \in 0 .. k
    BY <1>3
  <2> QED  BY <1>1, <1>2, <1>5, <2>1
<1>7. ASSUME NEW i \in 1 .. k - 1
      PROVE  IF f[i - 1] > 0 THEN qs[i] = 0 /\ f[i] = f[i - 1] - 1 ELSE qs[i] # 0 /\ f[i] = qs[i]
  <2>1. i + 1 \in 1 .. k /\ i \in 0 .. k - 1 /\ i - 1 \in 0 .. k - 1 /\ (i + 1) - 1 = i /\ (i - 1) + 1 = i
    BY <1>3
  <2>2. f[i - 1] = d[i] /\ f[i] = d[i + 1] /\ qs[i] = ps[i + 1]
    BY <1>3, <1>6, <2>1
  <2>3. IF d[i] > 0 THEN ps[i + 1] = 0 /\ d[i + 1] = d[i] - 1 ELSE ps[i + 1] # 0 /\ d[i + 1] = ps[i + 1]
    BY <1>4, <2>1
  <2> QED  BY <2>2, <2>3
<1>8. f[0] = d[1] /\ f[k - 1] = to
  <2>1. 0 \in 0 .. k - 1 /\ k - 1 \in 0 .. k - 1 /\ (k - 1) + 1 = k /\ 0 + 1 = 1
    BY <1>3
  <2> QED  BY <1>4, <1>6, <2>1
<1>9. IF from > 0 THEN ps[1] = 0 /\ d[1] = from - 1 ELSE ps[1] # 0 /\ d[1] = ps[1]
  <2>1. 1 \in 1 .. k /\ 1 - 1 = 0
    BY <1>3
  <2> QED  BY <1>4, <2>1
<1>10. IsWhole(qs, d[1], to)
  <2>1. f \in [0 .. Len(qs) -> 0 .. 2] /\ f[Len(qs)] = to
    BY <1>3, <1>6, <1>8
  <2>2. Whole(f, qs, d[1], to)
    BY <1>3, <1>7, <1>8, <2>1, Zenon DEF Whole
  <2> QED  BY <2>1, <2>2, Zenon DEF IsWhole
<1> QED  BY <1>2, <1>3, <1>9, <1>10

(* The text of an error: a header and one piece. *)
LEMMA ErrorPieces ==
  ASSUME NEW ps \in Seq(0 .. 2)
  PROVE  ps \o ErrorText = Append(Append(ps, 1), 0)
<1>1. PICK a, b, k : a = Append(ps, 1) /\ b = Append(a, 0) /\ k = Len(ps)
  OBVIOUS
<1>2. a \in Seq(0 .. 2) /\ Len(a) = k + 1 /\ (\A i \in 1 .. k : a[i] = ps[i]) /\ a[k + 1] = 1 /\ k \in Nat
  BY <1>1, AppendProperties
<1>3. b \in Seq(0 .. 2) /\ Len(b) = k + 2 /\ (\A i \in 1 .. k + 1 : b[i] = a[i]) /\ b[k + 2] = 0
  BY <1>1, <1>2, AppendProperties
<1>4. ErrorText \in Seq(0 .. 2) /\ Len(ErrorText) = 2 /\ ErrorText[1] = 1 /\ ErrorText[2] = 0
  BY DEF ErrorText
<1>5. PICK c : c = ps \o ErrorText
  OBVIOUS
<1>6. c \in Seq(0 .. 2) /\ Len(c) = k + 2
      /\ \A i \in 1 .. k + 2 : c[i] = IF i <= k THEN ps[i] ELSE ErrorText[i - k]
  <2>1. PICK e : e = ErrorText
    OBVIOUS
  <2>2. e \in Seq(0 .. 2) /\ Len(e) = 2
    BY <1>4, <2>1
  <2>3. /\ ps \o e \in Seq(0 .. 2) /\ Len(ps \o e) = Len(ps) + Len(e)
        /\ \A i \in 1 .. Len(ps) + Len(e) : (ps \o e)[i] = IF i <= Len(ps) THEN ps[i] ELSE e[i - Len(ps)]
    BY <2>2, ConcatProperties
  <2> QED  BY <1>1, <1>5, <2>1, <2>2, <2>3
<1>7. \A i \in 1 .. k + 2 : c[i] = b[i]
  <2> SUFFICES ASSUME NEW i \in 1 .. k + 2 PROVE c[i] = b[i]
    OBVIOUS
  <2>1. CASE i <= k
    <3>1. i \in 1 .. k /\ i \in 1 .. k + 1
      BY <1>2, <2>1
    <3> QED  BY <1>2, <1>3, <1>6, <2>1, <3>1
  <2>2. CASE i = k + 1
    <3>1. i - k = 1 /\ ~(i <= k) /\ i \in 1 .. k + 1
      BY <1>2, <2>2
    <3> QED  BY <1>2, <1>3, <1>4, <1>6, <2>2, <3>1
  <2>3. CASE i = k + 2
    <3>1. i - k = 2 /\ ~(i <= k)
      BY <1>2, <2>3
    <3> QED  BY <1>3, <1>4, <1>6, <2>3, <3>1
  <2> QED  BY <1>2, <2>1, <2>2, <2>3
<1>8. c = b
  BY <1>3, <1>6, <1>7, SeqEqual
<1> QED  BY <1>1, <1>5, <1>8

(* What the print thread is owed, in the cache and by the log thread. *)
LEMMA OwingTyped == Owing \in 0 .. 2 /\ Room3 \in 0 .. 3
BY DEF Owing, Room3

(* A step that touches neither the pieces nor what is due. *)
LEMMA PrintKept ==
  ASSUME PrintInv, UNCHANGED <<prints, due, crushed>>, "text" \notin wrong', ppc' = "done" => due = 0,
         lpc \notin {"header", "prefix", "text"}, lpc' \notin {"header", "prefix", "text"} \/ (lpc' = "header" /\ PrintFree >= 3)
  PROVE  PrintInv'
<1>1. Owing = 0 /\ Owing' = 0
  BY DEF Owing
<1>2. Room3' > 0 => PrintFree' >= Room3'
  BY DEF Room3, PrintFree
<1> QED  BY <1>1, <1>2 DEF PrintInv

(* The log thread puts records whole, for which there is room. *)
LEMMA LogStepPrint ==
  ASSUME TypeOK, LogInv, OrderInv, PrintInv, LogStep
  PROVE  PrintInv'
<1>1. prints \in Seq(0 .. 2) /\ due \in 0 .. 2 /\ Len(prints) \in Nat /\ PrintSize \in Nat
  BY LoggerAssumption DEF TypeOK, PrintTypes
<1>2. UNCHANGED <<due, ppc>>
  BY DEF LogStep, LogStart, PassBegins, PassEnds, Pop, FindsNothing, LooksAtThread, WriteOrReset, Flush, Close,
     Ack, PrintPiece, Recycle, HandBack, printVars
<1>3. CASE PrintPiece
  <2>1. lpc \in {"header", "prefix", "text"}
    BY <1>3 DEF PrintPiece, AfterPiece
  <2>2. PICK e, to, next : /\ e = (IF lpc = "header" THEN 2 ELSE 0) /\ to = Owing
                           /\ next = (CASE lpc = "header" -> 2 [] lpc = "prefix" -> 1 [] OTHER -> 0)
    OBVIOUS
  <2>3. Room3 \in 1 .. 3 /\ PrintFree >= Room3
    BY <2>1 DEF Room3, PrintInv
  <2>4. PrintFree >= 1
    BY <1>1, <2>3 DEF PrintFree
  <2>5. prints' = Append(prints, e) /\ UNCHANGED <<crushed, wrong>>
    BY <1>1, <1>3, <2>2, <2>4 DEF PrintPiece, PrintFree
  <2>6. lpc' = (CASE lpc = "header" -> "prefix" [] lpc = "prefix" -> "text" [] lpc = "text" -> "recycle")
    BY <1>1, <1>3, <2>1, <2>4 DEF PrintPiece, PrintFree, AfterPiece
  <2>7. /\ to \in 0 .. 2 /\ e \in 0 .. 2 /\ next \in 0 .. 2
        /\ (IF to > 0 THEN e = 0 /\ next = to - 1 ELSE e # 0 /\ next = e)
        /\ Owing' = next /\ Room3' = Room3 - 1
    BY <2>1, <2>2, <2>6 DEF Owing, Room3
  <2>8. IsWhole(prints, due, to)
    BY <2>2 DEF PrintInv
  <2>9. IsWhole(Append(prints, e), due, next) /\ Len(Append(prints, e)) = Len(prints) + 1
    BY <1>1, <2>7, <2>8, WholeAppend
  <2>10. IsWhole(prints', due', Owing')
    BY <1>2, <2>5, <2>7, <2>9
  <2>11. PrintFree' >= Room3'
    <3>1. PICK k, r : k = Len(prints) /\ r = Room3
      OBVIOUS
    <3>2. k \in Nat /\ r \in 1 .. 3 /\ PrintSize - 1 - k >= r
      BY <1>1, <2>3, <3>1 DEF PrintFree
    <3>3. PrintSize - 1 - (k + 1) >= r - 1
      BY <1>1, <3>2
    <3> QED  BY <2>5, <2>7, <2>9, <3>1, <3>3 DEF PrintFree
  <2> QED  BY <1>2, <2>5, <2>10, <2>11 DEF PrintInv
<1>4. CASE WriteOrReset
  <2>1. /\ lpc = "do" /\ lpc' = "ack" /\ CarriedOut(Cmd) /\ UNCHANGED <<cmds, cmdq, crushed>>
        /\ prints' \in {prints, prints \o ErrorText}
    BY <1>4 DEF WriteOrReset, Written, Lost, queueVars
  <2>2. wrong' = wrong
    BY <2>1, DoneOrder
  <2>3. Owing = 0 /\ Owing' = 0 /\ Room3' = 0
    BY <2>1 DEF Owing, Room3
  <2>4. IsWhole(prints, due, 0)
    BY <2>3 DEF PrintInv
  <2>5. PICK a : a = Append(prints, 1)
    OBVIOUS
  <2>6. IsWhole(a, due, 1) /\ a \in Seq(0 .. 2)
    BY <1>1, <2>4, <2>5, WholeAppend
  <2>7. IsWhole(Append(a, 0), due, 0)
    <3>1. 1 \in 0 .. 2 /\ 0 \in 0 .. 2 /\ 1 > 0 /\ 0 = 1 - 1
      OBVIOUS
    <3> QED  BY <1>1, <2>6, <3>1, WholeAppend
  <2>8. IsWhole(prints', due, 0)
    BY <1>1, <2>1, <2>4, <2>5, <2>7, ErrorPieces
  <2> QED  BY <1>2, <2>1, <2>2, <2>3, <2>8 DEF PrintInv
<1>5. CASE Flush \/ Close
  <2>1. /\ lpc = "do" /\ lpc' \in {"ack", "recycle"} /\ CarriedOut(Cmd) /\ UNCHANGED <<cmds, cmdq, crushed, prints>>
    BY <1>5 DEF Flush, Close, queueVars, printVars
  <2>2. wrong' = wrong
    BY <2>1, DoneOrder
  <2> QED  BY <1>2, <2>1, <2>2, PrintKept DEF PrintInv
<1>6. CASE Ack
  <2>1. /\ lpc = "ack" /\ (lpc' = "recycle" \/ (lpc' = "header" /\ PrintFree > Len(Record)))
        /\ UNCHANGED <<crushed, prints, wrong>>
    BY <1>6 DEF Ack, printVars
  <2>2. Len(Record) = 3
    BY DEF Record
  <2>3. lpc' = "header" => PrintFree >= 3
    BY <1>1, <2>1, <2>2 DEF PrintFree
  <2> QED  BY <1>2, <2>1, <2>3, PrintKept DEF PrintInv
<1>7. CASE LogStart \/ PassBegins \/ PassEnds \/ Pop \/ FindsNothing \/ LooksAtThread \/ Recycle \/ HandBack
  <2>1. UNCHANGED <<crushed, prints, wrong>>
    BY <1>7 DEF LogStart, PassBegins, PassEnds, Pop, FindsNothing, LooksAtThread, Recycle, HandBack, printVars
  <2>2. lpc \notin {"header", "prefix", "text"} /\ lpc' \notin {"header", "prefix", "text"}
    BY <1>7 DEF LogStart, PassBegins, PassEnds, Pop, FindsNothing, LooksAtThread, Recycle, HandBack, VisitGoesOn
  <2> QED  BY <1>2, <2>1, <2>2, PrintKept DEF PrintInv
<1> QED  BY <1>3, <1>4, <1>5, <1>6, <1>7 DEF LogStep

(* What is printed is whole throughout, and nothing freed is used. *)
LEMMA NextPrint ==
  TypeOK /\ PlacesInv /\ LogInv /\ OrderInv /\ PrintInv /\ [Next]_vars => PrintInv'
<1> SUFFICES ASSUME TypeOK, PlacesInv, LogInv, OrderInv, PrintInv, [Next]_vars PROVE PrintInv'
  OBVIOUS
<1>1. prints \in Seq(0 .. 2) /\ due \in 0 .. 2 /\ Len(prints) \in Nat /\ PrintSize \in Nat /\ Owing \in 0 .. 2
  BY LoggerAssumption, OwingTyped DEF TypeOK, PrintTypes
<1>2. ASSUME UNCHANGED <<prints, due, wrong, lpc>>, ~crushed', ppc' = "done" => due = 0 PROVE PrintInv'
  <2>1. Owing' = Owing /\ Room3' = Room3 /\ PrintFree' = PrintFree
    BY <1>2 DEF Owing, Room3, PrintFree
  <2> QED  BY <1>2, <2>1 DEF PrintInv
<1>3. CASE UNCHANGED <<prints, due, ppc, wrong, lpc, crushed>>
  BY <1>2, <1>3 DEF PrintInv
<1>4. ASSUME NEW t \in Threads, Begin(t) \/ BeginDestroy \/ ThreadEnds(t) PROVE PrintInv'
  BY <1>3, <1>4, Zenon DEF Begin, BeginDestroy, Calls, ThreadEnds, printVars, logVars
<1>5. CASE StopManager \/ UNCHANGED vars
  BY <1>3, <1>5, Zenon DEF StopManager, printVars, logVars, vars
<1>10. CASE FreeManager
  <2>1. UNCHANGED <<prints, due, ppc, lpc, crushed>> /\ wrong' \in {wrong, wrong \cup {"stray"}}
    BY <1>10 DEF FreeManager, printVars, logVars
  <2>2. Owing' = Owing /\ Room3' = Room3 /\ PrintFree' = PrintFree
    BY <2>1 DEF Owing, Room3, PrintFree
  <2> QED  BY <2>1, <2>2 DEF PrintInv
<1>6. ASSUME NEW t \in Threads, CallStep(t) PROVE PrintInv'
  <2>1. CASE GotCommand(t)
    <3>1. ~crushed'
      BY <2>1, Apart DEF GotCommand
    <3> QED  BY <1>2, <2>1, <3>1 DEF GotCommand, printVars, logVars, PrintInv
  <2>2. CASE GetRecycled(t) \/ WaitForAcks(t) \/ Push(t) \/ Count(t) \/ Refused(t) \/ FreeRecycled(t)
    BY <1>3, <2>2, Zenon DEF GetRecycled, WaitForAcks, Push, Count, Refused, FreeRecycled, printVars, logVars
  <2> QED  BY <1>6, <2>1, <2>2 DEF CallStep
<1>7. CASE PrintEnds
  BY <1>2, <1>7 DEF PrintEnds, logVars, PrintInv
<1>8. CASE TakeHeader
  <2>1. /\ due = 0 /\ prints # <<>> /\ due' = prints[1] /\ prints' = Tail(prints) /\ ppc' # "done"
        /\ wrong' = (IF prints[1] = 0 THEN wrong \cup {"text"} ELSE wrong) /\ UNCHANGED <<lpc, crushed>>
    BY <1>8 DEF TakeHeader, logVars
  <2>2. prints[1] # 0 /\ IsWhole(Tail(prints), prints[1], Owing) /\ Len(Tail(prints)) = Len(prints) - 1
    BY <1>1, <2>1, WholeTail DEF PrintInv
  <2>3. Owing' = Owing /\ Room3' = Room3 /\ Room3 \in 0 .. 3
    BY <2>1, OwingTyped DEF Owing, Room3
  <2>4. PrintFree' = PrintFree + 1
    BY <1>1, <2>1, <2>2 DEF PrintFree
  <2>5. Room3' > 0 => PrintFree' >= Room3'
    BY <1>1, <2>3, <2>4 DEF PrintInv, PrintFree
  <2> QED  BY <2>1, <2>2, <2>3, <2>5 DEF PrintInv
<1>9. CASE TakeText
  <2>1. /\ due > 0 /\ prints # <<>> /\ due' = due - 1 /\ prints' = Tail(prints) /\ ppc' = ppc
        /\ wrong' = (IF prints[1] # 0 THEN wrong \cup {"text"} ELSE wrong) /\ UNCHANGED <<lpc, crushed>>
    BY <1>9 DEF TakeText, logVars
  <2>2. prints[1] = 0 /\ IsWhole(Tail(prints), due - 1, Owing) /\ Len(Tail(prints)) = Len(prints) - 1
    BY <1>1, <2>1, WholeTail DEF PrintInv
  <2>3. Owing' = Owing /\ Room3' = Room3 /\ Room3 \in 0 .. 3
    BY <2>1, OwingTyped DEF Owing, Room3
  <2>4. PrintFree' = PrintFree + 1
    BY <1>1, <2>1, <2>2 DEF PrintFree
  <2>5. Room3' > 0 => PrintFree' >= Room3'
    BY <1>1, <2>3, <2>4 DEF PrintInv, PrintFree
  <2>6. ppc' # "done"
    BY <1>1, <2>1 DEF PrintInv
  <2> QED  BY <2>1, <2>2, <2>3, <2>5, <2>6 DEF PrintInv
<1> QED  BY <1>4, <1>5, <1>6, <1>7, <1>8, <1>9, <1>10, LogStepPrint, LoggerAssumption DEF Next, PrintStep

-----------------------------------------------------------------------------
(***************************************************************************)
(* The theorems.                                                           *)
(***************************************************************************)
LoggerInv == TypeOK /\ PlacesInv /\ AppInv /\ LogInv /\ CountInv /\ OrderInv /\ PrintInv

(* The parts of the invariant hold at the start. *)
LEMMA InitInv == Init => LoggerInv
<1> SUFFICES ASSUME Init PROVE LoggerInv
  OBVIOUS
<1>1. Range(<<>>) = {} /\ DOMAIN <<>> = {} /\ Len(<<>>) = 0 /\ 1 .. 0 = {}
  BY DEF Range
<1>2. TypeOK /\ PlacesInv
  BY InitTyped, InitPlaces
<1>3. NoCall.option = "none"
  BY DEF NoCall
<1>4. \A t \in Threads : /\ pc[t] = "idle" /\ hand[t] = None /\ call[t].option = "none"
                         /\ cmdq[t] = <<>> /\ rcyq[t] = <<>> /\ cache[t] = <<>> /\ owed[t] = <<>>
  BY <1>3 DEF Init
<1>5. \A t \in Threads : ~Contains(todo, t)
  BY <1>1 DEF Init, Contains
<1>6. AppInv
  <2>1. head # <<>> /\ managerRuns
    BY DEF Init
  <2>2. \A t \in Threads : ThreadOK(t)
    BY <1>4, <1>5 DEF ThreadOK
  <2> QED  BY <1>4, <2>1, <2>2 DEF AppInv, Closing
<1>7. LogInv
  BY DEF Init, LogInv, CmdLabels, None
<1>8. CountInv
  <2>1. Pending = {} /\ Counting = {}
    BY <1>1, <1>4 DEF Init, Pending, Counting
  <2>2. ~Settled
    BY <1>4, LoggerAssumption DEF Settled
  <2>3. req = 0 /\ reqMt = 0 /\ ack = 0 /\ logger # "freed"
    BY DEF Init
  <2> QED  BY <2>1, <2>2, <2>3, FS_EmptySet DEF CountInv
<1>9. OrderInv
  <2>1. lpc = "start" /\ wrong = {}
    BY DEF Init
  <2>2. \A t \in Threads : OwedOK(t)
    BY <1>1, <1>4, <2>1 DEF OwedOK, Doing
  <2> QED  BY <2>1, <2>2 DEF OrderInv
<1>10. PrintInv
  <2>1. wrong = {} /\ ppc = "run" /\ prints = <<>> /\ due = 0 /\ lpc = "start" /\ crushed = FALSE
    BY DEF Init
  <2>2. Owing = 0 /\ Room3 = 0
    BY <2>1 DEF Owing, Room3
  <2>3. IsWhole(<<>>, 0, 0)
    <3>1. [i \in 0 .. 0 |-> 0] \in [0 .. Len(<<>>) -> 0 .. 2] /\ Whole([i \in 0 .. 0 |-> 0], <<>>, 0, 0)
      BY <1>1 DEF Whole
    <3> QED  BY <3>1 DEF IsWhole
  <2> QED  BY <2>1, <2>2, <2>3 DEF PrintInv
<1> QED  BY <1>2, <1>6, <1>7, <1>8, <1>9, <1>10 DEF LoggerInv

(* The inductive invariant: types, one place for each command, what the threads and the log thread *)
(* hold, the counts a destroy waits for, what is owed, and what is printed (logger.cpp).            *)
THEOREM LoggerInvariant == Spec => []LoggerInv
<1>1. LoggerInv /\ [Next]_vars => LoggerInv'
  <2> SUFFICES ASSUME LoggerInv, [Next]_vars PROVE LoggerInv'
    OBVIOUS
  <2>1. TypeOK /\ PlacesInv /\ AppInv /\ LogInv /\ CountInv /\ OrderInv /\ PrintInv
    BY DEF LoggerInv
  <2>2. TypeOK' /\ PlacesInv' /\ AppInv' /\ LogInv'
    BY <2>1, NextTyped, NextPlaces, NextApp, NextLog
  <2>3. CountInv' /\ OrderInv' /\ PrintInv'
    BY <2>1, NextCount, NextOrder, NextPrint
  <2> QED  BY <2>2, <2>3 DEF LoggerInv
<1> QED  BY <1>1, InitInv, PTL DEF Spec

(* A thing that is in one place is counted once. *)
LEMMA InOnePlace ==
  ASSUME TypeOK, PlacesInv, NEW c \in DOMAIN cmds
  PROVE  Cardinality({t \in Threads : hand[t] = c}) + (IF lhand = c THEN 1 ELSE 0)
         + Cardinality({t \in Threads : Contains(cmdq[t], c)})
         + Cardinality({t \in Threads : Contains(rcyq[t], c)})
         + Cardinality({t \in Threads : Contains(cache[t], c)}) = 1
<1>1. PICK h, l, m, r, s : /\ h = {t \in Threads : hand[t] = c} /\ l = (IF lhand = c THEN 1 ELSE 0)
                           /\ m = {t \in Threads : Contains(cmdq[t], c)} /\ r = {t \in Threads : Contains(rcyq[t], c)}
                           /\ s = {t \in Threads : Contains(cache[t], c)}
  OBVIOUS
<1>2. c # None
  BY DEF TypeOK, CmdTypes
<1>3. \A q, x : Contains(q, x) <=> x \in Range(q)
  BY DEF Contains, Range
<1>4. PICK k \in Kinds, u \in Threads : c \in At(k, u)
  BY HeldAt DEF PlacesInv, OnePlace
<1>5. ASSUME NEW j \in Kinds, NEW v \in Threads, j # k \/ v # u PROVE c \notin At(j, v)
  <2>1. PICK p, q, H : p = <<k, u>> /\ q = <<j, v>> /\ H = Held
    OBVIOUS
  <2>2. p \in Places /\ q \in Places /\ p # q /\ H[p] = At(k, u) /\ H[q] = At(j, v)
    BY <1>5, <2>1, HeldAt
  <2>3. H[p] \cap H[q] = {}
    BY <2>1, <2>2 DEF PlacesInv, OnePlace
  <2> QED  BY <1>4, <2>2, <2>3
<1>6. /\ h = {t \in Threads : c \in At("hand", t)} /\ m = {t \in Threads : c \in At("cmdq", t)}
      /\ r = {t \in Threads : c \in At("rcyq", t)} /\ s = {t \in Threads : c \in At("cache", t)}
  BY <1>1, <1>2, <1>3, EveryKind
<1>7. /\ h = IF k = "hand" THEN {u} ELSE {}
      /\ m = IF k = "cmdq" THEN {u} ELSE {}
      /\ r = IF k = "rcyq" THEN {u} ELSE {}
      /\ s = IF k = "cache" THEN {u} ELSE {}
  <2>1. "hand" \in Kinds /\ "cmdq" \in Kinds /\ "rcyq" \in Kinds /\ "cache" \in Kinds
    BY DEF Kinds
  <2> QED  BY <1>4, <1>5, <1>6, <2>1
<1>8. l = IF k = "log" THEN 1 ELSE 0
  <2>1. c \in At("log", Main) <=> lhand = c
    BY <1>2, EveryKind
  <2>2. k = "log" => u = Main
    BY <1>4, EveryKind
  <2>3. "log" \in Kinds /\ Main \in Threads
    BY LoggerAssumption DEF Kinds
  <2> QED  BY <1>1, <1>4, <1>5, <2>1, <2>2, <2>3
<1>9. Cardinality({u}) = 1 /\ Cardinality({}) = 0
  BY FS_Singleton, FS_EmptySet
<1>10. PICK n1, n3, n4, n5 : n1 = Cardinality(h) /\ n3 = Cardinality(m) /\ n4 = Cardinality(r) /\ n5 = Cardinality(s)
  OBVIOUS
<1>11. /\ n1 = IF k = "hand" THEN 1 ELSE 0
       /\ n3 = IF k = "cmdq" THEN 1 ELSE 0
       /\ n4 = IF k = "rcyq" THEN 1 ELSE 0
       /\ n5 = IF k = "cache" THEN 1 ELSE 0
  BY <1>7, <1>9, <1>10
<1>12. n1 + l + n3 + n4 + n5 = 1
  BY <1>8, <1>11 DEF Kinds
<1> QED  BY <1>1, <1>10, <1>12

(* A command is in one place at a time, and is deleted exactly once by whoever holds it; nothing    *)
(* that was freed is used, and no command is left when the manager is gone (logger.cpp:1198-1328,   *)
(* 1634-1696, 1794-1875).                                                                           *)
THEOREM CommandsHaveOnePlace == Spec => []CommandHasOnePlace
<1>1. LoggerInv => CommandHasOnePlace
  <2> SUFFICES ASSUME LoggerInv PROVE CommandHasOnePlace
    OBVIOUS
  <2>1. TypeOK /\ PlacesInv /\ AppInv /\ LogInv /\ CountInv /\ PrintInv
    BY DEF LoggerInv
  <2>2. ~crushed
    BY <2>1 DEF PrintInv
  <2>3. lpc = "do" => lhand \in DOMAIN cmds /\ logger # "freed"
    <3> SUFFICES ASSUME lpc = "do" PROVE lhand \in DOMAIN cmds /\ logger # "freed"
      OBVIOUS
    <3>1. lhand \in DOMAIN cmds
      BY <2>1, Apart, LoggerAssumption DEF LogInv, CmdLabels
    <3>2. lhand \in Pending
      BY <3>1 DEF Pending
    <3> QED  BY <2>1, <3>1, <3>2 DEF CountInv
  <2>4. \A t \in Threads : Range(cmdq[t]) \cup Range(rcyq[t]) \cup Range(cache[t]) \subseteq DOMAIN cmds
    BY <2>1, Apart
  <2>5. head = <<>> => cmds = <<>>
    BY <2>1 DEF AppInv
  <2>6. \A c \in DOMAIN cmds :
          Cardinality({t \in Threads : hand[t] = c}) + (IF lhand = c THEN 1 ELSE 0)
          + Cardinality({t \in Threads : Contains(cmdq[t], c)})
          + Cardinality({t \in Threads : Contains(rcyq[t], c)})
          + Cardinality({t \in Threads : Contains(cache[t], c)}) = 1
    BY <2>1, InOnePlace
  <2> QED  BY <2>2, <2>3, <2>4, <2>5, <2>6, Zenon DEF CommandHasOnePlace
<1> QED  BY <1>1, LoggerInvariant, PTL

(* Every accepted command is carried out once, in its thread's order, and none is left when the log *)
(* thread ends; the console shows whole records (logger.cpp:1081-1328, 1462-1531, 1698-1769).       *)
THEOREM OutputIsComplete == Spec => []OutputComplete
<1>1. LoggerInv => OutputComplete
  BY DoneOwesNothing DEF LoggerInv, OrderInv, PrintInv, OutputComplete, AcceptedIsWritten, PrintedWhole
<1> QED  BY <1>1, LoggerInvariant, PTL
=============================================================================
