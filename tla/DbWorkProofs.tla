---------------------------- MODULE DbWorkProofs ----------------------------
(* Theorems about DbWork: commands keep their order, each is carried out once, and no connection *)
(* is destroyed under one, for any threads, connections and sizes of queues.                     *)
EXTENDS DbWork, FiniteSetTheorems, TLAPS

(***************************************************************************)
(* Types                                                                   *)
(***************************************************************************)
CmdType == [by : Apps, conn : Conns, times : {0, 1}, given : BOOLEAN]
AppType ==
  [at : {"idle", "push", "count", "run", "join", "destroy", "gone"}, cmd : Nat, conn : Conns \cup {0},
   idx : DbThreads, unbusy : Nat, then : {"idle", "run"}]
WorkType ==
  [at : {"top", "look", "execute", "push", "drain", "ended"}, list : Seq(Apps), cmd : Nat,
   busy : BOOLEAN, ending : BOOLEAN]
QueueType == [cmd : Seq(Nat), ret : Seq(Nat), cache : Seq(Nat)]
ConnType == [req : Nat, req_mt : Nat, ack : Nat, alive : BOOLEAN]

Types ==
  /\ is_run \in BOOLEAN /\ procs \in Seq(Apps)
  /\ queue \in [Apps -> [DbThreads -> QueueType]]
  /\ conn \in [Conns -> ConnType]
  /\ work \in [DbThreads -> WorkType]
  /\ app \in [Apps -> AppType]
  /\ cmds \in Seq(CmdType)

(***************************************************************************)
(* Where the threads are.  A work thread that handles a command, or the    *)
(* results behind it, has a db_proc to do it for.  A thread inside a post  *)
(* uses a connection nobody is destroying; the command it pushes is its    *)
(* newest.  After uninit_db_manager nothing is left and nobody is inside.  *)
(***************************************************************************)
WorkOK == \A d \in DbThreads : work[d].at \in {"execute", "push", "drain"} => work[d].list # <<>>

Posting(t) == app[t].at \in {"push", "count"}
PostOK(t) ==
  /\ app[t].at = "push" =>
       LET k == app[t].cmd IN
       /\ k \in 1 .. Len(cmds) /\ cmds[k].by = t /\ cmds[k].conn = app[t].conn
       /\ cmds[k].times = 0 /\ ~cmds[k].given
       /\ \A j \in 1 .. Len(cmds) : cmds[j].by = t => j <= k
  /\ Posting(t) =>
       /\ app[t].conn \in Conns /\ conn[app[t].conn].alive
       /\ \A u \in Apps : ~(app[u].at = "destroy" /\ app[u].conn = app[t].conn)
  /\ app[t].at = "destroy" => app[t].conn \in Conns

ClosedOK ==
  /\ \A t \in Apps : app[t].at = "join" => ~is_run
  /\ ~is_run => \A t \in Apps :
       /\ app[t].at \in (IF t = Main THEN {"run", "push", "count", "join", "gone"} ELSE {"gone"})
       /\ Posting(t) => app[t].then = "run"
  /\ procs = <<>> =>
       /\ ~is_run /\ app[Main].at = "gone"
       /\ \A d \in DbThreads : work[d].at = "ended"

(***************************************************************************)
(* The order of a thread's commands for a work thread, by the places they  *)
(* pass: R, C and Q are ret_queue, ret_cache_queue and cmd_queue, H is the *)
(* hand of the work thread, U what is unanswered.                          *)
(***************************************************************************)
Increasing(s) == \A i, j \in DOMAIN s : i < j => s[i] < s[j]
Before(A, B) == \A a \in A, b \in B : a < b
Flow(R, C, H, Q, U) ==
  /\ Increasing(R) /\ Increasing(C) /\ Increasing(Q)
  /\ Before(Range(R), Range(C)) /\ Before(Range(R), H) /\ Before(Range(R), Range(Q))
  /\ Before(Range(C), H) /\ Before(Range(C), Range(Q)) /\ Before(H, Range(Q))
  /\ Range(R) \cup Range(C) \cup H \cup Range(Q) = U

Holds(t, d) == IF work[d].at \in {"execute", "push"} /\ Head(work[d].list) = t THEN {work[d].cmd} ELSE {}
FlowOK(t, d) ==
  Flow(queue[t][d].ret, queue[t][d].cache, Holds(t, d), queue[t][d].cmd, Unanswered(t, d))

(* What has been done to a command when it is at a place. *)
Answered(k) == k \in 1 .. Len(cmds) /\ (cmds[k].times = 1) = Async(cmds[k].conn)
Untouched(k) == k \in 1 .. Len(cmds) /\ cmds[k].times = 0
DoneOK ==
  /\ \A t \in Apps, d \in DbThreads :
       /\ \A k \in Range(queue[t][d].ret) \cup Range(queue[t][d].cache) : Answered(k)
       /\ \A k \in Range(queue[t][d].cmd) : Untouched(k)
  /\ \A d \in DbThreads :
       /\ work[d].at = "execute" => Untouched(work[d].cmd)
       /\ work[d].at = "push" => Answered(work[d].cmd)
  /\ \A k \in 1 .. Len(cmds) : cmds[k].given => Answered(k)

(***************************************************************************)
(* The counters of a connection: what was counted is acknowledged or on    *)
(* its way to the work thread, but for what a thread is about to count.    *)
(***************************************************************************)
Waits(k) ==
  \/ \E t \in Apps, d \in DbThreads : k \in Range(queue[t][d].cmd)
  \/ \E d \in DbThreads : work[d].at = "execute" /\ work[d].cmd = k
Ahead(c) == {k \in 1 .. Len(cmds) : cmds[k].conn = c /\ Waits(k)}
Counting(c) == {t \in Apps : app[t].at = "count" /\ app[t].conn = c}
CountOK(c) ==
  conn[c].req + conn[c].req_mt + Cardinality(Counting(c)) = conn[c].ack + Cardinality(Ahead(c))

DbInv ==
  /\ Types /\ WorkOK /\ ClosedOK
  /\ \A t \in Apps : PostOK(t)
  /\ DoneOK
  /\ procs # <<>> => /\ \A t \in Apps, d \in DbThreads : FlowOK(t, d)
                     /\ \A c \in Conns : CountOK(c)
  /\ \A c \in Conns : ~conn[c].alive => Ahead(c) = {}
-----------------------------------------------------------------------------
(* Laws of sequences of numbers. *)

(* An element behind all others keeps a sequence increasing. *)
LEMMA AppendLaw ==
  ASSUME NEW q \in Seq(Nat), NEW e \in Nat
  PROVE  /\ Append(q, e) \in Seq(Nat) /\ Range(Append(q, e)) = Range(q) \cup {e}
         /\ Increasing(q) /\ (\A x \in Range(q) : x < e) => Increasing(Append(q, e))
<1> DEFINE w == Append(q, e)
           n == Len(q)
<1>1. /\ n \in Nat /\ DOMAIN q = 1 .. n /\ DOMAIN w = 1 .. n + 1 /\ w[n + 1] = e
      /\ \A i \in 1 .. n : w[i] = q[i] /\ q[i] \in Nat
      /\ w \in Seq(Nat)
  OBVIOUS
<1> HIDE DEF w, n
<1>2. \A i \in 1 .. n + 1 : i = n + 1 \/ i \in 1 .. n
  BY <1>1
<1>3. \A i \in 1 .. n : i \in 1 .. n + 1 /\ i < n + 1 /\ ~(n + 1 < i)
  BY <1>1
<1>4. n + 1 \in 1 .. n + 1
  BY <1>1
<1>5. Range(w) = Range(q) \cup {e}
  BY <1>1, <1>2, <1>3, <1>4 DEF Range
<1>6. ASSUME Increasing(q), \A x \in Range(q) : x < e
      PROVE  Increasing(w)
  <2> SUFFICES ASSUME NEW i \in 1 .. n + 1, NEW j \in 1 .. n + 1, i < j
               PROVE  w[i] < w[j]
    BY <1>1 DEF Increasing
  <2>1. i \in 1 .. n
    BY <1>1
  <2>2. CASE j = n + 1
    BY <1>1, <1>6, <2>1, <2>2 DEF Range
  <2>3. CASE j \in 1 .. n
    BY <1>1, <1>6, <2>1, <2>3 DEF Increasing
  <2> QED  BY <1>2, <2>2, <2>3
<1> QED  BY <1>1, <1>5, <1>6 DEF w

(* The head of an increasing sequence is its least element, and the tail has the others. *)
LEMMA TailLaw ==
  ASSUME NEW q \in Seq(Nat), q # <<>>, Increasing(q)
  PROVE  /\ Head(q) \in Nat /\ Head(q) \in Range(q) /\ Tail(q) \in Seq(Nat)
         /\ Increasing(Tail(q)) /\ Range(Tail(q)) = Range(q) \ {Head(q)}
         /\ \A x \in Range(Tail(q)) : Head(q) < x
<1> DEFINE w == Tail(q)
           n == Len(w)
           h == Head(q)
<1>1. /\ n \in Nat /\ DOMAIN q = 1 .. n + 1 /\ DOMAIN w = 1 .. n /\ h = q[1] /\ h \in Nat
      /\ \A i \in 1 .. n : w[i] = q[i + 1]
      /\ \A i \in 1 .. n + 1 : q[i] \in Nat
      /\ w \in Seq(Nat)
  OBVIOUS
<1> HIDE DEF w, n, h
<1>2. \A i \in 1 .. n + 1 : i = 1 \/ (i - 1 \in 1 .. n /\ q[i] = w[i - 1] /\ 1 < i)
  BY <1>1
<1>3. \A i \in 1 .. n : i + 1 \in 1 .. n + 1 /\ 1 < i + 1
  BY <1>1
<1>4. 1 \in 1 .. n + 1
  BY <1>1
<1>5. \A i \in 1 .. n + 1 : 1 < i => h < q[i]
  BY <1>1, <1>4 DEF Increasing
<1>6. \A x \in Range(w) : h < x /\ x \in Nat
  BY <1>1, <1>3, <1>5 DEF Range
<1>7. Range(w) = Range(q) \ {h}
  <2>a. /\ \A x : x \in Range(w) <=> \E i \in 1 .. n : x = w[i]
        /\ \A x : x \in Range(q) <=> \E i \in 1 .. n + 1 : x = q[i]
    BY <1>1 DEF Range
  <2>1. ASSUME NEW x \in Range(w) PROVE x \in Range(q) /\ x # h
    <3>1. PICK i \in 1 .. n : x = w[i]
      BY <2>a
    <3>2. w[i] = q[i + 1] /\ i + 1 \in 1 .. n + 1
      BY <1>1, <1>3
    <3>3. h < x /\ h \in Nat /\ x \in Nat
      BY <1>1, <1>6
    <3> QED  BY <2>a, <3>1, <3>2, <3>3
  <2>2. ASSUME NEW x \in Range(q), x # h PROVE x \in Range(w)
    <3>1. PICK i \in 1 .. n + 1 : x = q[i]
      BY <2>a
    <3>2. i - 1 \in 1 .. n /\ q[i] = w[i - 1]
      BY <1>1, <1>2, <2>2, <3>1
    <3> QED  BY <2>a, <3>1, <3>2
  <2> QED  BY <2>1, <2>2
<1>8. Increasing(w)
  <2> SUFFICES ASSUME NEW i \in 1 .. n, NEW j \in 1 .. n, i < j
               PROVE  w[i] < w[j]
    BY <1>1 DEF Increasing
  <2>1. i + 1 \in 1 .. n + 1 /\ j + 1 \in 1 .. n + 1 /\ i + 1 < j + 1
    BY <1>1
  <2> QED  BY <1>1, <2>1 DEF Increasing
<1>9. h \in Range(q)
  BY <1>1, <1>4 DEF Range
<1> QED  BY <1>1, <1>6, <1>7, <1>8, <1>9 DEF w, h

(* Two increasing sequences, the one before the other. *)
LEMMA ConcatLaw ==
  ASSUME NEW p \in Seq(Nat), NEW q \in Seq(Nat), Increasing(p), Increasing(q), Before(Range(p), Range(q))
  PROVE  p \o q \in Seq(Nat) /\ Increasing(p \o q) /\ Range(p \o q) = Range(p) \cup Range(q)
<1> DEFINE w == p \o q
           m == Len(p)
           n == Len(q)
<1>1. /\ m \in Nat /\ n \in Nat /\ DOMAIN p = 1 .. m /\ DOMAIN q = 1 .. n /\ DOMAIN w = 1 .. m + n
      /\ \A i \in 1 .. m + n : (i <= m => w[i] = p[i]) /\ (~(i <= m) => w[i] = q[i - m])
      /\ w \in Seq(Nat)
  OBVIOUS
<1> HIDE DEF w, m, n
<1>2. ASSUME NEW i \in 1 .. m + n
      PROVE  (i \in 1 .. m /\ w[i] = p[i]) \/ (i - m \in 1 .. n /\ w[i] = q[i - m])
  <2>1. CASE i <= m
    <3>1. i \in 1 .. m
      BY <1>1, <2>1
    <3> QED  BY <1>1, <2>1, <3>1
  <2>2. CASE ~(i <= m)
    <3>1. i - m \in 1 .. n
      BY <1>1, <2>2
    <3> QED  BY <1>1, <2>2, <3>1
  <2> QED  BY <2>1, <2>2
<1>3. ASSUME NEW i \in 1 .. m PROVE i \in 1 .. m + n /\ w[i] = p[i]
  <2>1. i \in 1 .. m + n /\ i <= m
    BY <1>1
  <2> QED  BY <1>1, <2>1
<1>4. ASSUME NEW i \in 1 .. n PROVE i + m \in 1 .. m + n /\ w[i + m] = q[i]
  <2>1. i + m \in 1 .. m + n /\ ~(i + m <= m) /\ (i + m) - m = i
    BY <1>1
  <2> QED  BY <1>1, <2>1
<1>a. /\ \A x : x \in Range(w) <=> \E i \in 1 .. m + n : x = w[i]
      /\ \A x : x \in Range(p) <=> \E i \in 1 .. m : x = p[i]
      /\ \A x : x \in Range(q) <=> \E i \in 1 .. n : x = q[i]
  BY <1>1 DEF Range
<1>5. Range(w) = Range(p) \cup Range(q)
  <2>1. ASSUME NEW x \in Range(w) PROVE x \in Range(p) \cup Range(q)
    <3>1. PICK i \in 1 .. m + n : x = w[i]
      BY <1>a
    <3> QED  BY <1>2, <1>a, <3>1
  <2>2. ASSUME NEW x \in Range(p) PROVE x \in Range(w)
    <3>1. PICK i \in 1 .. m : x = p[i]
      BY <1>a
    <3> QED  BY <1>3, <1>a, <3>1
  <2>3. ASSUME NEW x \in Range(q) PROVE x \in Range(w)
    <3>1. PICK i \in 1 .. n : x = q[i]
      BY <1>a
    <3> QED  BY <1>4, <1>a, <3>1
  <2> QED  BY <2>1, <2>2, <2>3
<1>6. Increasing(w)
  <2> SUFFICES ASSUME NEW i \in 1 .. m + n, NEW j \in 1 .. m + n, i < j
               PROVE  w[i] < w[j]
    BY <1>1 DEF Increasing
  <2>1. CASE j \in 1 .. m
    <3>1. i \in 1 .. m
      BY <1>1, <2>1
    <3> QED  BY <1>1, <1>3, <2>1, <3>1 DEF Increasing
  <2>2. CASE i \in 1 .. m /\ ~(j \in 1 .. m)
    <3>1. w[i] \in Range(p) /\ w[j] \in Range(q)
      <4>1. j - m \in 1 .. n /\ w[j] = q[j - m] /\ w[i] = p[i]
        BY <1>2, <1>3, <2>2
      <4> QED  BY <1>a, <2>2, <4>1
    <3> QED  BY <3>1 DEF Before
  <2>3. CASE ~(i \in 1 .. m)
    <3>1. i - m \in 1 .. n /\ j - m \in 1 .. n /\ i - m < j - m
      BY <1>1, <2>3
    <3>2. w[i] = q[i - m] /\ w[j] = q[j - m]
      BY <1>1, <1>2, <2>3, <3>1
    <3> QED  BY <1>1, <3>1, <3>2 DEF Increasing
  <2> QED  BY <2>1, <2>2, <2>3
<1> QED  BY <1>1, <1>5, <1>6 DEF w

(* The empty sequence, and one of one element. *)
LEMMA ShortLaw ==
  /\ <<>> \in Seq(Nat) /\ Range(<<>>) = {} /\ Increasing(<<>>)
  /\ \A k \in Nat : <<k>> \in Seq(Nat) /\ Range(<<k>>) = {k} /\ Increasing(<<k>>)
BY DEF Range, Increasing

-----------------------------------------------------------------------------
(* What a step of a command does to the order. *)

(* A command newer than all others is posted. *)
LEMMA FlowPost ==
  ASSUME NEW R, NEW C, NEW H, NEW Q \in Seq(Nat), NEW U, NEW k \in Nat,
         Flow(R, C, H, Q, U), \A x \in U : x < k
  PROVE  Flow(R, C, H, Append(Q, k), U \cup {k})
<1>1. Range(Append(Q, k)) = Range(Q) \cup {k} /\ Increasing(Append(Q, k))
  BY AppendLaw DEF Flow
<1> QED  BY <1>1 DEF Flow, Before

(* The work thread takes the first of the commands. *)
LEMMA FlowTake ==
  ASSUME NEW R, NEW C, NEW Q \in Seq(Nat), NEW U, Q # <<>>, Flow(R, C, {}, Q, U)
  PROVE  Flow(R, C, {Head(Q)}, Tail(Q), U) /\ Head(Q) \in U
<1>1. /\ Head(Q) \in Range(Q) /\ Increasing(Tail(Q)) /\ Range(Tail(Q)) = Range(Q) \ {Head(Q)}
      /\ \A x \in Range(Tail(Q)) : Head(Q) < x
  BY TailLaw DEF Flow
<1> QED  BY <1>1 DEF Flow, Before

(* It puts the result into ret_queue, if none waits before it, ... *)
LEMMA FlowPushRet ==
  ASSUME NEW R \in Seq(Nat), NEW Q, NEW U, NEW k \in Nat, Flow(R, <<>>, {k}, Q, U)
  PROVE  Flow(Append(R, k), <<>>, {}, Q, U)
<1>1. Range(Append(R, k)) = Range(R) \cup {k} /\ Increasing(Append(R, k))
  BY AppendLaw DEF Flow, Before
<1> QED  BY <1>1, ShortLaw DEF Flow, Before

(* ... or into ret_cache_queue ... *)
LEMMA FlowPushCache ==
  ASSUME NEW R, NEW C \in Seq(Nat), NEW Q, NEW U, NEW k \in Nat, Flow(R, C, {k}, Q, U)
  PROVE  Flow(R, Append(C, k), {}, Q, U)
<1>1. Range(Append(C, k)) = Range(C) \cup {k} /\ Increasing(Append(C, k))
  BY AppendLaw DEF Flow, Before
<1> QED  BY <1>1 DEF Flow, Before

(* ... from where it goes on to ret_queue. *)
LEMMA FlowDrain ==
  ASSUME NEW R \in Seq(Nat), NEW C \in Seq(Nat), NEW H, NEW Q, NEW U, C # <<>>, Flow(R, C, H, Q, U)
  PROVE  Flow(Append(R, Head(C)), Tail(C), H, Q, U)
<1>1. /\ Head(C) \in Nat /\ Head(C) \in Range(C) /\ Increasing(Tail(C))
      /\ Range(Tail(C)) = Range(C) \ {Head(C)} /\ \A x \in Range(Tail(C)) : Head(C) < x
  BY TailLaw DEF Flow
<1>2. Range(Append(R, Head(C))) = Range(R) \cup {Head(C)} /\ Increasing(Append(R, Head(C)))
  BY <1>1, AppendLaw DEF Flow, Before
<1> QED  BY <1>1, <1>2 DEF Flow, Before

(* The thread of the application is given the first result. *)
LEMMA FlowGive ==
  ASSUME NEW R \in Seq(Nat), NEW C, NEW H, NEW Q, NEW U, R # <<>>, Flow(R, C, H, Q, U)
  PROVE  Flow(Tail(R), C, H, Q, U \ {Head(R)}) /\ Head(R) \in U
<1>1. /\ Head(R) \in Nat /\ Head(R) \in Range(R) /\ Increasing(Tail(R))
      /\ Range(Tail(R)) = Range(R) \ {Head(R)}
  BY TailLaw DEF Flow
<1>2. Head(R) \notin Range(C) \cup H \cup Range(Q)
  BY <1>1 DEF Flow, Before
<1> QED  BY <1>1, <1>2 DEF Flow, Before

(* The places one after the other are the way of the commands. *)
LEMMA FlowWay ==
  ASSUME NEW R \in Seq(Nat), NEW C \in Seq(Nat), NEW h \in Seq(Nat), NEW Q \in Seq(Nat), NEW U,
         Increasing(h), Flow(R, C, Range(h), Q, U)
  PROVE  Range(R \o C \o h \o Q) = U /\ Increasing(R \o C \o h \o Q)
<1>1. R \o C \in Seq(Nat) /\ Increasing(R \o C) /\ Range(R \o C) = Range(R) \cup Range(C)
  BY ConcatLaw DEF Flow
<1>2. Before(Range(R \o C), Range(h))
  BY <1>1 DEF Flow, Before
<1>3. /\ (R \o C) \o h \in Seq(Nat) /\ Increasing((R \o C) \o h)
      /\ Range((R \o C) \o h) = Range(R) \cup Range(C) \cup Range(h)
  BY <1>1, <1>2, ConcatLaw, ZenonT(60)
<1>4. Before(Range((R \o C) \o h), Range(Q)) /\ Increasing(Q)
  BY <1>3 DEF Flow, Before
<1>5. /\ Increasing(((R \o C) \o h) \o Q)
      /\ Range(((R \o C) \o h) \o Q) = Range((R \o C) \o h) \cup Range(Q)
  BY <1>3, <1>4, ConcatLaw
<1> QED  BY <1>3, <1>5 DEF Flow

-----------------------------------------------------------------------------
(* Types *)

(* A connection has a work thread, and 0 is one. *)
LEMMA Constants ==
  ASSUME DbAssumption
  PROVE  /\ 0 \in DbThreads /\ DbNum \in Nat \ {0} /\ Main \in Apps
         /\ \A i \in Nat : i % DbNum \in DbThreads
         /\ \A c \in Conns : ThreadOf(c) \in DbThreads
<1>1. DbNum \in Nat \ {0} /\ Main \in Apps /\ \A c \in Conns : ConnIdx[c] \in Nat
  BY DEF DbAssumption, Conns
<1>2. \A i \in Nat : i % DbNum \in DbThreads
  BY <1>1 DEF DbThreads
<1> QED  BY <1>1, <1>2 DEF ThreadOf, DbThreads

(* The first use registers a thread. *)
LEMMA RegisteredLaw ==
  ASSUME procs \in Seq(Apps), NEW t \in Apps
  PROVE  Registered(t) \in Seq(Apps) /\ Registered(t) # <<>>
<1>1. CASE Contains(procs, t)
  BY <1>1 DEF Registered, Contains
<1>2. CASE ~Contains(procs, t)
  <2>1. <<t>> \o procs \in Seq(Apps) /\ Len(<<t>> \o procs) = 1 + Len(procs)
    OBVIOUS
  <2>2. <<t>> \o procs # <<>>
    BY <2>1
  <2> QED  BY <1>2, <2>1, <2>2 DEF Registered
<1> QED  BY <1>1, <1>2

(* Replacing what is queued for one db_proc and work thread. *)
LEMMA QueueLaw ==
  ASSUME queue \in [Apps -> [DbThreads -> QueueType]], NEW t \in Apps, NEW d \in DbThreads, NEW q \in QueueType,
         queue' = [queue EXCEPT ![t][d] = q]
  PROVE  /\ queue' \in [Apps -> [DbThreads -> QueueType]]
         /\ queue'[t][d] = q
         /\ \A x \in Apps, e \in DbThreads : ~(x = t /\ e = d) => queue'[x][e] = queue[x][e]
<1>1. [queue[t] EXCEPT ![d] = q] \in [DbThreads -> QueueType]
  OBVIOUS
<1>2. queue' = [queue EXCEPT ![t] = [queue[t] EXCEPT ![d] = q]]
  OBVIOUS
<1> QED  BY <1>1, <1>2

(* Changing one field of one queue. *)
LEMMA QueueFields ==
  ASSUME queue \in [Apps -> [DbThreads -> QueueType]], NEW t \in Apps, NEW d \in DbThreads, NEW s \in Seq(Nat)
  PROVE  /\ [queue[t][d] EXCEPT !.cmd = s] \in QueueType
         /\ [queue[t][d] EXCEPT !.ret = s] \in QueueType
         /\ [queue[t][d] EXCEPT !.cache = s] \in QueueType
BY ZenonT(60) DEF QueueType

(* Replacing the state of one thread. *)
LEMMA AppLaw ==
  ASSUME app \in [Apps -> AppType], NEW t \in Apps, NEW a \in AppType, app' = [app EXCEPT ![t] = a]
  PROVE  app' \in [Apps -> AppType] /\ app'[t] = a /\ \A x \in Apps \ {t} : app'[x] = app[x]
OBVIOUS

(* The same of a work thread, *)
LEMMA WorkLaw ==
  ASSUME work \in [DbThreads -> WorkType], NEW d \in DbThreads, NEW w \in WorkType, work' = [work EXCEPT ![d] = w]
  PROVE  work' \in [DbThreads -> WorkType] /\ work'[d] = w /\ \A e \in DbThreads \ {d} : work'[e] = work[e]
OBVIOUS

(* of a connection, *)
LEMMA ConnLaw ==
  ASSUME conn \in [Conns -> ConnType], NEW c \in Conns, NEW r \in ConnType, conn' = [conn EXCEPT ![c] = r]
  PROVE  conn' \in [Conns -> ConnType] /\ conn'[c] = r /\ \A x \in Conns \ {c} : conn'[x] = conn[x]
OBVIOUS

(* of a command in a sequence of them, *)
LEMMA SeqLaw ==
  ASSUME NEW s \in Seq(CmdType), NEW k \in 1 .. Len(s), NEW r \in CmdType
  PROVE  /\ [s EXCEPT ![k] = r] \in Seq(CmdType) /\ Len([s EXCEPT ![k] = r]) = Len(s)
         /\ [s EXCEPT ![k] = r][k] = r
         /\ \A j \in (1 .. Len(s)) \ {k} : [s EXCEPT ![k] = r][j] = s[j]
OBVIOUS

(* of the history, *)
LEMMA CmdLaw ==
  ASSUME cmds \in Seq(CmdType), NEW k \in 1 .. Len(cmds), NEW r \in CmdType,
         cmds' = [cmds EXCEPT ![k] = r]
  PROVE  /\ cmds' \in Seq(CmdType) /\ Len(cmds') = Len(cmds) /\ cmds'[k] = r
         /\ \A j \in (1 .. Len(cmds)) \ {k} : cmds'[j] = cmds[j]
OBVIOUS

(* and a new command is the last. *)
LEMMA CmdAppend ==
  ASSUME NEW s \in Seq(CmdType), NEW r \in CmdType
  PROVE  /\ Append(s, r) \in Seq(CmdType) /\ Len(Append(s, r)) = Len(s) + 1
         /\ Append(s, r)[Len(s) + 1] = r /\ \A j \in 1 .. Len(s) : Append(s, r)[j] = s[j]
OBVIOUS

-----------------------------------------------------------------------------
(* Steps that move no command. *)

Handling == {"execute", "push"}
Moves ==
  /\ UNCHANGED <<queue, cmds>>
  /\ \A d \in DbThreads : \/ work'[d] = work[d]
                          \/ work[d].at \notin Handling /\ work'[d].at \notin Handling
  /\ \A t \in Apps : \/ app'[t].at = app[t].at /\ app'[t].cmd = app[t].cmd
                     \/ app[t].at # "push" /\ app'[t].at # "push"

(* They leave the order, what was done and what the work threads still have to do. *)
LEMMA MovesKeep ==
  ASSUME Moves
  PROVE  /\ \A t \in Apps, d \in DbThreads : FlowOK(t, d) => FlowOK(t, d)'
         /\ DoneOK => DoneOK'
         /\ \A c \in Conns : Ahead(c)' = Ahead(c)
<1>1. \A t \in Apps, d \in DbThreads : Holds(t, d)' = Holds(t, d)
  BY DEF Moves, Holds, Handling
<1>2. \A t \in Apps, d \in DbThreads : Unanswered(t, d)' = Unanswered(t, d)
  BY DEF Moves, Unanswered
<1>3. ASSUME NEW t \in Apps, NEW d \in DbThreads, FlowOK(t, d)
      PROVE  FlowOK(t, d)'
  BY <1>1, <1>2, <1>3 DEF Moves, FlowOK
<1>4. /\ \A k : Answered(k)' = Answered(k)
      /\ \A k : Untouched(k)' = Untouched(k)
  BY DEF Moves, Answered, Untouched
<1>5. ASSUME DoneOK PROVE DoneOK'
  BY <1>4, <1>5 DEF Moves, DoneOK, Handling
<1>6. \A k : Waits(k)' = Waits(k)
  <2>1. ASSUME NEW k, NEW d \in DbThreads
        PROVE  (work[d].at = "execute" /\ work[d].cmd = k)' <=> (work[d].at = "execute" /\ work[d].cmd = k)
    BY DEF Moves, Handling
  <2> QED  BY <2>1 DEF Moves, Waits
<1>7. \A c \in Conns : Ahead(c)' = Ahead(c)
  BY <1>6 DEF Moves, Ahead
<1> QED  BY <1>3, <1>5, <1>7

(* A connection nobody counts for and no command waits on keeps its account. *)
LEMMA CountKept ==
  ASSUME NEW c \in Conns, CountOK(c), Counting(c)' = Counting(c), Ahead(c)' = Ahead(c),
         conn'[c].req = conn[c].req, conn'[c].req_mt = conn[c].req_mt, conn'[c].ack = conn[c].ack
  PROVE  CountOK(c)'
BY DEF CountOK

(* Whoever is inside a call finds the db_procs, and the manager open unless a callback of uninit posts. *)
LEMMA Open ==
  ASSUME DbInv, NEW t \in Apps, app[t].at \notin {"run", "join", "gone"}
  PROVE  procs # <<>> /\ (is_run \/ (Posting(t) /\ t = Main /\ app[t].then = "run"))
BY DEF DbInv, ClosedOK, Posting

(* A work thread that runs has db_procs to visit. *)
LEMMA WorkOpen ==
  ASSUME DbInv, NEW d \in DbThreads, work[d].at # "ended"
  PROVE  procs # <<>>
BY DEF DbInv, ClosedOK

(* What is left to show of a step that moves no command. *)
LEMMA MovesDone ==
  ASSUME DbInv, Moves, Types', WorkOK', ClosedOK', \A t \in Apps : PostOK(t)',
         procs # <<>>, \A c \in Conns : CountOK(c)',
         \A c \in Conns : ~conn'[c].alive => ~conn[c].alive \/ Ahead(c) = {}
  PROVE  DbInv'
<1>1. DoneOK' /\ \A t \in Apps, d \in DbThreads : FlowOK(t, d)'
  BY MovesKeep DEF DbInv
<1>2. \A c \in Conns : ~conn'[c].alive => Ahead(c)' = {}
  BY MovesKeep DEF DbInv
<1> QED  BY <1>1, <1>2 DEF DbInv

(* ... and of one that leaves the connections, and whom they wait for, as they are. *)
LEMMA MovesAside ==
  ASSUME DbInv, Moves, Types', WorkOK', ClosedOK', \A t \in Apps : PostOK(t)',
         procs # <<>>, UNCHANGED conn,
         \A t \in Apps : app'[t] = app[t] \/ (app[t].at # "count" /\ app'[t].at # "count")
  PROVE  DbInv'
<1>1. \A c \in Conns : Counting(c)' = Counting(c)
  BY DEF Counting
<1>2. \A c \in Conns : CountOK(c)'
  BY <1>1, MovesKeep, CountKept DEF DbInv
<1> QED  BY <1>2, MovesDone

(* The threads about to count, and the commands ahead of a connection, are finitely many. *)
LEMMA Finite ==
  ASSUME DbAssumption, Types, NEW c \in Conns
  PROVE  /\ IsFiniteSet(Counting(c)) /\ Cardinality(Counting(c)) \in Nat
         /\ IsFiniteSet(Ahead(c)) /\ Cardinality(Ahead(c)) \in Nat
<1>1. IsFiniteSet(Apps)
  BY DEF DbAssumption
<1>2. IsFiniteSet(1 .. Len(cmds))
  BY FS_Interval DEF Types
<1>3. Counting(c) \subseteq Apps /\ Ahead(c) \subseteq 1 .. Len(cmds)
  BY DEF Counting, Ahead
<1> QED  BY <1>1, <1>2, <1>3, FS_Subset, FS_CardinalityType

(* The command is in the queue, and is counted. *)
LEMMA PostCountKeeps ==
  ASSUME DbAssumption, DbInv, NEW t \in Apps, PostCount(t)
  PROVE  DbInv'
<1>0. app[t].conn \in Conns /\ app[t].at = "count"
  BY DEF PostCount, DbInv, PostOK, Posting
<1> PICK c \in Conns : c = app[t].conn
  BY <1>0
<1>1. /\ procs # <<>> /\ UNCHANGED <<is_run, procs, queue, work, cmds>>
      /\ is_run \/ (t = Main /\ app[t].then = "run")
  BY <1>0, Open DEF PostCount
<1>2. /\ app' \in [Apps -> AppType] /\ app'[t].at \in {"idle", "run"} /\ app'[t].at = app[t].then
      /\ \A x \in Apps \ {t} : app'[x] = app[x]
  BY DEF PostCount, DbInv, Types, AppType, IdleApp
<1>3. /\ conn' \in [Conns -> ConnType] /\ conn'[c].alive = conn[c].alive /\ conn'[c].ack = conn[c].ack
      /\ conn'[c].req + conn'[c].req_mt = conn[c].req + conn[c].req_mt + 1
      /\ \A x \in Conns \ {c} : conn'[x] = conn[x]
  <2> DEFINE own == Async(c) /\ Creator[c] = t
  <2>1. conn \in [Conns -> ConnType] /\ conn[c] \in ConnType /\ conn[c].req \in Nat /\ conn[c].req_mt \in Nat
    BY DEF DbInv, Types, ConnType
  <2>2. conn' = [conn EXCEPT ![c].req = IF own THEN conn[c].req + 1 ELSE conn[c].req,
                             ![c].req_mt = IF own THEN conn[c].req_mt ELSE conn[c].req_mt + 1]
    BY DEF PostCount
  <2> HIDE DEF own
  <2>3. CASE own
    <3>1. conn' = [conn EXCEPT ![c].req = conn[c].req + 1, ![c].req_mt = conn[c].req_mt]
      BY <2>2, <2>3, Zenon
    <3> DEFINE a == conn[c].req + 1
    <3>2. a \in Nat /\ a = conn[c].req + 1
      BY <2>1
    <3>4. conn' = [conn EXCEPT ![c].req = a, ![c].req_mt = conn[c].req_mt]
      BY <3>1, Zenon
    <3> HIDE DEF a
    <3>3. /\ conn' \in [Conns -> ConnType] /\ \A x \in Conns \ {c} : conn'[x] = conn[x]
          /\ conn'[c].req = a /\ conn'[c].req_mt = conn[c].req_mt
          /\ conn'[c].ack = conn[c].ack /\ conn'[c].alive = conn[c].alive
      BY <2>1, <3>2, <3>4 DEF ConnType
    <3> QED  BY <2>1, <3>2, <3>3
  <2>4. CASE ~own
    <3>1. conn' = [conn EXCEPT ![c].req = conn[c].req, ![c].req_mt = conn[c].req_mt + 1]
      BY <2>2, <2>4, Zenon
    <3> DEFINE b == conn[c].req_mt + 1
    <3>2. b \in Nat /\ b = conn[c].req_mt + 1
      BY <2>1
    <3>4. conn' = [conn EXCEPT ![c].req = conn[c].req, ![c].req_mt = b]
      BY <3>1, ZenonT(60)
    <3> HIDE DEF b
    <3>3. /\ conn' \in [Conns -> ConnType] /\ \A x \in Conns \ {c} : conn'[x] = conn[x]
          /\ conn'[c].req = conn[c].req /\ conn'[c].req_mt = b
          /\ conn'[c].ack = conn[c].ack /\ conn'[c].alive = conn[c].alive
      BY <2>1, <3>2, <3>4 DEF ConnType
    <3> QED  BY <2>1, <3>2, <3>3
  <2> QED  BY <2>3, <2>4
<1>4. \A x \in Conns : conn'[x].alive = conn[x].alive
  BY <1>3
<1>5. Moves
  BY <1>0, <1>1, <1>2 DEF Moves
<1>6. Types' /\ WorkOK' /\ ClosedOK'
  BY <1>1, <1>2, <1>3 DEF DbInv, Types, WorkOK, ClosedOK, Posting
<1>7. \A x \in Apps : PostOK(x)'
  BY <1>1, <1>2, <1>4 DEF DbInv, PostOK, Posting
<1>8. ASSUME NEW x \in Conns PROVE CountOK(x)'
  <2>1. Ahead(x)' = Ahead(x) /\ CountOK(x)
    BY <1>1, <1>5, MovesKeep DEF DbInv
  <2>2. CASE x = c
    <3>1. t \in Counting(c) /\ Counting(c)' = Counting(c) \ {t}
      BY <1>0, <1>2 DEF Counting
    <3>2. Cardinality(Counting(c)') = Cardinality(Counting(c)) - 1
      BY <3>1, Finite, FS_RemoveElement, ZenonT(60) DEF DbInv
    <3>3. /\ Cardinality(Counting(c)) \in Nat /\ Cardinality(Ahead(c)) \in Nat
          /\ conn[c] \in ConnType /\ conn'[c] \in ConnType
      BY <1>3, Finite DEF DbInv, Types
    <3>6. /\ conn[c].req \in Nat /\ conn[c].req_mt \in Nat /\ conn[c].ack \in Nat
          /\ conn'[c].req \in Nat /\ conn'[c].req_mt \in Nat
      BY <3>3 DEF ConnType
    <3>4. conn[c].req + conn[c].req_mt + Cardinality(Counting(c)) = conn[c].ack + Cardinality(Ahead(c))
      BY <2>1, <2>2 DEF CountOK
    <3>5. conn'[c].req + conn'[c].req_mt + Cardinality(Counting(c)') = conn'[c].ack + Cardinality(Ahead(c)')
      BY <1>3, <2>1, <2>2, <3>2, <3>3, <3>4, <3>6
    <3> QED  BY <2>2, <3>5 DEF CountOK
  <2>3. CASE x # c
    <3>1. Counting(x)' = Counting(x)
      BY <1>0, <1>2, <2>3 DEF Counting
    <3> QED  BY <1>3, <2>1, <2>3, <3>1, CountKept
  <2> QED  BY <2>2, <2>3
<1> QED  BY <1>1, <1>4, <1>5, <1>6, <1>7, <1>8, MovesDone

(* db_manager_run begins. *)
LEMMA RunBeginKeeps ==
  ASSUME DbAssumption, DbInv, NEW t \in Apps, RunBegin(t)
  PROVE  DbInv'
<1>1. /\ is_run /\ procs # <<>> /\ procs' \in Seq(Apps) /\ procs' # <<>> /\ app[t].at = "idle"
      /\ UNCHANGED <<is_run, queue, conn, work, cmds>>
  BY Open, RegisteredLaw DEF RunBegin, DbInv, Types, Posting
<1>2. /\ app' \in [Apps -> AppType] /\ app'[t].at = "run" /\ app'[t].cmd = app[t].cmd
      /\ \A x \in Apps \ {t} : app'[x] = app[x]
  BY ZenonT(60) DEF RunBegin, DbInv, Types, AppType
<1>3. Moves
  BY <1>1, <1>2 DEF Moves
<1>4. Types' /\ WorkOK' /\ ClosedOK'
  BY <1>1, <1>2 DEF DbInv, Types, WorkOK, ClosedOK
<1>5. \A x \in Apps : PostOK(x)'
  BY <1>1, <1>2 DEF DbInv, PostOK, Posting
<1> QED  BY <1>1, <1>2, <1>3, <1>4, <1>5, MovesAside

(* destroy_mysql_connection begins to wait. *)
LEMMA DestroyBeginKeeps ==
  ASSUME DbAssumption, DbInv, NEW t \in Apps, NEW c \in Conns, DestroyBegin(t, c)
  PROVE  DbInv'
<1>1. /\ is_run /\ procs # <<>> /\ app[t].at = "idle"
      /\ \A u \in Apps : ~(Posting(u) /\ app[u].conn = c)
      /\ UNCHANGED <<is_run, procs, queue, conn, work, cmds>>
  BY Open DEF DestroyBegin, Posting
<1>2. /\ app' \in [Apps -> AppType] /\ app'[t].at = "destroy" /\ app'[t].conn = c
      /\ \A x \in Apps \ {t} : app'[x] = app[x]
  <2> DEFINE a == [app[t] EXCEPT !.at = "destroy", !.conn = c]
  <2>1. app \in [Apps -> AppType]
    BY DEF DbInv, Types
  <2>2. a \in AppType /\ a.at = "destroy" /\ a.conn = c
    BY <2>1 DEF AppType
  <2>3. app' = [app EXCEPT ![t] = a]
    BY DEF DestroyBegin
  <2> HIDE DEF a
  <2> QED  BY <2>1, <2>2, <2>3, AppLaw
<1>3. Moves
  BY <1>1, <1>2 DEF Moves
<1>4. Types' /\ WorkOK' /\ ClosedOK'
  BY <1>1, <1>2 DEF DbInv, Types, WorkOK, ClosedOK
<1>5. \A x \in Apps : PostOK(x)'
  BY <1>1, <1>2 DEF DbInv, PostOK, Posting
<1> QED  BY <1>1, <1>2, <1>3, <1>4, <1>5, MovesAside

(* Its counters agree: since nobody is about to count, no command is ahead. *)
LEMMA DestroyEndKeeps ==
  ASSUME DbAssumption, DbInv, NEW t \in Apps, DestroyEnd(t)
  PROVE  DbInv'
<1> DEFINE c == app[t].conn
<1>1. /\ is_run /\ procs # <<>> /\ app[t].at = "destroy" /\ c \in Conns
      /\ conn[c].req + conn[c].req_mt = conn[c].ack
      /\ UNCHANGED <<is_run, procs, queue, work, cmds>>
  BY Open DEF DestroyEnd, DbInv, PostOK
<1>2. /\ app' \in [Apps -> AppType] /\ app'[t].at = "idle"
      /\ \A x \in Apps \ {t} : app'[x] = app[x]
  BY DEF DestroyEnd, DbInv, Types, AppType, IdleApp
<1>3. /\ conn' \in [Conns -> ConnType] /\ conn'[c] = [conn[c] EXCEPT !.alive = FALSE]
      /\ \A x \in Conns \ {c} : conn'[x] = conn[x]
  BY <1>1 DEF DestroyEnd, DbInv, Types, ConnType
<1>4. \A u \in Apps : ~(Posting(u) /\ app[u].conn = c)
  BY <1>1 DEF DbInv, PostOK
<1> HIDE DEF c
<1>5. Moves
  BY <1>1, <1>2 DEF Moves
<1>6. Types' /\ WorkOK' /\ ClosedOK'
  BY <1>1, <1>2, <1>3, SMTT(60) DEF DbInv, Types, WorkOK, ClosedOK
<1>7. \A x \in Apps : PostOK(x)'
  BY <1>1, <1>2, <1>3, <1>4 DEF DbInv, PostOK, Posting
<1>8. \A x \in Conns : Counting(x)' = Counting(x)
  BY <1>1, <1>2 DEF Counting
<1>9. \A x \in Conns : conn'[x].req = conn[x].req /\ conn'[x].req_mt = conn[x].req_mt /\ conn'[x].ack = conn[x].ack
  BY <1>1, <1>3, SMTT(60) DEF DbInv, Types, ConnType
<1>10. \A x \in Conns : CountOK(x)'
  BY <1>1, <1>5, <1>8, <1>9, MovesKeep, CountKept DEF DbInv
<1>11. Ahead(c) = {}
  <2>1. Counting(c) = {}
    BY <1>4 DEF Counting, Posting
  <2>2. Cardinality(Counting(c)) = 0
    BY <2>1, FS_EmptySet
  <2>3. /\ CountOK(c) /\ conn[c] \in ConnType
        /\ IsFiniteSet(Ahead(c)) /\ Cardinality(Ahead(c)) \in Nat
    BY <1>1, Finite DEF DbInv, Types
  <2>4. Cardinality(Ahead(c)) = 0
    BY <1>1, <2>2, <2>3 DEF CountOK, ConnType
  <2> QED  BY <2>3, <2>4, FS_EmptySet
<1> QED  BY <1>1, <1>3, <1>5, <1>6, <1>7, <1>10, <1>11, MovesDone, SMTT(60)

(* A thread of the application ends. *)
LEMMA LeaveKeeps ==
  ASSUME DbAssumption, DbInv, NEW t \in Apps, Leave(t)
  PROVE  DbInv'
<1>1. /\ is_run /\ procs # <<>> /\ app[t].at = "idle"
      /\ UNCHANGED <<is_run, procs, queue, conn, work, cmds>>
  BY Open DEF Leave
<1>2. /\ app' \in [Apps -> AppType] /\ app'[t].at = "gone"
      /\ \A x \in Apps \ {t} : app'[x] = app[x]
  BY ZenonT(60) DEF Leave, DbInv, Types, AppType
<1>3. Moves
  BY <1>1, <1>2 DEF Moves
<1>4. Types' /\ WorkOK' /\ ClosedOK'
  BY <1>1, <1>2 DEF DbInv, Types, WorkOK, ClosedOK
<1>5. \A x \in Apps : PostOK(x)'
  BY <1>1, <1>2 DEF DbInv, PostOK, Posting
<1> QED  BY <1>1, <1>2, <1>3, <1>4, <1>5, MovesAside

(* uninit_db_manager begins: nobody else uses the manager any more. *)
LEMMA UninitBeginKeeps ==
  ASSUME DbAssumption, DbInv, UninitBegin
  PROVE  DbInv'
<1>1. /\ Main \in Apps /\ procs # <<>> /\ \A x \in Apps : app[x].at \in {"idle", "gone"}
      /\ is_run' = FALSE /\ UNCHANGED <<procs, queue, conn, work, cmds>>
  BY Constants, Open DEF UninitBegin
<1>2. /\ app' \in [Apps -> AppType] /\ app'[Main].at = "run"
      /\ \A x \in Apps \ {Main} : app'[x].at = "gone"
  BY <1>1, ZenonT(60) DEF UninitBegin, DbInv, Types, AppType
<1>3. Moves
  BY <1>1, <1>2 DEF Moves
<1>4. Types' /\ WorkOK' /\ ClosedOK'
  BY <1>1, <1>2 DEF DbInv, Types, WorkOK, ClosedOK, Posting
<1>5. \A x \in Apps : PostOK(x)'
  BY <1>1, <1>2 DEF DbInv, PostOK, Posting
<1>6. \A x \in Apps : app[x].at # "count" /\ app'[x].at # "count"
  BY <1>1, <1>2
<1> QED  BY <1>1, <1>3, <1>4, <1>5, <1>6, MovesAside

(* ... and ends: the work threads have, and the queues are freed. *)
LEMMA UninitEndKeeps ==
  ASSUME DbAssumption, DbInv, UninitEnd
  PROVE  DbInv'
<1>1. /\ Main \in Apps /\ app[Main].at = "join" /\ ~is_run /\ \A d \in DbThreads : work[d].at = "ended"
      /\ procs' = <<>> /\ queue' = [t \in Apps |-> [d \in DbThreads |-> NoQueue]]
      /\ UNCHANGED <<is_run, conn, work, cmds>>
  BY Constants DEF UninitEnd, DbInv, ClosedOK
<1>2. /\ app' \in [Apps -> AppType] /\ app'[Main].at = "gone"
      /\ \A x \in Apps \ {Main} : app'[x] = app[x] /\ app[x].at = "gone"
  <2> DEFINE a == [app[Main] EXCEPT !.at = "gone"]
  <2>1. app \in [Apps -> AppType] /\ app' = [app EXCEPT ![Main] = a]
    BY DEF UninitEnd, DbInv, Types
  <2>2. a \in AppType /\ a.at = "gone"
    BY <1>1, <2>1 DEF AppType
  <2>3. \A x \in Apps \ {Main} : app[x].at = "gone"
    BY <1>1 DEF DbInv, ClosedOK
  <2> HIDE DEF a
  <2> QED  BY <1>1, <2>1, <2>2, <2>3, AppLaw
<1>3. /\ queue' \in [Apps -> [DbThreads -> QueueType]]
      /\ \A t \in Apps, d \in DbThreads : queue'[t][d] = NoQueue
  BY <1>1 DEF QueueType, NoQueue
<1>4. Types' /\ WorkOK'
  BY <1>1, <1>2, <1>3 DEF DbInv, Types, WorkOK
<1>5. ClosedOK'
  BY <1>1, <1>2 DEF DbInv, ClosedOK, Posting
<1>6. \A x \in Apps : PostOK(x)'
  BY <1>1, <1>2 DEF DbInv, PostOK, Posting
<1>7. \A t \in Apps, d \in DbThreads : /\ Range(queue'[t][d].cmd) = {} /\ Range(queue'[t][d].ret) = {}
                                      /\ Range(queue'[t][d].cache) = {}
  BY <1>3, ShortLaw DEF NoQueue
<1>8. \A k : Answered(k)' = Answered(k)
  BY <1>1 DEF Answered
<1>9. DoneOK'
  BY <1>1, <1>7, <1>8 DEF DbInv, DoneOK
<1>10. \A c \in Conns : Ahead(c)' = {}
  BY <1>1, <1>7 DEF Ahead, Waits
<1> QED  BY <1>1, <1>4, <1>5, <1>6, <1>9, <1>10 DEF DbInv

(* A work thread begins a pass, *)
LEMMA WorkTopKeeps ==
  ASSUME DbAssumption, DbInv, NEW d \in DbThreads, WorkTop(d)
  PROVE  DbInv'
<1>1. /\ procs # <<>> /\ work[d].at = "top" /\ UNCHANGED <<is_run, procs, queue, conn, app, cmds>>
  BY WorkOpen DEF WorkTop
<1>2. /\ work' \in [DbThreads -> WorkType] /\ work'[d].at = "look"
      /\ \A e \in DbThreads \ {d} : work'[e] = work[e]
  <2> DEFINE w == [work[d] EXCEPT !.at = "look", !.list = procs, !.busy = FALSE, !.ending = ~is_run]
  <2>1. work \in [DbThreads -> WorkType] /\ procs \in Seq(Apps)
    BY DEF DbInv, Types
  <2>2. w \in WorkType /\ w.at = "look"
    BY <2>1 DEF WorkType
  <2>3. work' = [work EXCEPT ![d] = w]
    BY DEF WorkTop
  <2> HIDE DEF w
  <2> QED  BY <2>1, <2>2, <2>3, WorkLaw
<1>3. Moves
  BY <1>1, <1>2 DEF Moves, Handling
<1>4. Types' /\ WorkOK' /\ ClosedOK'
  BY <1>1, <1>2 DEF DbInv, Types, WorkOK, ClosedOK, Posting
<1>5. \A x \in Apps : PostOK(x)'
  BY <1>1 DEF DbInv, PostOK, Posting
<1> QED  BY <1>1, <1>3, <1>4, <1>5, MovesAside

(* and ends it. *)
LEMMA WorkPassEndsKeeps ==
  ASSUME DbAssumption, DbInv, NEW d \in DbThreads, WorkPassEnds(d)
  PROVE  DbInv'
<1>1. /\ procs # <<>> /\ work[d].at = "look" /\ UNCHANGED <<is_run, procs, queue, conn, app, cmds>>
  BY WorkOpen DEF WorkPassEnds
<1>2. /\ work' \in [DbThreads -> WorkType] /\ work'[d].at \in {"top", "look", "ended"}
      /\ \A e \in DbThreads \ {d} : work'[e] = work[e]
  <2>1. work \in [DbThreads -> WorkType] /\ procs \in Seq(Apps)
    BY DEF DbInv, Types
  <2>2. PICK w \in WorkType : w.at \in {"top", "look", "ended"} /\ work' = [work EXCEPT ![d] = w]
    <3>1. CASE ~work[d].ending
      <4>1. work' = [work EXCEPT ![d] = [work[d] EXCEPT !.at = "top"]]
        BY <3>1 DEF WorkPassEnds, Goto
      <4>2. [work[d] EXCEPT !.at = "top"] \in WorkType /\ [work[d] EXCEPT !.at = "top"].at = "top"
        BY <2>1 DEF WorkType
      <4> QED  BY <4>1, <4>2
    <3>2. CASE work[d].ending /\ work[d].busy
      <4>1. work' = [work EXCEPT ![d] = [work[d] EXCEPT !.list = procs, !.busy = FALSE]]
        BY <3>2 DEF WorkPassEnds
      <4>2. work[d].at = "look"
        BY DEF WorkPassEnds
      <4> QED  BY <2>1, <4>1, <4>2 DEF WorkType
    <3>3. CASE work[d].ending /\ ~work[d].busy
      <4>1. work' = [work EXCEPT ![d] = [work[d] EXCEPT !.at = "ended"]]
        BY <3>3 DEF WorkPassEnds, Goto
      <4>2. [work[d] EXCEPT !.at = "ended"] \in WorkType /\ [work[d] EXCEPT !.at = "ended"].at = "ended"
        BY <2>1 DEF WorkType
      <4> QED  BY <4>1, <4>2
    <3> QED  BY <3>1, <3>2, <3>3
  <2> QED  BY <2>1, <2>2, WorkLaw
<1>3. Moves
  BY <1>1, <1>2 DEF Moves, Handling
<1>4. Types' /\ WorkOK' /\ ClosedOK'
  BY <1>1, <1>2 DEF DbInv, Types, WorkOK, ClosedOK, Posting
<1>5. \A x \in Apps : PostOK(x)'
  BY <1>1 DEF DbInv, PostOK, Posting
<1> QED  BY <1>1, <1>3, <1>4, <1>5, MovesAside

-----------------------------------------------------------------------------
(* Steps that move commands. *)

(* The thread a work thread is visiting. *)
LEMMA Visited ==
  ASSUME DbInv, NEW d \in DbThreads, work[d].list # <<>>
  PROVE  Head(work[d].list) \in Apps
BY DEF DbInv, Types, WorkType

(* A command that waits is an unanswered one of its thread and work thread, and in one place. *)
LEMMA Places ==
  ASSUME DbInv, procs # <<>>
  PROVE  /\ \A t \in Apps, d \in DbThreads : \A k \in Range(queue[t][d].cmd) : k \in Unanswered(t, d)
         /\ \A d \in DbThreads : work[d].at \in Handling =>
              /\ Head(work[d].list) \in Apps
              /\ work[d].cmd \in Unanswered(Head(work[d].list), d)
              /\ \A k \in Range(queue[Head(work[d].list)][d].cmd) : work[d].cmd < k
<1>1. ASSUME NEW t \in Apps, NEW d \in DbThreads
      PROVE  \A k \in Range(queue[t][d].cmd) \cup Holds(t, d) : k \in Unanswered(t, d)
  BY DEF DbInv, FlowOK, Flow
<1>2. ASSUME NEW d \in DbThreads, work[d].at \in Handling
      PROVE  /\ Head(work[d].list) \in Apps
             /\ work[d].cmd \in Unanswered(Head(work[d].list), d)
             /\ \A k \in Range(queue[Head(work[d].list)][d].cmd) : work[d].cmd < k
  <2>1. Head(work[d].list) \in Apps
    BY <1>2, Visited DEF DbInv, WorkOK, Handling
  <2>2. work[d].cmd \in Holds(Head(work[d].list), d)
    BY <1>2 DEF Holds, Handling
  <2>3. FlowOK(Head(work[d].list), d)
    BY <2>1 DEF DbInv
  <2> QED  BY <1>1, <2>1, <2>2, <2>3, Zenon DEF FlowOK, Flow, Before
<1> QED  BY <1>1, <1>2

(* Commands of different threads, or for different work threads, are different. *)
LEMMA Apart ==
  ASSUME NEW t, NEW d, NEW x, NEW e, NEW k, k \in Unanswered(t, d), k \in Unanswered(x, e)
  PROVE  x = t /\ e = d
BY SMTT(60) DEF Unanswered

(* What a thread of the application does to the commands: it gives the answer to m, the first of *)
(* its results, or leaves them (m is 0), and it may begin to post a new one.                     *)
Gives(t, d, m) ==
  /\ \/ m = 0 /\ queue' = queue
     \/ /\ queue[t][d].ret # <<>> /\ m = Head(queue[t][d].ret)
        /\ queue' = [queue EXCEPT ![t][d] = [queue[t][d] EXCEPT !.ret = Tail(queue[t][d].ret)]]
  /\ Len(cmds) <= Len(cmds')
  /\ \A j \in 1 .. Len(cmds) :
       /\ cmds'[j].by = cmds[j].by /\ cmds'[j].conn = cmds[j].conn /\ cmds'[j].times = cmds[j].times
       /\ cmds'[j].given <=> (cmds[j].given \/ j = m)
  /\ \A j \in 1 .. Len(cmds') : j > Len(cmds) =>
       /\ cmds'[j].by = t /\ ~cmds'[j].given
       /\ app'[t].at = "push" /\ app'[t].cmd = j
  /\ app[t].at # "push" /\ (app'[t].at = "push" => app'[t].cmd > Len(cmds))
  /\ \A x \in Apps \ {t} : app'[x] = app[x]
  /\ UNCHANGED work

(* The queues after it. *)
LEMMA GivesQueues ==
  ASSUME DbInv, procs # <<>>, NEW t \in Apps, NEW d \in DbThreads, NEW m, Gives(t, d, m)
  PROVE  /\ queue' \in [Apps -> [DbThreads -> QueueType]]
         /\ \A x \in Apps, e \in DbThreads :
              /\ queue'[x][e].cmd = queue[x][e].cmd /\ queue'[x][e].cache = queue[x][e].cache
              /\ ~(x = t /\ e = d /\ m # 0) => queue'[x][e].ret = queue[x][e].ret
         /\ m # 0 => /\ queue[t][d].ret \in Seq(Nat) /\ queue[t][d].ret # <<>> /\ m = Head(queue[t][d].ret)
                     /\ queue'[t][d].ret = Tail(queue[t][d].ret)
                     /\ m \in Unanswered(t, d) /\ m \in Range(queue[t][d].ret)
                     /\ Range(queue'[t][d].ret) \subseteq Range(queue[t][d].ret)
<1>1. queue \in [Apps -> [DbThreads -> QueueType]] /\ queue[t][d] \in QueueType /\ queue[t][d].ret \in Seq(Nat)
  BY DEF DbInv, Types, QueueType
<1>2. CASE m = 0 /\ queue' = queue
  BY <1>1, <1>2
<1>3. CASE /\ queue[t][d].ret # <<>> /\ m = Head(queue[t][d].ret)
           /\ queue' = [queue EXCEPT ![t][d] = [queue[t][d] EXCEPT !.ret = Tail(queue[t][d].ret)]]
  <2> DEFINE q == [queue[t][d] EXCEPT !.ret = Tail(queue[t][d].ret)]
  <2>1. Tail(queue[t][d].ret) \in Seq(Nat)
    BY <1>1, <1>3
  <2>2. q \in QueueType /\ q.cmd = queue[t][d].cmd /\ q.cache = queue[t][d].cache /\ q.ret = Tail(queue[t][d].ret)
    BY <1>1, <2>1 DEF QueueType
  <2>3. queue' = [queue EXCEPT ![t][d] = q]
    BY <1>3
  <2> HIDE DEF q
  <2>4. /\ queue' \in [Apps -> [DbThreads -> QueueType]] /\ queue'[t][d] = q
        /\ \A x \in Apps, e \in DbThreads : ~(x = t /\ e = d) => queue'[x][e] = queue[x][e]
    BY <1>1, <2>2, <2>3, QueueLaw
  <2>5. /\ m \in Unanswered(t, d) /\ Increasing(queue[t][d].ret)
    BY <1>1, <1>3, FlowGive DEF DbInv, FlowOK, Flow
  <2>6. m \in Range(queue[t][d].ret) /\ Range(Tail(queue[t][d].ret)) \subseteq Range(queue[t][d].ret) /\ m # 0
    BY <1>1, <1>3, <2>5, TailLaw DEF Unanswered
  <2> QED  BY <1>1, <1>3, <2>2, <2>4, <2>5, <2>6
<1> QED  BY <1>2, <1>3 DEF Gives

(* The order stays, and what waits; what was given had been done. *)
LEMMA GivesKeeps ==
  ASSUME DbInv, procs # <<>>, NEW t \in Apps, NEW d \in DbThreads, NEW m, Gives(t, d, m)
  PROVE  /\ DoneOK' /\ \A x \in Apps, e \in DbThreads : FlowOK(x, e)'
         /\ \A c \in Conns : Ahead(c)' = Ahead(c)
<1> DEFINE n == Len(cmds)
           M(x, e) == IF x = t /\ e = d THEN {m} ELSE {}
<1>1. n \in Nat /\ Len(cmds') \in Nat /\ n <= Len(cmds')
  BY DEF Gives, DbInv, Types
<1>2. /\ \A x \in Apps, e \in DbThreads : Holds(x, e)' = Holds(x, e)
      /\ \A k : Waits(k)' <=> Waits(k)
  <2>1. UNCHANGED work
    BY DEF Gives
  <2>2. \A x \in Apps, e \in DbThreads : queue'[x][e].cmd = queue[x][e].cmd
    BY GivesQueues
  <2>3. \A x \in Apps, e \in DbThreads : Holds(x, e)' = Holds(x, e)
    BY <2>1 DEF Holds
  <2>4. ASSUME NEW k PROVE Waits(k)' <=> Waits(k)
    BY <2>1, <2>2 DEF Waits
  <2> QED  BY <2>3, <2>4
<1>3. m = 0 \/ m \in Unanswered(t, d)
  BY GivesQueues
<1>4. ASSUME NEW x \in Apps, NEW e \in DbThreads
      PROVE  Unanswered(x, e)' = Unanswered(x, e) \ M(x, e)
  <2>1. ASSUME NEW k \in 1 .. Len(cmds'), k > n PROVE k \notin Unanswered(x, e)'
    BY <2>1 DEF Gives, Unanswered
  <2>2. ASSUME NEW k \in 1 .. n
        PROVE  k \in Unanswered(x, e)' <=> (k \in Unanswered(x, e) /\ k \notin M(x, e))
    <3>1. k \in 1 .. Len(cmds') /\ ~(app'[t].at = "push" /\ app'[t].cmd = k) /\ app[t].at # "push"
      BY <1>1 DEF Gives
    <3>2. ~(app'[x].at = "push" /\ app'[x].cmd = k) <=> ~(app[x].at = "push" /\ app[x].cmd = k)
      BY <3>1 DEF Gives
    <3>3. CASE k = m
      <4>1. k \in Unanswered(t, d)
        BY <1>3, <3>3
      <4>2. k \in Unanswered(x, e) => k \in M(x, e)
        BY <3>3, <4>1, Apart
      <4>3. cmds'[k].given
        BY <3>3 DEF Gives
      <4> QED  BY <4>2, <4>3 DEF Unanswered
    <3>4. CASE k # m
      BY <3>1, <3>2, <3>4 DEF Gives, Unanswered
    <3> QED  BY <3>3, <3>4
  <2>3. Unanswered(x, e)' \subseteq 1 .. Len(cmds') /\ Unanswered(x, e) \subseteq 1 .. n
    BY DEF Unanswered
  <2>4. \A k \in 1 .. Len(cmds') : k > n \/ k \in 1 .. n
    BY <1>1
  <2> QED  BY <1>1, <2>1, <2>2, <2>3, <2>4
<1>5. ASSUME NEW x \in Apps, NEW e \in DbThreads
      PROVE  FlowOK(x, e)'
  <2>1. FlowOK(x, e)
    BY DEF DbInv
  <2>2. CASE x = t /\ e = d /\ m # 0
    <3>1. Flow(Tail(queue[t][d].ret), queue[t][d].cache, Holds(t, d), queue[t][d].cmd, Unanswered(t, d) \ {m})
      BY <2>1, <2>2, GivesQueues, FlowGive DEF FlowOK
    <3>2. Unanswered(t, d)' = Unanswered(t, d) \ {m}
      BY <1>4, <2>2
    <3> QED  BY <1>2, <2>2, <3>1, <3>2, GivesQueues DEF FlowOK
  <2>3. CASE ~(x = t /\ e = d /\ m # 0)
    <3>1. Unanswered(x, e)' = Unanswered(x, e)
      BY <1>4, <2>3 DEF Unanswered
    <3> QED  BY <1>2, <2>1, <2>3, <3>1, GivesQueues DEF FlowOK
  <2> QED  BY <2>2, <2>3
<1>6. ASSUME NEW k
      PROVE  (Answered(k) => Answered(k)') /\ (Untouched(k) => Untouched(k)')
  BY <1>1 DEF Gives, Answered, Untouched
<1>7. ASSUME NEW k \in 1 .. Len(cmds'), cmds'[k].given PROVE Answered(k)'
  <2>1. k \in 1 .. n /\ (cmds[k].given \/ k = m)
    BY <1>1, <1>7 DEF Gives
  <2>2. Answered(k)
    BY <1>3, <2>1, GivesQueues DEF DbInv, DoneOK
  <2> QED  BY <1>6, <2>2
<1>10. m # 0 => Range(queue'[t][d].ret) \subseteq Range(queue[t][d].ret)
  BY GivesQueues, ZenonT(60)
<1>8. DoneOK'
  <2>1. ASSUME NEW x \in Apps, NEW e \in DbThreads
        PROVE  /\ Range(queue'[x][e].ret) \subseteq Range(queue[x][e].ret)
               /\ queue'[x][e].cache = queue[x][e].cache /\ queue'[x][e].cmd = queue[x][e].cmd
    <3>1. CASE x = t /\ e = d /\ m # 0
      <4>1. Range(queue'[t][d].ret) \subseteq Range(queue[t][d].ret)
        BY <3>1, <1>10
      <4>2. queue'[x][e].cache = queue[x][e].cache /\ queue'[x][e].cmd = queue[x][e].cmd
        BY GivesQueues
      <4> QED  BY <3>1, <4>1, <4>2
    <3>2. CASE ~(x = t /\ e = d /\ m # 0)
      <4>1. queue'[x][e].ret = queue[x][e].ret
        BY <3>2, GivesQueues
      <4> QED  BY <4>1, GivesQueues
    <3> QED  BY <3>1, <3>2
  <2>2. UNCHANGED work
    BY DEF Gives
  <2> QED  BY <1>6, <1>7, <2>1, <2>2 DEF DbInv, DoneOK
<1>9. ASSUME NEW c \in Conns PROVE Ahead(c)' = Ahead(c)
  <2>1. \A k : Waits(k) => k \in 1 .. n
    BY DEF Waits, DbInv, DoneOK, Untouched
  <2>2. \A k \in 1 .. n : k \in 1 .. Len(cmds') /\ cmds'[k].conn = cmds[k].conn
    BY <1>1 DEF Gives
  <2> QED  BY <1>2, <2>1, <2>2 DEF Ahead
<1> QED  BY <1>5, <1>8, <1>9

(* What is left to show of such a step. *)
LEMMA GivesDone ==
  ASSUME DbInv, procs # <<>>, NEW t \in Apps, NEW d \in DbThreads, NEW m, Gives(t, d, m),
         Types', ClosedOK', \A x \in Apps : PostOK(x)', UNCHANGED conn,
         app[t].at # "count", app'[t].at # "count"
  PROVE  DbInv'
<1>1. DoneOK' /\ (\A x \in Apps, e \in DbThreads : FlowOK(x, e)') /\ \A c \in Conns : Ahead(c)' = Ahead(c)
  BY GivesKeeps
<1>2. \A c \in Conns : Counting(c)' = Counting(c)
  BY DEF Counting, Gives
<1>3. \A c \in Conns : CountOK(c)'
  BY <1>1, <1>2, CountKept DEF DbInv
<1>4. WorkOK'
  BY DEF DbInv, WorkOK, Gives
<1> QED  BY <1>1, <1>3, <1>4 DEF DbInv

(* A thread that is not posting leaves the posts of the others as they are, *)
LEMMA PostsAside ==
  ASSUME DbInv, procs # <<>>, NEW t \in Apps, NEW d \in DbThreads, NEW m, Gives(t, d, m), UNCHANGED conn,
         app[t].at \notin {"push", "count", "destroy"}, app'[t].at # "destroy"
  PROVE  \A x \in Apps \ {t} : PostOK(x)'
<1> SUFFICES ASSUME NEW x \in Apps \ {t} PROVE PostOK(x)'
  OBVIOUS
<1>1. app'[x] = app[x] /\ Len(cmds) \in Nat /\ Len(cmds') \in Nat
  BY DEF Gives, DbInv, Types
<1>2. /\ PostOK(x)
      /\ \A u \in Apps : app'[u].at = "destroy" => app[u].at = "destroy" /\ app'[u].conn = app[u].conn
  BY DEF DbInv, Gives
<1>3. Posting(x)' => /\ app'[x].conn \in Conns /\ conn'[app'[x].conn].alive
                     /\ \A u \in Apps : ~(app'[u].at = "destroy" /\ app'[u].conn = app'[x].conn)
  BY <1>1, <1>2 DEF PostOK, Posting
<1>4. ASSUME app'[x].at = "push"
      PROVE  LET k == app'[x].cmd IN
             /\ k \in 1 .. Len(cmds') /\ cmds'[k].by = x /\ cmds'[k].conn = app'[x].conn
             /\ cmds'[k].times = 0 /\ ~cmds'[k].given
             /\ \A j \in 1 .. Len(cmds') : cmds'[j].by = x => j <= k
  <2> DEFINE k == app[x].cmd
  <2>1. /\ k \in 1 .. Len(cmds) /\ cmds[k].by = x /\ cmds[k].conn = app[x].conn
        /\ cmds[k].times = 0 /\ ~cmds[k].given
        /\ \A j \in 1 .. Len(cmds) : cmds[j].by = x => j <= k
    BY <1>1, <1>2, <1>4 DEF PostOK
  <2>2. k # m
    <3>1. m # 0 => m \in Unanswered(t, d)
      BY GivesQueues
    <3>2. m # 0 => cmds[m].by = t
      BY <3>1 DEF Unanswered
    <3> QED  BY <2>1, <3>2
  <2>3. /\ k \in 1 .. Len(cmds') /\ cmds'[k].by = x /\ cmds'[k].conn = app[x].conn
        /\ cmds'[k].times = 0 /\ ~cmds'[k].given
    BY <1>1, <2>1, <2>2 DEF Gives
  <2>4. ASSUME NEW j \in 1 .. Len(cmds'), cmds'[j].by = x PROVE j <= k
    <3>1. j \in 1 .. Len(cmds)
      BY <1>1, <2>4 DEF Gives
    <3>2. cmds[j].by = x
      BY <2>4, <3>1 DEF Gives
    <3> QED  BY <2>1, <3>1, <3>2
  <2> QED  BY <1>1, <2>3, <2>4
<1> QED  BY <1>1, <1>2, <1>3, <1>4 DEF PostOK

(* and its own post begins in order. *)
LEMMA PostStarts ==
  ASSUME DbInv, NEW t \in Apps, NEW c \in Conns, NEW k \in Nat,
         cmds' \in Seq(CmdType), k = Len(cmds'), k > 0,
         cmds'[k] = [by |-> t, conn |-> c, times |-> 0, given |-> FALSE],
         app'[t].at = "push", app'[t].cmd = k, app'[t].conn = c, conn'[c].alive,
         \A u \in Apps : ~(app'[u].at = "destroy" /\ app'[u].conn = c)
  PROVE  PostOK(t)'
<1>1. k \in 1 .. Len(cmds') /\ \A j \in 1 .. Len(cmds') : j <= k
  OBVIOUS
<1>2. cmds'[k].by = t /\ cmds'[k].conn = c /\ cmds'[k].times = 0 /\ ~cmds'[k].given
  OBVIOUS
<1> QED  BY <1>1, <1>2 DEF PostOK, Posting

(* A command is posted, by a call of its own or by a callback. *)
LEMMA AppendKeeps ==
  ASSUME DbAssumption, DbInv, NEW t \in Apps, NEW c \in Conns, MayPost(c),
         procs # <<>>, procs' \in Seq(Apps), procs' # <<>>,
         app[t].at \in {"idle", "run"}, is_run \/ (t = Main /\ app[t].then = "run"),
         cmds' = Append(cmds, Posted(t, c)),
         app' = [app EXCEPT ![t].at = "push", ![t].cmd = Len(cmds) + 1, ![t].conn = c],
         UNCHANGED <<is_run, queue, conn, work>>
  PROVE  DbInv'
<1> DEFINE n == Len(cmds)
           r == [by |-> t, conn |-> c, times |-> 0, given |-> FALSE]
<1>1. /\ procs # <<>> /\ procs' \in Seq(Apps) /\ procs' # <<>> /\ app[t].at \in {"idle", "run"}
      /\ UNCHANGED <<is_run, queue, conn, work>>
  OBVIOUS
<1>2. r \in CmdType /\ cmds \in Seq(CmdType) /\ n \in Nat
  BY DEF CmdType, DbInv, Types
<1>3. /\ cmds' \in Seq(CmdType) /\ Len(cmds') = n + 1 /\ cmds'[n + 1] = r
      /\ \A j \in 1 .. n : cmds'[j] = cmds[j]
  BY <1>2, CmdAppend DEF Posted
<1>4. /\ app' \in [Apps -> AppType] /\ app'[t].at = "push" /\ app'[t].cmd = n + 1 /\ app'[t].conn = c
      /\ app'[t].then = app[t].then
      /\ \A x \in Apps \ {t} : app'[x] = app[x]
  <2> DEFINE a == [app[t] EXCEPT !.at = "push", !.cmd = n + 1, !.conn = c]
  <2>1. app \in [Apps -> AppType] /\ n + 1 \in Nat
    BY <1>2 DEF DbInv, Types
  <2>2. app' = [app EXCEPT ![t] = a]
    OBVIOUS
  <2> HIDE DEF n
  <2>3. a \in AppType /\ a.at = "push" /\ a.cmd = n + 1 /\ a.conn = c /\ a.then = app[t].then
    BY <2>1 DEF AppType
  <2> HIDE DEF a
  <2> QED  BY <2>1, <2>2, <2>3, AppLaw
<1>5. \A u \in Apps : ~(app'[u].at = "destroy" /\ app'[u].conn = c)
  BY <1>4 DEF MayPost
<1>6. 0 \in DbThreads
  BY Constants
<1>7. Gives(t, 0, 0)
  <2>1. ASSUME NEW j \in 1 .. Len(cmds'), j > n
        PROVE  cmds'[j].by = t /\ ~cmds'[j].given /\ app'[t].at = "push" /\ app'[t].cmd = j
    <3>1. j = n + 1
      BY <1>2, <1>3, <2>1
    <3> QED  BY <1>3, <1>4, <3>1
  <2>2. \A j \in 1 .. n : j # 0 /\ cmds[j].given \in BOOLEAN
    <3>1. \A j \in 1 .. n : cmds[j] \in CmdType
      BY <1>2
    <3>2. \A x \in CmdType : x.given \in BOOLEAN
      BY DEF CmdType
    <3>3. \A j \in 1 .. n : j # 0
      OBVIOUS
    <3> QED  BY <3>1, <3>2, <3>3
  <2> HIDE DEF r
  <2> QED  BY <1>1, <1>2, <1>3, <1>4, <2>1, <2>2 DEF Gives
<1>8. Types' /\ ClosedOK'
  BY <1>1, <1>3, <1>4 DEF DbInv, Types, ClosedOK, Posting
<1>9. conn'[c].alive
  BY <1>1 DEF MayPost
<1>10. PostOK(t)'
  BY <1>2, <1>3, <1>4, <1>5, <1>9, PostStarts
<1>11. \A x \in Apps : PostOK(x)'
  BY <1>1, <1>4, <1>6, <1>7, <1>10, PostsAside
<1> QED  BY <1>1, <1>4, <1>6, <1>7, <1>8, <1>11, GivesDone

LEMMA PostBeginKeeps ==
  ASSUME DbAssumption, DbInv, NEW t \in Apps, NEW c \in Conns, PostBegin(t, c) \/ RunPostMore(t, c)
  PROVE  DbInv'
<1>1. CASE PostBegin(t, c)
  <2>1. /\ procs # <<>> /\ procs' \in Seq(Apps) /\ procs' # <<>> /\ app[t].at = "idle" /\ is_run
    BY <1>1, Open, RegisteredLaw DEF PostBegin, DbInv, Types
  <2> QED  BY <1>1, <2>1, AppendKeeps, Zenon DEF PostBegin
<1>2. CASE RunPostMore(t, c)
  <2>1. /\ procs # <<>> /\ procs' \in Seq(Apps) /\ procs' = procs /\ (is_run \/ t = Main)
        /\ app[t].at = "run" /\ app[t].then = "run"
    BY <1>2 DEF RunPostMore, DbInv, Types, ClosedOK
  <2> QED  BY <1>2, <2>1, AppendKeeps, Zenon DEF RunPostMore
<1> QED  BY <1>1, <1>2

(* What every look at a ret_queue does: the first result, if there is one, is given. *)
LEMMA LookGives ==
  ASSUME DbAssumption, DbInv, NEW t \in Apps, NEW after \in AppType, RunLook(t, after),
         after.at \notin {"push", "count", "destroy"}
  PROVE  /\ app[t].at = "run" /\ app[t].idx \in DbThreads
         /\ app' \in [Apps -> AppType] /\ app'[t].at = after.at
         /\ cmds' \in Seq(CmdType) /\ queue' \in [Apps -> [DbThreads -> QueueType]]
         /\ UNCHANGED <<is_run, procs, conn, work>>
         /\ procs # <<>> => \E m : Gives(t, app[t].idx, m)
<1>1. /\ app[t].at = "run" /\ UNCHANGED <<is_run, procs, conn, work>>
      /\ app \in [Apps -> AppType] /\ queue \in [Apps -> [DbThreads -> QueueType]] /\ cmds \in Seq(CmdType)
  BY DEF RunLook, DbInv, Types
<1> PICK d \in DbThreads : d = app[t].idx
  BY <1>1 DEF AppType
<1> DEFINE ret == queue[t][d].ret
<1>2. /\ app' \in [Apps -> AppType] /\ app'[t].at = after.at /\ \A x \in Apps \ {t} : app'[x] = app[x]
  <2>1. app[t].unbusy \in Nat /\ app[t].unbusy + 1 \in Nat /\ (d + 1) % DbNum \in DbThreads
    <3>1. app[t].unbusy \in Nat
      BY <1>1 DEF AppType
    <3>2. d + 1 \in Nat
      BY DEF DbThreads
    <3>3. (d + 1) % DbNum \in DbThreads
      BY <3>2, Constants
    <3> QED  BY <3>1, <3>3
  <2>2. PICK u \in Nat, i \in DbThreads : app' = [app EXCEPT ![t] = [after EXCEPT !.idx = i, !.then = "idle", !.unbusy = u]]
    <3> DEFINE u == IF after.at = "run" THEN IF ret # <<>> THEN 0 ELSE app[t].unbusy + 1 ELSE 0
    <3>1. u \in Nat
      BY <2>1
    <3>2. app' = [app EXCEPT ![t] = [after EXCEPT !.idx = (d + 1) % DbNum, !.then = "idle", !.unbusy = u]]
      BY Zenon DEF RunLook
    <3> HIDE DEF u
    <3> QED  BY <2>1, <3>1, <3>2
  <2> DEFINE a == [after EXCEPT !.idx = i, !.then = "idle", !.unbusy = u]
  <2>3. a \in AppType /\ a.at = after.at
    BY DEF AppType
  <2> HIDE DEF a
  <2> QED  BY <1>1, <2>2, <2>3, AppLaw DEF a
<1>3. CASE ret = <<>>
  <2>1. UNCHANGED <<queue, cmds>>
    BY <1>3 DEF RunLook
  <2>2. \A j \in 1 .. Len(cmds) : j # 0 /\ cmds[j] \in CmdType
    BY <1>1
  <2>3. \A x \in CmdType : x.given \in BOOLEAN
    BY DEF CmdType
  <2>4. Gives(t, d, 0)
    BY <1>1, <1>2, <2>1, <2>2, <2>3 DEF Gives
  <2> QED  BY <1>1, <1>2, <2>1, <2>4
<1>4. CASE ret # <<>>
  <2>1. ret \in Seq(Nat) /\ Tail(ret) \in Seq(Nat) /\ queue[t][d] \in QueueType
    BY <1>1, <1>4 DEF QueueType
  <2>2. Head(ret) \in 1 .. Len(cmds)
    <3>1. \A k \in Range(ret) : k \in 1 .. Len(cmds)
      BY DEF DbInv, DoneOK, Answered
    <3>2. Head(ret) \in Range(ret)
      BY <1>4, <2>1, SMTT(60) DEF Range
    <3> QED  BY <3>1, <3>2
  <2> PICK m \in 1 .. Len(cmds) : m = Head(ret)
    BY <2>2, Zenon
  <2> DEFINE q == [queue[t][d] EXCEPT !.ret = Tail(ret)]
             r == [cmds[m] EXCEPT !.given = TRUE]
  <2>3. queue' = [queue EXCEPT ![t][d] = q] /\ cmds' = [cmds EXCEPT ![m] = r]
    BY <1>4, ZenonT(60) DEF RunLook
  <2>4. queue' \in [Apps -> [DbThreads -> QueueType]]
    <3>1. q \in QueueType
      BY <1>1, <2>1, QueueFields
    <3> HIDE DEF q
    <3> QED  BY <1>1, <2>3, <3>1, QueueLaw
  <2>5. cmds[m] \in CmdType
    BY <1>1
  <2>6. /\ r \in CmdType /\ r.given /\ r.by = cmds[m].by /\ r.conn = cmds[m].conn /\ r.times = cmds[m].times
    BY <2>5, ZenonT(60) DEF CmdType
  <2>7. /\ cmds' \in Seq(CmdType) /\ Len(cmds') = Len(cmds) /\ cmds'[m] = r
        /\ \A j \in (1 .. Len(cmds)) \ {m} : cmds'[j] = cmds[j]
    <3> HIDE DEF r
    <3> QED  BY <1>1, <2>3, <2>6, CmdLaw, Zenon
  <2>8. ASSUME NEW j \in 1 .. Len(cmds)
        PROVE  /\ cmds'[j].by = cmds[j].by /\ cmds'[j].conn = cmds[j].conn /\ cmds'[j].times = cmds[j].times
               /\ cmds'[j].given <=> (cmds[j].given \/ j = m)
    <3> HIDE DEF r
    <3>1. CASE j = m
      BY <2>6, <2>7, <3>1, Zenon
    <3>2. CASE j # m
      BY <2>7, <3>2
    <3> QED  BY <3>1, <3>2
  <2>9. Gives(t, d, m)
    <3>1. Len(cmds) \in Nat
      BY <1>1
    <3>2. Len(cmds) <= Len(cmds') /\ \A j \in 1 .. Len(cmds') : ~(j > Len(cmds))
      <4>1. Len(cmds') = Len(cmds)
        BY <2>7, Zenon
      <4> QED  BY <3>1, <4>1
    <3>3. app[t].at # "push" /\ app'[t].at # "push"
      BY <1>1, <1>2
    <3> HIDE DEF r
    <3> QED  BY <1>1, <1>2, <1>4, <2>3, <2>8, <3>2, <3>3, Zenon DEF Gives
  <2> QED  BY <1>1, <1>2, <2>4, <2>7, <2>9, Zenon
<1> QED  BY <1>3, <1>4, SMTT(60)

(* A look leaves the thread in the loop, or ends it where db_manager_run returns to. *)
LEMMA LookKeeps ==
  ASSUME DbAssumption, DbInv, NEW t \in Apps, NEW after \in AppType, RunLook(t, after),
         after = app[t] \/ after = RunEnds(t)
  PROVE  DbInv'
<1>1. after.at \in {"run", IF is_run THEN "idle" ELSE "join"}
  BY DEF RunEnds, RunLook, DbInv, Types, AppType
<1>2. /\ app[t].at = "run" /\ app[t].idx \in DbThreads
      /\ app' \in [Apps -> AppType] /\ app'[t].at = after.at
      /\ cmds' \in Seq(CmdType) /\ queue' \in [Apps -> [DbThreads -> QueueType]]
      /\ UNCHANGED <<is_run, procs, conn, work>>
      /\ procs # <<>> => \E m : Gives(t, app[t].idx, m)
  BY <1>1, LookGives
<1>3. procs # <<>>
  BY <1>2, Constants DEF DbInv, ClosedOK
<1> PICK m : Gives(t, app[t].idx, m)
  BY <1>2, <1>3
<1> PICK d \in DbThreads : d = app[t].idx
  BY <1>2
<1>4. Gives(t, d, m)
  OBVIOUS
<1>5. Types'
  BY <1>2 DEF DbInv, Types
<1>6. ClosedOK'
  BY <1>1, <1>2, <1>3, <1>4, ZenonT(60) DEF DbInv, ClosedOK, Gives, Posting
<1>7. PostOK(t)'
  BY <1>1, <1>2 DEF PostOK, Posting
<1>8. \A x \in Apps : PostOK(x)'
  BY <1>1, <1>2, <1>3, <1>4, <1>7, PostsAside
<1> QED  BY <1>1, <1>2, <1>3, <1>4, <1>5, <1>6, <1>8, GivesDone, SMTT(60)

(* The next look, and the end of the time given. *)
LEMMA RunStepKeeps ==
  ASSUME DbAssumption, DbInv, NEW t \in Apps, RunStep(t) \/ RunTimeOver(t)
  PROVE  DbInv'
<1>1. app[t] \in AppType
  BY DEF DbInv, Types
<1>2. RunEnds(t) \in AppType
  BY <1>1 DEF RunEnds, AppType
<1>3. CASE RunStep(t)
  <2> DEFINE after == IF queue[t][app[t].idx].ret = <<>> /\ app[t].unbusy + 1 >= DbNum THEN RunEnds(t) ELSE app[t]
  <2>1. after \in AppType /\ (after = app[t] \/ after = RunEnds(t))
    BY <1>1, <1>2
  <2>2. RunLook(t, after)
    BY <1>3 DEF RunStep
  <2> HIDE DEF after
  <2> QED  BY <2>1, <2>2, LookKeeps
<1>4. CASE RunTimeOver(t)
  BY <1>2, <1>4, LookKeeps DEF RunTimeOver
<1> QED  BY <1>3, <1>4

(* A callback posts the next command. *)
LEMMA RunPostKeeps ==
  ASSUME DbAssumption, DbInv, NEW t \in Apps, NEW c \in Conns, RunPost(t, c)
  PROVE  DbInv'
<1>1. /\ app[t].at = "run" /\ UNCHANGED <<is_run, procs, conn, work>>
      /\ app \in [Apps -> AppType] /\ queue \in [Apps -> [DbThreads -> QueueType]] /\ cmds \in Seq(CmdType)
      /\ Len(cmds) \in Nat
  BY DEF RunPost, DbInv, Types
<1>2. procs # <<>>
  BY <1>1 DEF DbInv, ClosedOK
<1> PICK d \in DbThreads : d = app[t].idx
  BY <1>1, SMTT(60) DEF AppType
<1> DEFINE n == Len(cmds)
           ret == queue[t][d].ret
           new == [by |-> t, conn |-> c, times |-> 0, given |-> FALSE]
<1>3. ret # <<>> /\ ret \in Seq(Nat) /\ Tail(ret) \in Seq(Nat) /\ queue[t][d] \in QueueType
  BY <1>1 DEF RunPost, QueueType
<1>4. Head(ret) \in 1 .. n
  <2>1. \A k \in Range(ret) : k \in 1 .. n
    BY DEF DbInv, DoneOK, Answered
  <2>2. Head(ret) \in Range(ret)
    BY <1>3 DEF Range
  <2> QED  BY <2>1, <2>2
<1> PICK m \in 1 .. n : m = Head(ret)
  BY <1>4
<1> DEFINE q == [queue[t][d] EXCEPT !.ret = Tail(ret)]
           r == [cmds[m] EXCEPT !.given = TRUE]
           w == [cmds EXCEPT ![m] = r]
<1>5. cmds' = Append(w, new)
  BY ZenonT(60) DEF RunPost, Posted
<1>20. queue' = [queue EXCEPT ![t][d] = q]
  BY Zenon DEF RunPost
<1>6. queue' \in [Apps -> [DbThreads -> QueueType]]
  <2>1. q \in QueueType
    BY <1>1, <1>3, QueueFields
  <2> HIDE DEF q
  <2> QED  BY <1>1, <1>20, <2>1, QueueLaw
<1>7. cmds[m] \in CmdType /\ new \in CmdType
  <2>1. cmds[m] \in CmdType
    BY <1>1
  <2>2. new \in CmdType
    BY DEF CmdType
  <2> QED  BY <2>1, <2>2
<1>8. r \in CmdType /\ r.given /\ r.by = cmds[m].by /\ r.conn = cmds[m].conn /\ r.times = cmds[m].times
  BY <1>7, Zenon DEF CmdType
<1>9. /\ w \in Seq(CmdType) /\ Len(w) = n /\ w[m] = r
      /\ \A j \in (1 .. n) \ {m} : w[j] = cmds[j]
  <2>1. r \in CmdType
    BY <1>8, ZenonT(60)
  <2> HIDE DEF r
  <2> QED  BY <1>1, <2>1, SeqLaw
<1>10. /\ cmds' \in Seq(CmdType) /\ Len(cmds') = n + 1 /\ cmds'[n + 1] = new
       /\ \A j \in 1 .. n : cmds'[j] = w[j]
  <2> HIDE DEF new, w, r
  <2> QED  BY <1>5, <1>7, <1>9, CmdAppend
<1>11. ASSUME NEW j \in 1 .. n
       PROVE  /\ cmds'[j].by = cmds[j].by /\ cmds'[j].conn = cmds[j].conn /\ cmds'[j].times = cmds[j].times
              /\ cmds'[j].given <=> (cmds[j].given \/ j = m)
  <2> HIDE DEF r, w, new
  <2>1. CASE j = m
    BY <1>8, <1>9, <1>10, <2>1, Zenon
  <2>2. CASE j # m
    BY <1>9, <1>10, <2>2
  <2> QED  BY <2>1, <2>2
<1>12. /\ app' \in [Apps -> AppType] /\ app'[t].at = "push" /\ app'[t].cmd = n + 1 /\ app'[t].conn = c
       /\ app'[t].then = "run" /\ \A x \in Apps \ {t} : app'[x] = app[x]
  <2>1. n + 1 \in Nat /\ (d + 1) % DbNum \in DbThreads
    <3>1. d + 1 \in Nat
      BY DEF DbThreads
    <3>2. (d + 1) % DbNum \in DbThreads
      BY <3>1, Constants
    <3> QED  BY <1>1, <3>2
  <2> PICK i \in DbThreads, k \in Nat : i = (d + 1) % DbNum /\ k = n + 1
    BY <2>1
  <2> DEFINE a == [app[t] EXCEPT !.at = "push", !.cmd = k, !.conn = c, !.then = "run", !.idx = i]
  <2>2. app' = [app EXCEPT ![t] = a]
    BY Zenon DEF RunPost
  <2>3. a \in AppType /\ a.at = "push" /\ a.cmd = k /\ a.conn = c /\ a.then = "run"
    BY <1>1, ZenonT(60) DEF AppType
  <2> HIDE DEF a
  <2> QED  BY <1>1, <2>2, <2>3, AppLaw
<1>13. \A u \in Apps : ~(app'[u].at = "destroy" /\ app'[u].conn = c)
  BY <1>12, Zenon DEF RunPost, MayPost
<1>14. conn'[c].alive
  BY <1>1 DEF RunPost, MayPost
<1>15. Gives(t, d, m)
  <2>1. ASSUME NEW j \in 1 .. Len(cmds'), j > n
        PROVE  cmds'[j].by = t /\ ~cmds'[j].given /\ app'[t].at = "push" /\ app'[t].cmd = j
    <3>1. Len(cmds') = n + 1
      BY <1>10, Zenon
    <3>2. j = n + 1
      BY <1>1, <2>1, <3>1
    <3>3. cmds'[j] = new
      BY <1>10, <3>2, ZenonT(60)
    <3> QED  BY <1>12, <3>2, <3>3
  <2>2. Len(cmds') = n + 1
    BY <1>10, Zenon
  <2>3. n <= Len(cmds') /\ app'[t].cmd > n /\ app[t].at # "push"
    BY <1>1, <1>12, <2>2
  <2> HIDE DEF r, w, new
  <2> QED  BY <1>1, <1>3, <1>20, <1>11, <1>12, <2>1, <2>3, Zenon DEF Gives
<1>16. Types' /\ ClosedOK'
  <2> HIDE DEF r, w, new
  <2> QED  BY <1>1, <1>2, <1>6, <1>10, <1>12 DEF DbInv, Types, ClosedOK, Posting
<1>17. PostOK(t)'
  <2>1. n + 1 \in Nat /\ n + 1 > 0
    BY <1>1
  <2> HIDE DEF r, w
  <2> QED  BY <1>10, <1>12, <1>13, <1>14, <2>1, PostStarts
<1>18. \A x \in Apps : PostOK(x)'
  BY <1>1, <1>2, <1>12, <1>15, <1>17, PostsAside
<1> QED  BY <1>1, <1>2, <1>12, <1>15, <1>16, <1>18, GivesDone

(* A call that does its work by itself. *)
LEMMA StutterKeeps ==
  ASSUME DbInv, UNCHANGED vars
  PROVE  DbInv'
<1>1. Types' /\ WorkOK' /\ ClosedOK'
  BY DEF DbInv, vars, Types, WorkOK, ClosedOK, Posting
<1>2. ASSUME NEW x \in Apps PROVE PostOK(x)'
  BY DEF DbInv, vars, PostOK, Posting
<1>3. Moves
  BY DEF Moves, vars
<1>4. ASSUME NEW c \in Conns
      PROVE  Ahead(c)' = Ahead(c) /\ Counting(c)' = Counting(c) /\ (CountOK(c) => CountOK(c)')
  <2>1. Ahead(c)' = Ahead(c)
    BY <1>3, MovesKeep
  <2>2. Counting(c)' = Counting(c)
    BY DEF Counting, vars
  <2> QED  BY <2>1, <2>2, CountKept DEF vars
<1>5. UNCHANGED <<procs, conn>>
  BY DEF vars
<1> QED  BY <1>1, <1>2, <1>3, <1>4, <1>5, MovesKeep DEF DbInv

(* Steps that leave the history keep DoneOK when what they move was done as its new place says. *)
LEMMA DoneStays ==
  ASSUME UNCHANGED cmds, DoneOK,
         \A x \in Apps, e \in DbThreads :
           /\ \A j \in Range(queue'[x][e].ret) \cup Range(queue'[x][e].cache) : Answered(j)
           /\ \A j \in Range(queue'[x][e].cmd) : Untouched(j),
         \A e \in DbThreads : /\ work'[e].at = "execute" => Untouched(work'[e].cmd)
                              /\ work'[e].at = "push" => Answered(work'[e].cmd)
  PROVE  DoneOK'
BY DEF DoneOK, Answered, Untouched

(* What waits waits on when it is in a queue or a hand before and after. *)
LEMMA WaitsStay ==
  ASSUME NEW j,
         \A x \in Apps, e \in DbThreads : queue'[x][e].cmd = queue[x][e].cmd,
         \A e \in DbThreads : (work'[e].at = "execute" /\ work'[e].cmd = j) <=> (work[e].at = "execute" /\ work[e].cmd = j)
  PROVE  Waits(j)' <=> Waits(j)
BY DEF Waits

(* A thread that is not in a post, or passes from pushing to counting, keeps its part of PostOK. *)
LEMMA PostsSame ==
  ASSUME DbInv, UNCHANGED <<cmds, conn>>,
         \A x \in Apps : app'[x] = app[x] \/ (app[x].at = "push" /\ app'[x].at = "count" /\ app'[x].conn = app[x].conn)
  PROVE  \A x \in Apps : PostOK(x)'
<1> SUFFICES ASSUME NEW x \in Apps PROVE PostOK(x)'
  OBVIOUS
<1>1. PostOK(x)
  BY DEF DbInv
<1>2. \A u \in Apps : app'[u].at = "destroy" => app'[u] = app[u]
  OBVIOUS
<1>3. app'[x] = app[x] => PostOK(x)'
  BY <1>1, <1>2 DEF PostOK, Posting
<1>4. (app[x].at = "push" /\ app'[x].at = "count" /\ app'[x].conn = app[x].conn) => PostOK(x)'
  BY <1>1, <1>2 DEF PostOK, Posting
<1> QED  BY <1>3, <1>4

(* The command goes into its queue, behind the thread's earlier ones. *)
LEMMA PostPushKeeps ==
  ASSUME DbAssumption, DbInv, NEW t \in Apps, PostPush(t)
  PROVE  DbInv'
<1>1. /\ app[t].at = "push" /\ procs # <<>>
      /\ UNCHANGED <<is_run, procs, conn, work, cmds>>
  BY Open DEF PostPush
<1>2. /\ app[t].conn \in Conns /\ app[t].cmd \in 1 .. Len(cmds) /\ cmds[app[t].cmd].by = t
      /\ cmds[app[t].cmd].conn = app[t].conn /\ cmds[app[t].cmd].times = 0 /\ ~cmds[app[t].cmd].given
      /\ \A j \in 1 .. Len(cmds) : cmds[j].by = t => j <= app[t].cmd
  BY <1>1 DEF DbInv, PostOK, Posting
<1>3. ThreadOf(app[t].conn) \in DbThreads
  BY <1>2, Constants
<1> PICK c \in Conns : c = app[t].conn
  BY <1>2
<1> PICK k \in 1 .. Len(cmds) : k = app[t].cmd
  BY <1>2
<1> PICK d \in DbThreads : d = ThreadOf(c)
  BY <1>3
<1>4. /\ queue \in [Apps -> [DbThreads -> QueueType]] /\ k \in Nat
      /\ queue[t][d].cmd \in Seq(Nat) /\ queue[t][d].ret \in Seq(Nat) /\ queue[t][d].cache \in Seq(Nat)
      /\ queue[t][d] \in QueueType
  BY DEF DbInv, Types, QueueType
<1> DEFINE Q == Append(queue[t][d].cmd, k)
<1>5. Q \in Seq(Nat) /\ Range(Q) = Range(queue[t][d].cmd) \cup {k}
  BY <1>4, AppendLaw
<1>6. /\ queue' \in [Apps -> [DbThreads -> QueueType]]
      /\ queue'[t][d].cmd = Q /\ queue'[t][d].ret = queue[t][d].ret /\ queue'[t][d].cache = queue[t][d].cache
      /\ \A x \in Apps, e \in DbThreads : ~(x = t /\ e = d) => queue'[x][e] = queue[x][e]
  <2> DEFINE q == [queue[t][d] EXCEPT !.cmd = Q]
  <2>1. queue' = [queue EXCEPT ![t][d] = q]
    BY DEF PostPush
  <2> HIDE DEF Q
  <2>2. q \in QueueType /\ q.cmd = Q /\ q.ret = queue[t][d].ret /\ q.cache = queue[t][d].cache
    BY <1>4, <1>5 DEF QueueType
  <2> HIDE DEF q
  <2> QED  BY <1>4, <2>1, <2>2, QueueLaw
<1>7. /\ app' \in [Apps -> AppType] /\ app'[t].at = "count" /\ app'[t].conn = c /\ app'[t].then = app[t].then
      /\ \A x \in Apps \ {t} : app'[x] = app[x]
  BY ZenonT(60) DEF PostPush, DbInv, Types, AppType
<1> HIDE DEF Q
<1>8. \A x \in Apps, e \in DbThreads : k \notin Unanswered(x, e)
  BY <1>1, <1>2 DEF Unanswered
<1>9. ASSUME NEW x \in Apps, NEW e \in DbThreads
      PROVE  Unanswered(x, e)' = IF x = t /\ e = d THEN Unanswered(x, e) \cup {k} ELSE Unanswered(x, e)
  <2>1. CASE x = t
    BY <1>1, <1>2, <1>7, <2>1 DEF Unanswered
  <2>2. CASE x # t
    BY <1>1, <1>7, <2>2 DEF Unanswered
  <2> QED  BY <2>1, <2>2
<1>10. \A x \in Apps, e \in DbThreads : Holds(x, e)' = Holds(x, e)
  BY <1>1 DEF Holds
<1>11. ASSUME NEW x \in Apps, NEW e \in DbThreads PROVE FlowOK(x, e)'
  <2>1. FlowOK(x, e)
    BY <1>1 DEF DbInv
  <2>2. CASE x = t /\ e = d
    <3>1. \A j \in Unanswered(t, d) : j < k
      <4>1. \A j \in Unanswered(t, d) : j \in 1 .. Len(cmds) /\ j <= k /\ j # k
        BY <1>2, <1>8 DEF Unanswered
      <4> QED  BY <4>1, <1>4
    <3>2. Flow(queue[t][d].ret, queue[t][d].cache, Holds(t, d), Q, Unanswered(t, d) \cup {k})
      BY <1>4, <2>1, <2>2, <3>1, FlowPost DEF FlowOK, Q
    <3> QED  BY <1>6, <1>9, <1>10, <2>2, <3>2 DEF FlowOK
  <2>3. CASE ~(x = t /\ e = d)
    BY <1>6, <1>9, <1>10, <2>1, <2>3 DEF FlowOK
  <2> QED  BY <2>2, <2>3
<1>12. DoneOK'
  <2>2. Untouched(k)
    BY <1>2 DEF Untouched
  <2>3. ASSUME NEW x \in Apps, NEW e \in DbThreads
        PROVE  /\ queue'[x][e].ret = queue[x][e].ret /\ queue'[x][e].cache = queue[x][e].cache
               /\ \A j \in Range(queue'[x][e].cmd) : j \in Range(queue[x][e].cmd) \/ j = k
    <3>1. CASE x = t /\ e = d
      BY <1>5, <1>6, <3>1
    <3>2. CASE ~(x = t /\ e = d)
      BY <1>6, <3>2
    <3> QED  BY <3>1, <3>2
  <2>4. DoneOK
    BY DEF DbInv
  <2>5. \A x \in Apps, e \in DbThreads :
          /\ \A j \in Range(queue'[x][e].ret) \cup Range(queue'[x][e].cache) : Answered(j)
          /\ \A j \in Range(queue'[x][e].cmd) : Untouched(j)
    <3>1. ASSUME NEW x \in Apps, NEW e \in DbThreads
          PROVE  /\ \A j \in Range(queue[x][e].ret) \cup Range(queue[x][e].cache) : Answered(j)
                 /\ \A j \in Range(queue[x][e].cmd) : Untouched(j)
      BY <2>4 DEF DoneOK
    <3> QED  BY <2>2, <2>3, <3>1, SMTT(60)
  <2>6. \A e \in DbThreads : /\ work'[e].at = "execute" => Untouched(work'[e].cmd)
                             /\ work'[e].at = "push" => Answered(work'[e].cmd)
    BY <1>1, <2>4 DEF DoneOK
  <2> QED  BY <1>1, <2>4, <2>5, <2>6, DoneStays
<1>13. ASSUME NEW j PROVE Waits(j)' <=> (Waits(j) \/ j = k)
  <2>1. Waits(j) => Waits(j)'
    <3>1. ASSUME NEW x \in Apps, NEW e \in DbThreads, j \in Range(queue[x][e].cmd)
          PROVE  j \in Range(queue'[x][e].cmd)
      BY <1>5, <1>6, <3>1
    <3> QED  BY <1>1, <3>1 DEF Waits
  <2>2. Waits(k)'
    <3>1. k \in Range(queue'[t][d].cmd)
      BY <1>5, <1>6
    <3> QED  BY <3>1 DEF Waits
  <2>3. Waits(j)' => Waits(j) \/ j = k
    <3>1. ASSUME NEW x \in Apps, NEW e \in DbThreads, j \in Range(queue'[x][e].cmd), j # k
          PROVE  j \in Range(queue[x][e].cmd)
      BY <1>5, <1>6, <3>1
    <3> QED  BY <1>1, <3>1 DEF Waits
  <2> QED  BY <2>1, <2>2, <2>3
<1>14. ~Waits(k)
  BY <1>1, <1>8, Places DEF Waits, Handling
<1>15. ASSUME NEW x \in Conns
       PROVE  Ahead(x)' = IF x = c THEN Ahead(x) \cup {k} ELSE Ahead(x)
  BY <1>1, <1>2, <1>13 DEF Ahead
<1>16. ASSUME NEW x \in Conns PROVE CountOK(x)'
  <2>1. CountOK(x)
    BY <1>1 DEF DbInv
  <2>2. CASE x = c
    <3>1. t \notin Counting(c) /\ Counting(c)' = Counting(c) \cup {t}
      BY <1>1, <1>7 DEF Counting
    <3>2. k \notin Ahead(c) /\ Ahead(c)' = Ahead(c) \cup {k}
      BY <1>14, <1>15 DEF Ahead
    <3>3. /\ IsFiniteSet(Counting(c)) /\ Cardinality(Counting(c)) \in Nat
          /\ IsFiniteSet(Ahead(c)) /\ Cardinality(Ahead(c)) \in Nat
      BY Finite DEF DbInv
    <3>4. /\ Cardinality(Counting(c)') = Cardinality(Counting(c)) + 1
          /\ Cardinality(Ahead(c)') = Cardinality(Ahead(c)) + 1
      BY <3>1, <3>2, <3>3, FS_AddElement, ZenonT(60)
    <3>5. conn[c].req \in Nat /\ conn[c].req_mt \in Nat /\ conn[c].ack \in Nat
      BY DEF DbInv, Types, ConnType
    <3>6. conn[c].req + conn[c].req_mt + Cardinality(Counting(c)) = conn[c].ack + Cardinality(Ahead(c))
      BY <2>1, <2>2 DEF CountOK
    <3>7. conn[c].req + conn[c].req_mt + Cardinality(Counting(c)') = conn[c].ack + Cardinality(Ahead(c)')
      <4>1. PICK r \in Nat, m \in Nat, a \in Nat, i \in Nat, j \in Nat :
              /\ r = conn[c].req /\ m = conn[c].req_mt /\ a = conn[c].ack
              /\ i = Cardinality(Counting(c)) /\ j = Cardinality(Ahead(c))
        BY <3>3, <3>5
      <4>2. r + m + i = a + j
        BY <3>6, <4>1
      <4>3. r + m + (i + 1) = a + (j + 1)
        BY <4>2
      <4> QED  BY <3>4, <4>1, <4>3
    <3> QED  BY <1>1, <2>2, <3>7 DEF CountOK
  <2>3. CASE x # c
    <3>1. Counting(x)' = Counting(x)
      BY <1>1, <1>7, <2>3 DEF Counting
    <3> QED  BY <1>1, <1>15, <2>1, <2>3, <3>1, CountKept
  <2> QED  BY <2>2, <2>3
<1>17. ASSUME NEW x \in Conns, ~conn'[x].alive PROVE Ahead(x)' = {}
  <2>1. x # c
    BY <1>1, <1>17 DEF DbInv, PostOK, Posting
  <2> QED  BY <1>1, <1>15, <1>17, <2>1 DEF DbInv
<1>18. \A x \in Apps : PostOK(x)'
  BY <1>1, <1>7, PostsSame
<1>19. Types' /\ WorkOK' /\ ClosedOK'
  BY <1>1, <1>6, <1>7 DEF DbInv, Types, WorkOK, ClosedOK, Posting
<1> QED  BY <1>1, <1>11, <1>12, <1>16, <1>17, <1>18, <1>19 DEF DbInv

(* What is left to show of a step of a work thread that leaves what waits. *)
LEMMA WorkDone ==
  ASSUME DbInv, procs # <<>>, UNCHANGED <<is_run, procs, conn, app, cmds>>,
         queue' \in [Apps -> [DbThreads -> QueueType]], work' \in [DbThreads -> WorkType], WorkOK',
         \A x \in Apps, e \in DbThreads : FlowOK(x, e)', DoneOK', \A k : Waits(k)' <=> Waits(k)
  PROVE  DbInv'
<1>1. Types' /\ ClosedOK'
  BY DEF DbInv, Types, ClosedOK, Posting
<1>2. \A x \in Apps : PostOK(x)'
  BY PostsSame
<1>3. \A c \in Conns : Ahead(c)' = Ahead(c) /\ Counting(c)' = Counting(c)
  BY DEF Ahead, Counting
<1>4. \A c \in Conns : CountOK(c)'
  BY <1>3, CountKept DEF DbInv
<1> QED  BY <1>1, <1>2, <1>3, <1>4 DEF DbInv

(* The places and commands that such a step for t does not touch. *)
LEMMA WorkFrame ==
  ASSUME DbInv, procs # <<>>, NEW t \in Apps, NEW d \in DbThreads, work[d].list # <<>>, t = Head(work[d].list),
         UNCHANGED <<app, cmds>>,
         \A x \in Apps, e \in DbThreads : ~(x = t /\ e = d) => queue'[x][e] = queue[x][e],
         \A e \in DbThreads \ {d} : work'[e] = work[e],
         work'[d].list = work[d].list \/ (work[d].at \notin Handling /\ work'[d].at \notin Handling)
  PROVE  /\ \A x \in Apps, e \in DbThreads : ~(x = t /\ e = d) => FlowOK(x, e)'
         /\ \A x \in Apps, e \in DbThreads : Unanswered(x, e)' = Unanswered(x, e)
         /\ \A k : (Answered(k)' <=> Answered(k)) /\ (Untouched(k)' <=> Untouched(k))
<1>1. \A x \in Apps, e \in DbThreads : Unanswered(x, e)' = Unanswered(x, e)
  BY DEF Unanswered
<1>2. ASSUME NEW x \in Apps, NEW e \in DbThreads, ~(x = t /\ e = d) PROVE Holds(x, e)' = Holds(x, e)
  <2>1. CASE e = d
    BY <1>2, <2>1 DEF Holds, Handling
  <2>2. CASE e # d
    BY <2>2 DEF Holds
  <2> QED  BY <2>1, <2>2
<1>3. ASSUME NEW x \in Apps, NEW e \in DbThreads, ~(x = t /\ e = d) PROVE FlowOK(x, e)'
  <2>1. FlowOK(x, e) /\ queue'[x][e] = queue[x][e]
    BY <1>3 DEF DbInv
  <2> QED  BY <1>1, <1>2, <1>3, <2>1 DEF FlowOK
<1>4. \A k : (Answered(k)' <=> Answered(k)) /\ (Untouched(k)' <=> Untouched(k))
  BY DEF Answered, Untouched
<1> QED  BY <1>1, <1>3, <1>4

(* A work thread takes the first command, or goes on to the results. *)
LEMMA WorkLookKeeps ==
  ASSUME DbAssumption, DbInv, NEW d \in DbThreads, WorkLook(d)
  PROVE  DbInv'
<1>1. /\ procs # <<>> /\ work[d].at = "look" /\ work[d].list # <<>>
      /\ UNCHANGED <<is_run, procs, conn, app, cmds>>
      /\ work \in [DbThreads -> WorkType] /\ queue \in [Apps -> [DbThreads -> QueueType]]
  BY WorkOpen DEF WorkLook, DbInv, Types
<1> PICK t \in Apps : t = Head(work[d].list)
  BY <1>1, Visited
<1> DEFINE Q == queue[t][d].cmd
<1>2. CASE Q = <<>>
  <2>1. UNCHANGED queue /\ work' = [work EXCEPT ![d].at = "drain"]
    BY <1>2 DEF WorkLook, Goto
  <2>2. /\ work' \in [DbThreads -> WorkType] /\ work'[d].at = "drain" /\ work'[d].list = work[d].list
        /\ \A e \in DbThreads \ {d} : work'[e] = work[e]
    BY <1>1, <2>1 DEF WorkType
  <2>3. Moves
    BY <1>1, <2>1, <2>2 DEF Moves, Handling
  <2>4. Types' /\ WorkOK' /\ ClosedOK'
    BY <1>1, <2>1, <2>2 DEF DbInv, Types, WorkOK, ClosedOK, Posting
  <2>5. \A x \in Apps : PostOK(x)'
    BY <1>1, PostsSame
  <2> QED  BY <1>1, <2>3, <2>4, <2>5, MovesAside
<1>3. CASE Q # <<>>
  <2>1. queue[t][d] \in QueueType /\ Q \in Seq(Nat) /\ Tail(Q) \in Seq(Nat) /\ Head(Q) \in Nat
        /\ queue[t][d].ret \in Seq(Nat) /\ queue[t][d].cache \in Seq(Nat)
    BY <1>1, <1>3, SMTT(60) DEF QueueType
  <2> PICK k \in Nat : k = Head(Q)
    BY <2>1
  <2>2. /\ queue' = [queue EXCEPT ![t][d] = [queue[t][d] EXCEPT !.cmd = Tail(Q)]]
        /\ work' = [work EXCEPT ![d] = [work[d] EXCEPT !.at = "execute", !.cmd = k, !.busy = TRUE]]
    BY <1>3, Zenon DEF WorkLook
  <2>3. /\ work' \in [DbThreads -> WorkType] /\ work'[d].at = "execute" /\ work'[d].cmd = k
        /\ work'[d].list = work[d].list /\ \A e \in DbThreads \ {d} : work'[e] = work[e]
    <3> DEFINE w == [work[d] EXCEPT !.at = "execute", !.cmd = k, !.busy = TRUE]
    <3>1. w \in WorkType /\ w.at = "execute" /\ w.cmd = k /\ w.list = work[d].list
      BY <1>1, ZenonT(60) DEF WorkType
    <3>2. work' = [work EXCEPT ![d] = w]
      BY <2>2
    <3> HIDE DEF w
    <3> QED  BY <1>1, <3>1, <3>2, WorkLaw
  <2>4. /\ queue' \in [Apps -> [DbThreads -> QueueType]]
        /\ queue'[t][d].cmd = Tail(Q) /\ queue'[t][d].ret = queue[t][d].ret
        /\ queue'[t][d].cache = queue[t][d].cache
        /\ \A x \in Apps, e \in DbThreads : ~(x = t /\ e = d) => queue'[x][e] = queue[x][e]
    <3> DEFINE q == [queue[t][d] EXCEPT !.cmd = Tail(Q)]
    <3>1. queue' = [queue EXCEPT ![t][d] = q]
      BY <2>2
    <3> HIDE DEF Q
    <3>2. q \in QueueType /\ q.cmd = Tail(Q) /\ q.ret = queue[t][d].ret /\ q.cache = queue[t][d].cache
      BY <2>1 DEF QueueType
    <3> HIDE DEF q
    <3>3. queue \in [Apps -> [DbThreads -> QueueType]]
      BY <1>1
    <3>4. /\ queue' \in [Apps -> [DbThreads -> QueueType]] /\ queue'[t][d] = q
          /\ \A x \in Apps, e \in DbThreads : ~(x = t /\ e = d) => queue'[x][e] = queue[x][e]
      BY ONLY <3>1, <3>2, <3>3, t \in Apps, d \in DbThreads, QueueLaw
    <3> QED  BY <3>2, <3>4, ZenonT(60)
  <2>5. /\ \A x \in Apps, e \in DbThreads : ~(x = t /\ e = d) => FlowOK(x, e)'
        /\ \A x \in Apps, e \in DbThreads : Unanswered(x, e)' = Unanswered(x, e)
        /\ \A j : (Answered(j)' <=> Answered(j)) /\ (Untouched(j)' <=> Untouched(j))
    BY <1>1, <2>3, <2>4, WorkFrame
  <2>6. Holds(t, d) = {} /\ Holds(t, d)' = {k}
    BY <1>1, <2>3 DEF Holds
  <2>7. FlowOK(t, d)
    BY <1>1, SMTT(60) DEF DbInv
  <2>8. Flow(queue[t][d].ret, queue[t][d].cache, {k}, Tail(Q), Unanswered(t, d))
    <3>1. Flow(queue[t][d].ret, queue[t][d].cache, {}, Q, Unanswered(t, d))
      BY <2>6, <2>7, ZenonT(60) DEF FlowOK
    <3> HIDE DEF Q
    <3> QED  BY <1>3, <2>1, <3>1, FlowTake
  <2>9. FlowOK(t, d)'
    BY <2>4, <2>5, <2>6, <2>8, Zenon DEF FlowOK
  <2>10. /\ k \in Range(Q) /\ Range(Tail(Q)) = Range(Q) \ {k}
    <3>1. Increasing(Q)
      BY <2>7, Zenon DEF FlowOK, Flow
    <3> HIDE DEF Q
    <3> QED  BY <1>3, <2>1, <3>1, TailLaw
  <2>11. DoneOK'
    <3>1. Untouched(k)
      BY <2>10, ZenonT(60) DEF DbInv, DoneOK
    <3>2. ASSUME NEW x \in Apps, NEW e \in DbThreads
          PROVE  /\ queue'[x][e].ret = queue[x][e].ret /\ queue'[x][e].cache = queue[x][e].cache
                 /\ \A j \in Range(queue'[x][e].cmd) : j \in Range(queue[x][e].cmd)
      BY <2>4, <2>10, ZenonT(60)
    <3>3. DoneOK
      BY DEF DbInv
    <3>4. \A x \in Apps, e \in DbThreads :
            /\ \A j \in Range(queue'[x][e].ret) \cup Range(queue'[x][e].cache) : Answered(j)
            /\ \A j \in Range(queue'[x][e].cmd) : Untouched(j)
      BY <3>2, <3>3, SMTT(60) DEF DoneOK
    <3>5. ASSUME NEW e \in DbThreads
          PROVE  /\ work'[e].at = "execute" => Untouched(work'[e].cmd)
                 /\ work'[e].at = "push" => Answered(work'[e].cmd)
      <4>1. CASE e = d
        BY <2>3, <3>1, <4>1, Zenon
      <4>2. CASE e # d
        BY <2>3, <3>3, <4>2 DEF DoneOK
      <4> QED  BY <4>1, <4>2
    <3> QED  BY <1>1, <3>3, <3>4, <3>5, DoneStays
  <2>12. ASSUME NEW j PROVE Waits(j)' <=> Waits(j)
    <3>1. ASSUME Waits(j) PROVE Waits(j)'
      <4>1. ASSUME NEW x \in Apps, NEW e \in DbThreads, j \in Range(queue[x][e].cmd)
            PROVE  j \in Range(queue'[x][e].cmd) \/ j = k
        BY <2>4, <2>10, <4>1, ZenonT(60)
      <4>2. j = k => Waits(j)'
        BY <2>3, Zenon DEF Waits
      <4>3. ASSUME NEW e \in DbThreads, work[e].at = "execute", work[e].cmd = j
            PROVE  work'[e].at = "execute" /\ work'[e].cmd = j
        BY <1>1, <2>3, <4>3
      <4> QED  BY <3>1, <4>1, <4>2, <4>3 DEF Waits
    <3>2. ASSUME Waits(j)' PROVE Waits(j)
      <4>1. ASSUME NEW x \in Apps, NEW e \in DbThreads, j \in Range(queue'[x][e].cmd)
            PROVE  j \in Range(queue[x][e].cmd)
        BY <2>4, <2>10, <4>1, ZenonT(60)
      <4>2. ASSUME NEW e \in DbThreads, work'[e].at = "execute", work'[e].cmd = j
            PROVE  (work[e].at = "execute" /\ work[e].cmd = j) \/ j \in Range(Q)
        BY <2>3, <2>10, <4>2, Zenon
      <4> QED  BY <3>2, <4>1, <4>2 DEF Waits
    <3> QED  BY <3>1, <3>2
  <2>13. WorkOK'
    BY <1>1, <2>3 DEF DbInv, WorkOK
  <2>14. \A x \in Apps, e \in DbThreads : FlowOK(x, e)'
    BY <2>5, <2>9
  <2> QED  BY <1>1, <2>3, <2>4, <2>11, <2>12, <2>13, <2>14, WorkDone
<1> QED  BY <1>2, <1>3, SMTT(60)

(* The command is carried out, once, and acknowledged. *)
LEMMA WorkExecuteKeeps ==
  ASSUME DbAssumption, DbInv, NEW d \in DbThreads, WorkExecute(d)
  PROVE  DbInv'
<1>1. /\ procs # <<>> /\ work[d].at = "execute" /\ work[d].list # <<>>
      /\ UNCHANGED <<is_run, procs, queue, app>>
      /\ work \in [DbThreads -> WorkType] /\ conn \in [Conns -> ConnType] /\ cmds \in Seq(CmdType)
      /\ Untouched(work[d].cmd)
  BY WorkOpen DEF WorkExecute, DbInv, Types, WorkOK, DoneOK
<1> PICK k \in 1 .. Len(cmds) : k = work[d].cmd
  BY <1>1 DEF Untouched
<1>2. cmds[k] \in CmdType /\ cmds[k].times = 0
  BY <1>1 DEF Untouched
<1> PICK c \in Conns : c = cmds[k].conn
  BY <1>2 DEF CmdType
<1> PICK t \in Apps : t = Head(work[d].list)
  BY <1>1, Visited
<1>3. /\ work' \in [DbThreads -> WorkType] /\ work'[d].at = "push" /\ work'[d].cmd = k
      /\ work'[d].list = work[d].list /\ \A e \in DbThreads \ {d} : work'[e] = work[e]
  <2>1. work' = [work EXCEPT ![d].at = "push"]
    BY DEF WorkExecute, Goto
  <2> QED  BY <1>1, <2>1 DEF WorkType
<1>4. /\ conn' \in [Conns -> ConnType] /\ conn'[c].ack = conn[c].ack + 1 /\ conn'[c].alive = conn[c].alive
      /\ conn'[c].req = conn[c].req /\ conn'[c].req_mt = conn[c].req_mt
      /\ \A x \in Conns \ {c} : conn'[x] = conn[x]
  <2> PICK a \in Nat : a = conn[c].ack + 1
    BY <1>1, SMTT(60) DEF ConnType
  <2> DEFINE r == [conn[c] EXCEPT !.ack = a]
  <2>1. conn' = [conn EXCEPT ![c] = r]
    BY SMTT(60) DEF WorkExecute
  <2>2. r \in ConnType /\ r.ack = a /\ r.alive = conn[c].alive /\ r.req = conn[c].req /\ r.req_mt = conn[c].req_mt
    BY <1>1, ZenonT(60) DEF ConnType
  <2> HIDE DEF r
  <2> QED  BY <1>1, <2>1, <2>2, ConnLaw, Zenon
<1>5. /\ cmds' \in Seq(CmdType) /\ Len(cmds') = Len(cmds) /\ Len(cmds) \in Nat
      /\ cmds'[k].by = cmds[k].by /\ cmds'[k].conn = c /\ (cmds'[k].given <=> cmds[k].given)
      /\ (cmds'[k].times = 1) = Async(c)
      /\ \A j \in (1 .. Len(cmds)) \ {k} : cmds'[j] = cmds[j]
  <2> DEFINE n == IF Async(c) THEN 1 ELSE 0
             r == [cmds[k] EXCEPT !.times = n]
  <2>1. cmds' = [cmds EXCEPT ![k] = r]
    BY <1>2 DEF WorkExecute
  <2>2. n \in {0, 1} /\ (n = 1) = Async(c)
    BY DEF Async
  <2> HIDE DEF n
  <2>3. r \in CmdType /\ r.by = cmds[k].by /\ r.conn = cmds[k].conn /\ r.given = cmds[k].given /\ r.times = n
    BY <1>2, <2>2 DEF CmdType
  <2> HIDE DEF r
  <2>4. /\ cmds' \in Seq(CmdType) /\ Len(cmds') = Len(cmds) /\ cmds'[k] = r
        /\ \A j \in (1 .. Len(cmds)) \ {k} : cmds'[j] = cmds[j]
    BY <1>1, <2>1, <2>3, CmdLaw
  <2> QED  BY <1>1, <2>2, <2>3, <2>4
<1>6. \A j \in 1 .. Len(cmds) : /\ cmds'[j].by = cmds[j].by /\ cmds'[j].conn = cmds[j].conn
                               /\ (cmds'[j].given <=> cmds[j].given)
                               /\ (j # k => cmds'[j].times = cmds[j].times)
  BY <1>5
<1>7. /\ k \in Unanswered(t, d) /\ \A j \in Range(queue[t][d].cmd) : k < j
  BY <1>1, Places DEF Handling
<1>8. \A x \in Apps, e \in DbThreads : k \notin Range(queue[x][e].cmd)
  <2>1. ASSUME NEW x \in Apps, NEW e \in DbThreads, k \in Range(queue[x][e].cmd) PROVE FALSE
    <3>1. k \in Unanswered(x, e)
      BY <1>1, <2>1, Places
    <3>2. x = t /\ e = d
      BY <1>7, <3>1 DEF Unanswered
    <3> QED  BY <1>7, <2>1, <3>2
  <2> QED  BY <2>1
<1>9. \A e \in DbThreads \ {d} : ~(work[e].at = "execute" /\ work[e].cmd = k)
  <2>1. ASSUME NEW e \in DbThreads \ {d}, work[e].at = "execute", work[e].cmd = k PROVE FALSE
    BY <1>1, <1>7, <2>1, Places, Apart DEF Handling
  <2> QED  BY <2>1
<1>10. \A x \in Apps, e \in DbThreads : Unanswered(x, e)' = Unanswered(x, e)
  BY <1>1, <1>5, <1>6 DEF Unanswered
<1>11. ASSUME NEW x \in Apps, NEW e \in DbThreads PROVE Holds(x, e)' = Holds(x, e)
  <2>1. CASE e = d
    BY <1>1, <1>3, <2>1 DEF Holds
  <2>2. CASE e # d
    BY <1>3, <2>2 DEF Holds
  <2> QED  BY <2>1, <2>2
<1>12. \A x \in Apps, e \in DbThreads : FlowOK(x, e)'
  BY <1>1, <1>10, <1>11 DEF DbInv, FlowOK
<1>13. Answered(k)'
  BY <1>5 DEF Answered
<1>14. ASSUME NEW j PROVE (Answered(j) => Answered(j)') /\ (Untouched(j) /\ j # k => Untouched(j)')
  BY <1>5, <1>6, <1>13 DEF Answered, Untouched
<1>15. DoneOK'
  <2>1. \A x \in Apps, e \in DbThreads :
          /\ \A j \in Range(queue'[x][e].ret) \cup Range(queue'[x][e].cache) : Answered(j)'
          /\ \A j \in Range(queue'[x][e].cmd) : Untouched(j)'
    BY <1>1, <1>8, <1>14 DEF DbInv, DoneOK
  <2>2. ASSUME NEW e \in DbThreads
        PROVE  (/\ work[e].at = "execute" => Untouched(work[e].cmd)
                /\ work[e].at = "push" => Answered(work[e].cmd))'
    <3>1. CASE e = d
      BY <1>3, <1>5, <3>1 DEF Answered
    <3>2. CASE e # d
      <4>1. work'[e] = work[e] /\ DoneOK
        BY <1>3, <3>2 DEF DbInv
      <4>2. /\ work[e].at = "execute" => Untouched(work[e].cmd) /\ work[e].cmd # k
            /\ work[e].at = "push" => Answered(work[e].cmd)
        BY <1>9, <3>2, <4>1 DEF DoneOK
      <4> QED  BY <1>5, <1>6, <4>1, <4>2 DEF Answered, Untouched
    <3> QED  BY <3>1, <3>2
  <2>3. \A j \in 1 .. Len(cmds') : cmds'[j].given => Answered(j)'
    BY <1>5, <1>6, <1>14 DEF DbInv, DoneOK
  <2> QED  BY <2>1, <2>2, <2>3 DEF DoneOK
<1>16. ASSUME NEW j PROVE Waits(j)' <=> (Waits(j) /\ j # k)
  <2>1. Waits(j)' => Waits(j)
    BY <1>1, <1>3 DEF Waits
  <2>2. ~Waits(k)'
    BY <1>1, <1>3, <1>8, <1>9 DEF Waits
  <2>3. Waits(j) /\ j # k => Waits(j)'
    BY <1>1, <1>3 DEF Waits
  <2> QED  BY <2>1, <2>2, <2>3
<1>17. Waits(k)
  BY <1>1 DEF Waits
<1>18. ASSUME NEW x \in Conns PROVE Ahead(x)' = Ahead(x) \ {k}
  BY <1>5, <1>6, <1>16 DEF Ahead
<1>19. \A x \in Conns : Counting(x)' = Counting(x)
  BY <1>1 DEF Counting
<1>20. ASSUME NEW x \in Conns PROVE CountOK(x)'
  <2>1. CountOK(x)
    BY <1>1 DEF DbInv
  <2>2. CASE x = c
    <3>1. k \in Ahead(c)
      BY <1>17 DEF Ahead
    <3>2. /\ Cardinality(Counting(c)) \in Nat /\ IsFiniteSet(Ahead(c)) /\ Cardinality(Ahead(c)) \in Nat
      BY Finite DEF DbInv
    <3>3. Cardinality(Ahead(c)') = Cardinality(Ahead(c)) - 1
      BY <1>18, <3>1, <3>2, FS_RemoveElement
    <3>4. conn[c].req \in Nat /\ conn[c].req_mt \in Nat /\ conn[c].ack \in Nat
      BY <1>1 DEF ConnType
    <3>5. conn[c].req + conn[c].req_mt + Cardinality(Counting(c)) = conn[c].ack + Cardinality(Ahead(c))
      BY <2>1, <2>2 DEF CountOK
    <3>6. conn'[c].req + conn'[c].req_mt + Cardinality(Counting(c)') = conn'[c].ack + Cardinality(Ahead(c)')
      <4>1. /\ conn'[c].req = conn[c].req /\ conn'[c].req_mt = conn[c].req_mt /\ conn'[c].ack = conn[c].ack + 1
            /\ Counting(c)' = Counting(c)
        BY <1>4, <1>19, SMTT(60)
      <4> DEFINE q == conn[c].req
                 r == conn[c].req_mt
                 m == Cardinality(Counting(c))
                 e == conn[c].ack
                 n == Cardinality(Ahead(c))
      <4>2. q \in Nat /\ r \in Nat /\ m \in Nat /\ e \in Nat /\ n \in Nat /\ q + r + m = e + n
        BY <3>2, <3>4, <3>5, SMTT(60)
      <4> HIDE DEF q, r, m, e, n
      <4>3. q + r + m = (e + 1) + (n - 1)
        BY ONLY <4>2
      <4> QED  BY <3>3, <4>1, <4>3, SMTT(60) DEF q, r, m, e, n
    <3> QED  BY <2>2, <3>6 DEF CountOK
  <2>3. CASE x # c
    <3>1. k \notin Ahead(x)
      BY <2>3 DEF Ahead
    <3>2. Ahead(x)' = Ahead(x)
      BY <1>18, <3>1
    <3> QED  BY <1>4, <1>19, <2>1, <2>3, <3>2, CountKept
  <2> QED  BY <2>2, <2>3
<1>21. \A x \in Conns : conn'[x].alive = conn[x].alive
  BY <1>4
<1>22. \A x \in Conns : ~conn'[x].alive => Ahead(x)' = {}
  BY <1>18, <1>21 DEF DbInv
<1>23. ASSUME NEW x \in Apps PROVE PostOK(x)'
  <2>1. PostOK(x) /\ app' = app
    BY <1>1 DEF DbInv
  <2>2. app[x].at = "push" => app[x].cmd # k
    <3>1. ASSUME app[x].at = "push", app[x].cmd = k PROVE FALSE
      <4>1. x = t
        BY <1>7, <2>1, <3>1 DEF PostOK, Unanswered
      <4> QED  BY <1>7, <3>1, <4>1 DEF Unanswered
    <3> QED  BY <3>1
  <2>3. app[x].at = "push" => LET j == app[x].cmd IN
          /\ j \in 1 .. Len(cmds') /\ cmds'[j].by = x /\ cmds'[j].conn = app[x].conn
          /\ cmds'[j].times = 0 /\ ~cmds'[j].given
          /\ \A i \in 1 .. Len(cmds') : cmds'[i].by = x => i <= j
    BY <1>5, <1>6, <2>1, <2>2 DEF PostOK
  <2>4. Posting(x) => /\ app[x].conn \in Conns /\ conn'[app[x].conn].alive
                      /\ \A u \in Apps : ~(app[u].at = "destroy" /\ app[u].conn = app[x].conn)
    BY <1>21, <2>1 DEF PostOK
  <2> QED  BY <2>1, <2>3, <2>4 DEF PostOK, Posting
<1>24. Types' /\ WorkOK' /\ ClosedOK'
  <2>1. Types'
    BY <1>1, <1>3, <1>4, <1>5 DEF DbInv, Types
  <2>2. WorkOK'
    BY <1>1, <1>3 DEF DbInv, WorkOK
  <2>3. ClosedOK'
    BY <1>1 DEF DbInv, ClosedOK, Posting
  <2> QED  BY <2>1, <2>2, <2>3
<1> QED  BY <1>1, <1>12, <1>15, <1>20, <1>22, <1>23, <1>24 DEF DbInv

(* The result goes into ret_queue, or waits for room behind the others. *)
LEMMA WorkPushKeeps ==
  ASSUME DbAssumption, DbInv, NEW d \in DbThreads, WorkPush(d)
  PROVE  DbInv'
<1>1. /\ procs # <<>> /\ work[d].at = "push" /\ work[d].list # <<>>
      /\ UNCHANGED <<is_run, procs, conn, app, cmds>>
      /\ work \in [DbThreads -> WorkType] /\ queue \in [Apps -> [DbThreads -> QueueType]]
      /\ Answered(work[d].cmd)
  BY WorkOpen DEF WorkPush, DbInv, Types, WorkOK, DoneOK
<1> PICK t \in Apps : t = Head(work[d].list)
  BY <1>1, Visited
<1> PICK k \in Nat : k = work[d].cmd
  BY <1>1 DEF WorkType
<1> DEFINE R == queue[t][d].ret
           C == queue[t][d].cache
           Q == queue[t][d].cmd
<1>2. queue[t][d] \in QueueType /\ R \in Seq(Nat) /\ C \in Seq(Nat) /\ Q \in Seq(Nat)
  BY <1>1 DEF QueueType
<1>3. Flow(R, C, {k}, Q, Unanswered(t, d))
  <2>1. Holds(t, d) = {k}
    BY <1>1 DEF Holds
  <2> QED  BY <1>1, <2>1 DEF DbInv, FlowOK
<1>4. PICK q \in QueueType :
        /\ queue' = [queue EXCEPT ![t][d] = q]
        /\ Flow(q.ret, q.cache, {}, Q, Unanswered(t, d)) /\ q.cmd = Q
        /\ Range(q.ret) \cup Range(q.cache) = Range(R) \cup Range(C) \cup {k}
  <2>1. CASE C = <<>> /\ Len(R) < Room
    <3> DEFINE p == [queue[t][d] EXCEPT !.ret = Append(R, k)]
    <3>1. Flow(Append(R, k), C, {}, Q, Unanswered(t, d)) /\ Range(C) = {}
      <4>1. Range(C) = {}
        BY <2>1, ShortLaw
      <4> HIDE DEF R, C, Q
      <4>2. Flow(Append(R, k), C, {}, Q, Unanswered(t, d))
        BY <1>2, <1>3, <2>1, FlowPushRet, Zenon
      <4> QED  BY <4>1, <4>2
    <3>2. Append(R, k) \in Seq(Nat) /\ Range(Append(R, k)) = Range(R) \cup {k}
      BY <1>2, AppendLaw, SMTT(60)
    <3>3. queue' = [queue EXCEPT ![t][d] = p]
      BY <2>1 DEF WorkPush
    <3>4. p \in QueueType /\ p.cmd = Q /\ p.ret = Append(R, k) /\ p.cache = C
      <4> HIDE DEF R, C, Q
      <4>1. R = queue[t][d].ret /\ C = queue[t][d].cache /\ Q = queue[t][d].cmd
        BY DEF R, C, Q
      <4> QED  BY <1>2, <3>2, <4>1, Zenon DEF QueueType
    <3> HIDE DEF p, R, C, Q
    <3> QED  BY <3>1, <3>2, <3>3, <3>4, ZenonT(60)
  <2>2. CASE ~(C = <<>> /\ Len(R) < Room)
    <3> DEFINE p == [queue[t][d] EXCEPT !.cache = Append(C, k)]
    <3>1. Flow(R, Append(C, k), {}, Q, Unanswered(t, d))
      BY <1>2, <1>3, FlowPushCache, Zenon
    <3>2. Append(C, k) \in Seq(Nat) /\ Range(Append(C, k)) = Range(C) \cup {k}
      BY <1>2, AppendLaw
    <3>3. queue' = [queue EXCEPT ![t][d] = p]
      BY <2>2, ZenonT(60) DEF WorkPush
    <3>4. p \in QueueType /\ p.cmd = Q /\ p.ret = R /\ p.cache = Append(C, k)
      <4> HIDE DEF R, C, Q
      <4>1. R = queue[t][d].ret /\ C = queue[t][d].cache /\ Q = queue[t][d].cmd
        BY DEF R, C, Q
      <4> QED  BY <1>2, <3>2, <4>1, Zenon DEF QueueType
    <3> HIDE DEF p, R, C, Q
    <3>5. Range(p.ret) \cup Range(p.cache) = Range(R) \cup Range(C) \cup {k}
      BY <3>2, <3>4
    <3> QED  BY <3>1, <3>3, <3>4, <3>5, Zenon
  <2> QED  BY <2>1, <2>2
<1>5. /\ queue' \in [Apps -> [DbThreads -> QueueType]]
      /\ queue'[t][d] = q
      /\ \A x \in Apps, e \in DbThreads : ~(x = t /\ e = d) => queue'[x][e] = queue[x][e]
  <2>1. queue \in [Apps -> [DbThreads -> QueueType]]
    BY <1>1
  <2>2. queue' = [queue EXCEPT ![t][d] = q]
    BY <1>4, Zenon
  <2> QED  BY ONLY <2>1, <2>2, t \in Apps, d \in DbThreads, q \in QueueType, QueueLaw
<1>6. /\ work' \in [DbThreads -> WorkType] /\ work'[d].at = "drain" /\ work'[d].list = work[d].list
      /\ \A e \in DbThreads \ {d} : work'[e] = work[e]
  <2> DEFINE w == [work[d] EXCEPT !.at = "drain", !.cmd = 0]
  <2>1. w \in WorkType /\ w.at = "drain" /\ w.list = work[d].list
    BY <1>1, Zenon DEF WorkType
  <2>2. work' = [work EXCEPT ![d] = w]
    BY Zenon DEF WorkPush
  <2> HIDE DEF w
  <2> QED  BY <1>1, <2>1, <2>2, WorkLaw
<1> HIDE DEF R, C, Q
<1>7. /\ \A x \in Apps, e \in DbThreads : ~(x = t /\ e = d) => FlowOK(x, e)'
      /\ \A x \in Apps, e \in DbThreads : Unanswered(x, e)' = Unanswered(x, e)
      /\ \A j : (Answered(j)' <=> Answered(j)) /\ (Untouched(j)' <=> Untouched(j))
  BY <1>1, <1>5, <1>6, WorkFrame
<1>8. FlowOK(t, d)'
  <2>1. Holds(t, d)' = {}
    BY <1>6 DEF Holds
  <2> QED  BY <1>4, <1>5, <1>7, <2>1, Zenon DEF FlowOK
<1>9. ASSUME NEW x \in Apps, NEW e \in DbThreads
      PROVE  /\ \A j \in Range(queue'[x][e].ret) \cup Range(queue'[x][e].cache) :
                  j \in Range(queue[x][e].ret) \cup Range(queue[x][e].cache) \/ j = k
             /\ queue'[x][e].cmd = queue[x][e].cmd
  <2>1. CASE x = t /\ e = d
    BY <1>4, <1>5, <2>1, ZenonT(60) DEF R, C, Q
  <2>2. CASE ~(x = t /\ e = d)
    BY <1>5, <2>2
  <2> QED  BY <2>1, <2>2
<1>10. DoneOK'
  <2>1. DoneOK /\ Answered(k)
    BY <1>1 DEF DbInv
  <2>2. \A x \in Apps, e \in DbThreads :
          /\ \A j \in Range(queue'[x][e].ret) \cup Range(queue'[x][e].cache) : Answered(j)
          /\ \A j \in Range(queue'[x][e].cmd) : Untouched(j)
    BY <1>9, <2>1, SMTT(60) DEF DoneOK
  <2>3. \A e \in DbThreads : /\ work'[e].at = "execute" => Untouched(work'[e].cmd)
                             /\ work'[e].at = "push" => Answered(work'[e].cmd)
    BY <1>6, <2>1 DEF DoneOK
  <2> QED  BY <1>1, <2>1, <2>2, <2>3, DoneStays
<1>11. ASSUME NEW j PROVE Waits(j)' <=> Waits(j)
  <2>1. \A e \in DbThreads : (work'[e].at = "execute" /\ work'[e].cmd = j) <=> (work[e].at = "execute" /\ work[e].cmd = j)
    BY <1>1, <1>6
  <2> QED  BY <1>9, <2>1, WaitsStay
<1>12. WorkOK'
  BY <1>1, <1>6 DEF DbInv, WorkOK
<1>13. \A x \in Apps, e \in DbThreads : FlowOK(x, e)'
  BY <1>7, <1>8
<1> QED  BY <1>1, <1>5, <1>6, <1>10, <1>11, <1>12, <1>13, WorkDone, SMTT(60)

(* One result that waited goes into ret_queue, or the work thread goes on to the next db_proc. *)
LEMMA WorkDrainKeeps ==
  ASSUME DbAssumption, DbInv, NEW d \in DbThreads, WorkDrain(d)
  PROVE  DbInv'
<1>1. /\ procs # <<>> /\ work[d].at = "drain" /\ work[d].list # <<>>
      /\ UNCHANGED <<is_run, procs, conn, app, cmds>>
      /\ work \in [DbThreads -> WorkType] /\ queue \in [Apps -> [DbThreads -> QueueType]]
  BY WorkOpen DEF WorkDrain, DbInv, Types, WorkOK
<1> PICK t \in Apps : t = Head(work[d].list)
  BY <1>1, Visited
<1> DEFINE R == queue[t][d].ret
           C == queue[t][d].cache
           Q == queue[t][d].cmd
<1>2. queue[t][d] \in QueueType /\ R \in Seq(Nat) /\ C \in Seq(Nat) /\ Q \in Seq(Nat)
  BY <1>1 DEF QueueType
<1>3. CASE C # <<>> /\ Len(R) < Room
  <2>1. /\ queue' = [queue EXCEPT ![t][d] = [queue[t][d] EXCEPT !.ret = Append(R, Head(C)), !.cache = Tail(C)]]
        /\ work' = [work EXCEPT ![d].busy = TRUE]
    BY <1>3 DEF WorkDrain
  <2>2. Head(C) \in Nat /\ Tail(C) \in Seq(Nat)
    <3> HIDE DEF R, C
    <3> QED  BY <1>2, <1>3
  <2>3. FlowOK(t, d) /\ Holds(t, d) = {} /\ Increasing(C)
    BY <1>1, Zenon DEF DbInv, Holds, FlowOK, Flow
  <2>4. Flow(Append(R, Head(C)), Tail(C), {}, Q, Unanswered(t, d))
    <3>1. Flow(R, C, {}, Q, Unanswered(t, d))
      BY <2>3, Zenon DEF FlowOK
    <3> HIDE DEF R, C, Q
    <3> QED  BY <1>2, <1>3, <3>1, FlowDrain, Zenon
  <2>5. /\ Append(R, Head(C)) \in Seq(Nat) /\ Range(Append(R, Head(C))) = Range(R) \cup {Head(C)}
        /\ Range(Tail(C)) = Range(C) \ {Head(C)} /\ Head(C) \in Range(C)
    <3> HIDE DEF R, C
    <3> QED  BY <1>2, <1>3, <2>2, <2>3, AppendLaw, TailLaw, SMTT(60)
  <2>6. /\ queue' \in [Apps -> [DbThreads -> QueueType]]
        /\ queue'[t][d].cmd = Q /\ queue'[t][d].ret = Append(R, Head(C)) /\ queue'[t][d].cache = Tail(C)
        /\ \A x \in Apps, e \in DbThreads : ~(x = t /\ e = d) => queue'[x][e] = queue[x][e]
    <3> DEFINE q == [queue[t][d] EXCEPT !.ret = Append(R, Head(C)), !.cache = Tail(C)]
    <3>1. queue' = [queue EXCEPT ![t][d] = q]
      BY <2>1
    <3>2. q \in QueueType /\ q.cmd = Q /\ q.ret = Append(R, Head(C)) /\ q.cache = Tail(C)
      <4> DEFINE a == Append(R, Head(C))
                 b == Tail(C)
      <4>1. a \in Seq(Nat) /\ b \in Seq(Nat)
        BY <2>2, <2>5, Zenon
      <4> HIDE DEF a, b
      <4>2. q = [queue[t][d] EXCEPT !.ret = a, !.cache = b]
        BY DEF a, b
      <4>3. LET r == [queue[t][d] EXCEPT !.ret = a, !.cache = b]
            IN  r \in QueueType /\ r.cmd = Q /\ r.ret = a /\ r.cache = b
        BY <1>2, <4>1 DEF QueueType
      <4> HIDE DEF q
      <4> QED  BY <4>2, <4>3, ZenonT(60) DEF a, b
    <3> HIDE DEF q, R, C, Q
    <3> QED  BY <1>1, <3>1, <3>2, QueueLaw, SMTT(60)
  <2>7. /\ work' \in [DbThreads -> WorkType] /\ work'[d].at = "drain" /\ work'[d].list = work[d].list
        /\ \A e \in DbThreads \ {d} : work'[e] = work[e]
    BY <1>1, <2>1, ZenonT(60) DEF WorkType
  <2> HIDE DEF R, C, Q
  <2>8. /\ \A x \in Apps, e \in DbThreads : ~(x = t /\ e = d) => FlowOK(x, e)'
        /\ \A x \in Apps, e \in DbThreads : Unanswered(x, e)' = Unanswered(x, e)
        /\ \A j : (Answered(j)' <=> Answered(j)) /\ (Untouched(j)' <=> Untouched(j))
    BY <1>1, <2>6, <2>7, WorkFrame
  <2>9. FlowOK(t, d)'
    <3>1. Holds(t, d)' = {}
      BY <2>7 DEF Holds
    <3> QED  BY <2>4, <2>6, <2>8, <3>1, Zenon DEF FlowOK
  <2>10. \A x \in Apps, e \in DbThreads :
           /\ \A j \in Range(queue'[x][e].ret) \cup Range(queue'[x][e].cache) :
                j \in Range(queue[x][e].ret) \cup Range(queue[x][e].cache)
           /\ queue'[x][e].cmd = queue[x][e].cmd
    BY <2>5, <2>6, ZenonT(60) DEF R, C, Q
  <2>11. DoneOK'
    <3>1. DoneOK
      BY DEF DbInv
    <3>2. \A x \in Apps, e \in DbThreads :
            /\ \A j \in Range(queue'[x][e].ret) \cup Range(queue'[x][e].cache) : Answered(j)
            /\ \A j \in Range(queue'[x][e].cmd) : Untouched(j)
      BY <2>10, <3>1 DEF DoneOK
    <3>3. \A e \in DbThreads : /\ work'[e].at = "execute" => Untouched(work'[e].cmd)
                               /\ work'[e].at = "push" => Answered(work'[e].cmd)
      BY <2>7, <3>1 DEF DoneOK
    <3> QED  BY <1>1, <3>1, <3>2, <3>3, DoneStays
  <2>12. ASSUME NEW j PROVE Waits(j)' <=> Waits(j)
    <3>1. \A e \in DbThreads : (work'[e].at = "execute" /\ work'[e].cmd = j)
                                 <=> (work[e].at = "execute" /\ work[e].cmd = j)
      BY <1>1, <2>7
    <3> QED  BY <2>10, <3>1, WaitsStay
  <2>13. WorkOK'
    BY <1>1, <2>7 DEF DbInv, WorkOK
  <2>14. \A x \in Apps, e \in DbThreads : FlowOK(x, e)'
    BY <2>8, <2>9
  <2> QED  BY <1>1, <2>6, <2>7, <2>11, <2>12, <2>13, <2>14, WorkDone, SMTT(60)
<1>4. CASE ~(C # <<>> /\ Len(R) < Room)
  <2>1. /\ UNCHANGED queue
        /\ work' = [work EXCEPT ![d] = [work[d] EXCEPT !.at = "look", !.list = Tail(work[d].list),
                                                       !.busy = work[d].busy \/ C # <<>>]]
    BY <1>4 DEF WorkDrain
  <2>2. /\ work' \in [DbThreads -> WorkType] /\ work'[d].at = "look"
        /\ \A e \in DbThreads \ {d} : work'[e] = work[e]
    <3> DEFINE b == work[d].busy \/ C # <<>>
               l == Tail(work[d].list)
    <3>1. b \in BOOLEAN /\ l \in Seq(Apps)
      BY <1>1 DEF WorkType
    <3> HIDE DEF b, l
    <3> DEFINE w == [work[d] EXCEPT !.at = "look", !.list = l, !.busy = b]
    <3>2. w \in WorkType /\ w.at = "look"
      BY <1>1, <3>1 DEF WorkType
    <3>3. work' = [work EXCEPT ![d] = w]
      BY <2>1 DEF b, l
    <3> HIDE DEF w
    <3> QED  BY <1>1, <3>2, <3>3, WorkLaw
  <2>3. Moves
    BY <1>1, <2>1, <2>2, SMTT(60) DEF Moves, Handling
  <2>4. Types' /\ WorkOK' /\ ClosedOK'
    BY <1>1, <2>1, <2>2 DEF DbInv, Types, WorkOK, ClosedOK, Posting
  <2>5. \A x \in Apps : PostOK(x)'
    BY <1>1, PostsSame
  <2> QED  BY <1>1, <2>3, <2>4, <2>5, MovesAside
<1> QED  BY <1>3, <1>4, SMTT(60)

-----------------------------------------------------------------------------
(* The invariant, and what follows from it. *)

(* It holds at first: nothing is posted. *)
LEMMA InitInv ==
  ASSUME DbAssumption, Init
  PROVE  DbInv
<1>1. /\ is_run = TRUE /\ procs = <<Main>> /\ cmds = <<>> /\ Main \in Apps /\ 0 \in DbThreads
      /\ \A t \in Apps, d \in DbThreads : queue[t][d] = NoQueue
      /\ \A d \in DbThreads : work[d].at = "top"
      /\ \A t \in Apps : app[t].at = "idle"
      /\ \A c \in Conns : conn[c] = [req |-> 0, req_mt |-> 0, ack |-> 0, alive |-> TRUE]
  BY Constants DEF Init, IdleApp
<1>2. Types
  <2>1. queue \in [Apps -> [DbThreads -> QueueType]]
    BY DEF Init, NoQueue, QueueType
  <2>2. conn \in [Conns -> ConnType]
    BY DEF Init, ConnType
  <2>3. work \in [DbThreads -> WorkType]
    BY DEF Init, WorkType
  <2>4. app \in [Apps -> AppType]
    BY <1>1 DEF Init, AppType, IdleApp
  <2> QED  BY <1>1, <2>1, <2>2, <2>3, <2>4 DEF Types
<1>3. WorkOK /\ ClosedOK /\ \A t \in Apps : PostOK(t)
  BY <1>1 DEF WorkOK, ClosedOK, PostOK, Posting
<1>4. \A t \in Apps, d \in DbThreads :
        /\ queue[t][d].cmd = <<>> /\ queue[t][d].ret = <<>> /\ queue[t][d].cache = <<>>
        /\ Holds(t, d) = {} /\ Unanswered(t, d) = {}
  BY <1>1 DEF NoQueue, Holds, Unanswered
<1>5. DoneOK
  BY <1>1, <1>4, ShortLaw DEF DoneOK
<1>6. Flow(<<>>, <<>>, {}, <<>>, {})
  BY ShortLaw DEF Flow, Before
<1>7. \A t \in Apps, d \in DbThreads : FlowOK(t, d)
  BY <1>4, <1>6 DEF FlowOK
<1>8. \A c \in Conns : Counting(c) = {} /\ Ahead(c) = {}
  BY <1>1 DEF Counting, Ahead
<1>9. Cardinality({}) = 0
  BY FS_EmptySet
<1>10. ASSUME NEW c \in Conns PROVE CountOK(c) /\ conn[c].alive
  <2>1. conn[c].req = 0 /\ conn[c].req_mt = 0 /\ conn[c].ack = 0 /\ conn[c].alive
    BY <1>1
  <2>2. Cardinality(Counting(c)) = 0 /\ Cardinality(Ahead(c)) = 0
    BY <1>8, <1>9
  <2> QED  BY <2>1, <2>2 DEF CountOK
<1> QED  BY <1>2, <1>3, <1>5, <1>7, <1>8, <1>10 DEF DbInv

(* Every step keeps it. *)
LEMMA NextKeeps ==
  ASSUME DbAssumption, DbInv, [Next]_vars
  PROVE  DbInv'
<1>1. ASSUME NEW d \in DbThreads, Work(d) PROVE DbInv'
  BY <1>1, WorkTopKeeps, WorkPassEndsKeeps, WorkLookKeeps, WorkExecuteKeeps, WorkPushKeeps, WorkDrainKeeps DEF Work
<1>2. ASSUME NEW t \in Apps, AppInside(t) PROVE DbInv'
  BY <1>2, PostPushKeeps, PostCountKeeps, RunStepKeeps, DestroyEndKeeps, UninitEndKeeps DEF AppInside
<1>3. ASSUME NEW t \in Apps, App(t) PROVE DbInv'
  <2>1. ASSUME NEW c \in Conns, DoSync(t, c) PROVE DbInv'
    BY <2>1, StutterKeeps DEF DoSync
  <2> QED  BY <1>3, <2>1, PostBeginKeeps, RunPostKeeps, DestroyBeginKeeps, RunBeginKeeps, RunStepKeeps, LeaveKeeps,
              UninitBeginKeeps DEF App
<1>4. ASSUME UNCHANGED vars PROVE DbInv'
  BY <1>4, StutterKeeps
<1> QED  BY <1>1, <1>2, <1>3, <1>4 DEF Next

(* The inductive invariant of the work threads: where every thread is, where every command is on its *)
(* way and what was done to it, and that the counters of a connection account for its commands.      *)
THEOREM DbInvariant ==
  ASSUME DbAssumption
  PROVE  Spec => []DbInv
<1>1. Init => DbInv
  BY InitInv
<1>2. DbInv /\ [Next]_vars => DbInv'
  BY NextKeeps
<1> QED  BY <1>1, <1>2, PTL DEF Spec

(* The places are the way of the commands. *)
LEMMA OrderFollows ==
  ASSUME DbInv
  PROVE  CommandsInOrder
<1> SUFFICES ASSUME procs # <<>>, NEW t \in Apps, NEW d \in DbThreads
             PROVE  /\ Range(OnTheWay(t, d)) = Unanswered(t, d)
                    /\ Increasing(OnTheWay(t, d))
  BY DEF CommandsInOrder, Increasing
<1> DEFINE R == queue[t][d].ret
           C == queue[t][d].cache
           Q == queue[t][d].cmd
           h == InHand(t, d)
<1>1. R \in Seq(Nat) /\ C \in Seq(Nat) /\ Q \in Seq(Nat) /\ work[d].cmd \in Nat
  BY DEF DbInv, Types, QueueType, WorkType
<1>2. h \in Seq(Nat) /\ Range(h) = Holds(t, d) /\ Increasing(h)
  BY <1>1, ShortLaw DEF InHand, Holds
<1>3. Flow(R, C, Range(h), Q, Unanswered(t, d))
  BY <1>2 DEF DbInv, FlowOK
<1>4. OnTheWay(t, d) = R \o C \o h \o Q
  BY DEF OnTheWay
<1> HIDE DEF R, C, Q, h
<1> QED  BY <1>1, <1>2, <1>3, <1>4, FlowWay

(* Commands are done as their places say. *)
LEMMA OnceFollows ==
  ASSUME DbInv
  PROVE  CarriedOutOnce
<1>1. \A k \in 1 .. Len(cmds) : cmds[k].times \in {0, 1}
  <2>1. cmds \in Seq(CmdType)
    BY DEF DbInv, Types
  <2>2. \A k \in 1 .. Len(cmds) : cmds[k] \in CmdType
    BY <2>1
  <2> QED  BY <2>2 DEF CmdType
<1> QED  BY <1>1 DEF CarriedOutOnce, DbInv, DoneOK, Answered

(* Of a destroyed connection no command waits. *)
LEMMA OutliveFollows ==
  ASSUME DbInv
  PROVE  ConnectionsOutlive
<1>1. \A k : Waits(k) => k \in 1 .. Len(cmds)
  BY DEF DbInv, DoneOK, Waits, Untouched
<1> SUFFICES ASSUME NEW c \in Conns, ~conn[c].alive, NEW t \in Apps, NEW d \in DbThreads
             PROVE  /\ \A k \in Range(queue[t][d].cmd) : cmds[k].conn # c
                    /\ work[d].at = "execute" => cmds[work[d].cmd].conn # c
  BY DEF ConnectionsOutlive
<1>2. Ahead(c) = {}
  BY DEF DbInv
<1>3. \A k : Waits(k) => cmds[k].conn # c
  BY <1>1, <1>2 DEF Ahead
<1>4. \A k \in Range(queue[t][d].cmd) : Waits(k)
  BY DEF Waits
<1>5. work[d].at = "execute" => Waits(work[d].cmd)
  BY DEF Waits
<1> QED  BY <1>3, <1>4, <1>5

(* Commands keep their order on the way through the queues, are carried out once, and their *)
(* connections outlive them, for any threads, connections and sizes of queues.              *)
THEOREM CommandsStaySafe ==
  ASSUME DbAssumption
  PROVE  Spec => []CommandsSafe
<1>1. DbInv => CommandsSafe
  BY OrderFollows, OnceFollows, OutliveFollows DEF CommandsSafe
<1> QED  BY <1>1, DbInvariant, PTL
=============================================================================
