------------------------- MODULE LockFreeSpscProofs --------------------------
(***************************************************************************)
(* Theorems about LockFreeSpsc, for every capacity: a value is constructed *)
(* in raw memory and destroyed where it is, and the ring is a queue.       *)
(***************************************************************************)
EXTENDS LockFreeSpsc, TLAPS

(* The multiples of n closest to 0 are -n and n. *)
LEMMA SmallMultiple ==
  ASSUME NEW n \in Nat \ {0}, NEW k \in Int, -n < n * k, n * k < n
  PROVE  k = 0
<1>1. ASSUME k >= 1 PROVE FALSE
  <2>1. n * k >= n
    BY <1>1
  <2> QED  BY <2>1
<1>2. ASSUME k <= -1 PROVE FALSE
  <2>1. n * k <= -n
    BY <1>2
  <2> QED  BY <2>1
<1> QED  BY <1>1, <1>2

(* The remainder is the one number of 0 .. n - 1 that is a multiple away. *)
LEMMA RemainderIs ==
  ASSUME NEW n \in Nat \ {0}, NEW x \in Int, NEW r \in 0 .. n - 1, NEW m \in Int, x = n * m + r
  PROVE  x % n = r
<1> DEFINE q == x \div n
           s == x % n
<1>1. x = n * q + s /\ q \in Int /\ s \in 0 .. n - 1
  OBVIOUS
<1> HIDE DEF q, s
<1>2. n * (m - q) = n * m - n * q
  BY <1>1
<1>3. n * (m - q) = s - r
  <2> DEFINE a == n * m
             b == n * q
  <2>1. a \in Int /\ b \in Int /\ x = a + r /\ x = b + s
    BY <1>1
  <2> HIDE DEF a, b
  <2>2. a - b = s - r
    BY <1>1, <2>1
  <2> QED  BY <1>2, <2>2 DEF a, b
<1>4. m - q = 0
  BY <1>1, <1>3, SmallMultiple
<1>5. n * (m - q) = 0
  BY <1>4
<1>6. s = r
  BY <1>1, <1>3, <1>5
<1> QED  BY <1>6 DEF s

(* Remainders within a turn of the ring. *)
LEMMA WithinTurn ==
  ASSUME NEW n \in Nat \ {0}, NEW x \in Int, -n < x, x < 2 * n
  PROVE  x % n = (IF x < 0 THEN x + n ELSE IF x < n THEN x ELSE x - n)
<1>1. CASE x < 0
  <2>1. x = n * (-1) + (x + n) /\ x + n \in 0 .. n - 1
    BY <1>1
  <2> QED  BY <1>1, <2>1, RemainderIs
<1>2. CASE 0 <= x /\ x < n
  <2>1. x = n * 0 + x /\ x \in 0 .. n - 1
    BY <1>2
  <2> QED  BY <1>2, <2>1, RemainderIs
<1>3. CASE n <= x
  <2>1. x = n * 1 + (x - n) /\ x - n \in 0 .. n - 1
    BY <1>3
  <2> QED  BY <1>3, <2>1, RemainderIs
<1> QED  BY <1>1, <1>2, <1>3

(* The ring without remainders: the next node, and what lies from f up to t. *)
Ring == 0 .. Capacity - 1
Store == [Ring -> Values \cup {NoValue, Blank}]
After(i) == IF i + 1 = Capacity THEN 0 ELSE i + 1
Distance(f, t) == IF f <= t THEN t - f ELSE t - f + Capacity
At(f, i) == IF f + i - 1 < Capacity THEN f + i - 1 ELSE f + i - 1 - Capacity
Window(d, f, t) == [i \in 1 .. Distance(f, t) |-> d[At(f, i)]]

Rem(x) == x % Capacity

(* Remainders of the size of the ring. *)
LEMMA RemIs ==
  ASSUME SpscAssumption
  PROVE  \A x \in Int : -Capacity < x /\ x < 2 * Capacity =>
           Rem(x) = (IF x < 0 THEN x + Capacity ELSE IF x < Capacity THEN x ELSE x - Capacity)
BY WithinTurn DEF SpscAssumption, Rem

(* The next index. *)
LEMMA IncrementIs ==
  ASSUME SpscAssumption, NEW i \in Ring
  PROVE  _increment(i) = After(i) /\ After(i) \in Ring
<1>1. Capacity \in Nat \ {0} /\ i + 1 \in Int /\ -Capacity < i + 1 /\ i + 1 < 2 * Capacity
  BY DEF SpscAssumption, Ring
<1>2. Rem(i + 1) = After(i)
  BY <1>1, RemIs DEF After, Ring
<1> QED  BY <1>1, <1>2 DEF _increment, After, Rem, Ring

(* What Items is written with. *)
LEMMA WindowIs ==
  ASSUME SpscAssumption, NEW d, NEW f \in Ring, NEW t \in Ring
  PROVE  [i \in 1 .. (t - f) % Capacity |-> d[(f + i - 1) % Capacity]] = Window(d, f, t)
<1>1. Capacity \in Nat \ {0} /\ f \in Int /\ t \in Int /\ 0 <= f /\ f < Capacity /\ 0 <= t /\ t < Capacity
  BY DEF SpscAssumption, Ring
<1>2. Rem(t - f) = Distance(f, t)
  <2>1. t - f \in Int /\ -Capacity < t - f /\ t - f < Capacity /\ t - f < 2 * Capacity
    BY <1>1
  <2> QED  BY <1>1, <2>1, RemIs DEF Distance
<1>3. ASSUME NEW i \in 1 .. Distance(f, t) PROVE Rem(f + i - 1) = At(f, i)
  <2>1. f + i - 1 \in Int /\ -Capacity < f + i - 1 /\ f + i - 1 < 2 * Capacity /\ 0 <= f + i - 1
    BY <1>1 DEF Distance
  <2> QED  BY <1>1, <2>1, RemIs DEF At
<1> QED  BY <1>2, <1>3 DEF Window, Rem

(* A window is a sequence of what the ring holds. *)
LEMMA WindowType ==
  ASSUME SpscAssumption, NEW d \in Store, NEW f \in Ring, NEW t \in Ring
  PROVE  /\ Distance(f, t) \in Ring /\ Window(d, f, t) \in Seq(Values \cup {NoValue, Blank}) /\ Len(Window(d, f, t)) = Distance(f, t)
         /\ \A i \in 1 .. Distance(f, t) : At(f, i) \in Ring
<1>1. Distance(f, t) \in Ring /\ \A i \in 1 .. Distance(f, t) : At(f, i) \in Ring
  BY DEF SpscAssumption, Ring, Distance, At
<1> QED  BY <1>1 DEF Window, Ring, Store

(* It grows at its end, *)
LEMMA WindowAppend ==
  ASSUME SpscAssumption, NEW d \in Store, NEW f \in Ring, NEW t \in Ring, After(t) # f
  PROVE  /\ Len(Window(d, f, t)) < Capacity - 1
         /\ Window(d, f, After(t)) = Append(Window(d, f, t), d[t])
<1> DEFINE n == Distance(f, t)
<1>1. After(t) \in Ring
  BY IncrementIs
<1>2. Distance(f, After(t)) = n + 1 /\ n < Capacity - 1 /\ n \in Nat /\ At(f, n + 1) = t
  BY DEF SpscAssumption, Ring, Distance, After, At
<1>3. Window(d, f, t) \in Seq(Values \cup {NoValue, Blank}) /\ Len(Window(d, f, t)) = n
  BY WindowType
<1>4. Window(d, f, After(t)) = [i \in 1 .. n + 1 |-> d[At(f, i)]]
  BY <1>2 DEF Window
<1>5. \A i \in 1 .. n : Window(d, f, t)[i] = d[At(f, i)]
  BY DEF Window
<1> HIDE DEF n
<1>6. Append(Window(d, f, t), d[t]) = [i \in 1 .. n + 1 |-> d[At(f, i)]]
  <2> DEFINE w == Window(d, f, t)
  <2>1. w \in Seq(Values \cup {NoValue, Blank}) /\ Len(w) = n /\ (\A i \in 1 .. n : w[i] = d[At(f, i)]) /\ d[t] = d[At(f, n + 1)]
    BY <1>2, <1>3, <1>5
  <2> HIDE DEF w
  <2> QED  BY <1>2, <2>1 DEF w
<1> QED  BY <1>2, <1>3, <1>4, <1>6

(* and shrinks at its front, *)
LEMMA WindowTail ==
  ASSUME SpscAssumption, NEW d \in Store, NEW f \in Ring, NEW t \in Ring, f # t
  PROVE  /\ Window(d, f, t) # <<>> /\ Head(Window(d, f, t)) = d[f]
         /\ Tail(Window(d, f, t)) = Window(d, After(f), t)
<1> DEFINE n == Distance(f, t)
           w == Window(d, f, t)
<1>1. n \in Nat \ {0} /\ Distance(After(f), t) = n - 1 /\ At(f, 1) = f
      /\ \A i \in 1 .. n - 1 : At(After(f), i) = At(f, i + 1)
  BY DEF SpscAssumption, Ring, Distance, After, At
<1>2. w \in Seq(Values \cup {NoValue, Blank}) /\ Len(w) = n
  BY WindowType
<1>3. \A i \in 1 .. n : w[i] = d[At(f, i)]
  BY DEF Window
<1>4. Window(d, After(f), t) = [i \in 1 .. n - 1 |-> d[At(After(f), i)]]
  BY <1>1 DEF Window
<1> HIDE DEF n, w
<1>5. Window(d, After(f), t) = [i \in 1 .. n - 1 |-> w[i + 1]]
  BY <1>1, <1>3, <1>4
<1>6. Tail(w) = [i \in 1 .. n - 1 |-> w[i + 1]] /\ w # <<>> /\ Head(w) = w[1]
  <2>1. w # <<>> /\ Head(w) = w[1]
    BY <1>1, <1>2
  <2> DEFINE v == Tail(w)
  <2>2. /\ v \in Seq(Values \cup {NoValue, Blank}) /\ Len(v) = n - 1
        /\ \A i \in 1 .. n - 1 : v[i] = w[i + 1]
    BY <1>1, <1>2, <2>1
  <2> HIDE DEF v
  <2>3. v = [i \in 1 .. n - 1 |-> w[i + 1]]
    BY <1>1, <2>2
  <2> QED  BY <2>1, <2>3 DEF v
<1>7. w[1] = d[f]
  BY <1>1, <1>3
<1> QED  BY <1>5, <1>6, <1>7 DEF w

OnlyAt(p, d, e) == \A i \in Ring \ {p} : e[i] = d[i]

(* and does not see the node at its end, nor the one before its front. *)
LEMMA WindowSame ==
  ASSUME SpscAssumption, NEW d, NEW e, NEW f \in Ring, NEW t \in Ring, NEW p \in Ring,
         OnlyAt(p, d, e), p = t \/ (f = After(p) /\ p # t)
  PROVE  Window(e, f, t) = Window(d, f, t)
<1>1. \A i \in 1 .. Distance(f, t) : At(f, i) \in Ring /\ At(f, i) # p
  BY DEF SpscAssumption, Ring, Distance, After, At
<1> QED  BY <1>1 DEF Window, OnlyAt

-----------------------------------------------------------------------------
(***************************************************************************)
(* The inductive invariant.  A node holds a value if it is between the two *)
(* indices, and _tail's has been filled or _head's not yet been taken; an  *)
(* index a thread has found different from the other stays so until the    *)
(* thread moves its own.                                                   *)
(***************************************************************************)
Between(i) == IF qHead <= qTail THEN qHead <= i /\ i < qTail ELSE qHead <= i \/ i < qTail
NodesOK ==
  \A i \in Ring :
    data[i] \in Values <=> \/ Between(i) /\ ~(pop = "release" /\ i = qHead)
                           \/ push.at = "publish" /\ i = qTail
CallsOK ==
  /\ push.at # "idle" => After(qTail) # qHead /\ push.data \in Values
  /\ pop # "idle" => qHead # qTail
Inv == TypeOK /\ NodesOK /\ CallsOK

(* The types with Ring and Store. *)
LEMMA TypesAre ==
  TypeOK <=> /\ data \in Store /\ qTail \in Ring /\ qHead \in Ring
             /\ push \in [at : {"idle", "fill", "publish"}, data : Values \cup {NoValue}]
             /\ pop \in {"idle", "take", "release"} /\ result \in Values \cup {NoValue, Blank}
BY DEF TypeOK, Store, Ring

(* It holds at first, *)
LEMMA InitInv ==
  ASSUME SpscAssumption, Init
  PROVE  Inv
BY DEF Init, Inv, TypeOK, NodesOK, CallsOK, Between, Ring, SpscAssumption

(* and every step keeps it. *)
LEMMA NextInv ==
  ASSUME SpscAssumption, Inv, [Next]_vars
  PROVE  Inv'
<1> USE DEF Inv, NodesOK, CallsOK
<1>1. /\ data \in Store /\ qTail \in Ring /\ qHead \in Ring
      /\ push \in [at : {"idle", "fill", "publish"}, data : Values \cup {NoValue}]
      /\ pop \in {"idle", "take", "release"} /\ result \in Values \cup {NoValue, Blank}
  BY TypesAre
<1>2. /\ _increment(qTail) = After(qTail) /\ After(qTail) \in Ring
      /\ _increment(qHead) = After(qHead) /\ After(qHead) \in Ring
  BY <1>1, IncrementIs
<1>3. Capacity \in Nat \ {0} /\ NoValue \notin Values /\ Blank \notin Values
  BY DEF SpscAssumption
<1>4. ASSUME NEW v \in Values, PushBegin(v) PROVE Inv'
  <2>1. TypeOK'
    BY <1>1, <1>4 DEF PushBegin, TypeOK, Store, Ring
  <2>2. push.at = "idle" /\ push'.at = "fill" /\ push'.data = v /\ After(qTail) # qHead
        /\ UNCHANGED <<data, qTail, qHead, pop, result>>
    BY <1>2, <1>4 DEF PushBegin
  <2> QED  BY <2>1, <2>2 DEF Between
<1>5. ASSUME PushFill PROVE Inv'
  <2>1. /\ push.at = "fill" /\ push'.at = "publish" /\ push'.data = push.data
        /\ data' \in Store /\ data'[qTail] = push.data /\ \A i \in Ring \ {qTail} : data'[i] = data[i]
        /\ push' \in [at : {"idle", "fill", "publish"}, data : Values \cup {NoValue}]
        /\ UNCHANGED <<qTail, qHead, pop, result>>
    BY <1>1, <1>5 DEF PushFill, Store
  <2>2. TypeOK'
    BY <1>1, <2>1 DEF TypeOK, Store, Ring
  <2>3. ~Between(qTail)
    BY <1>1, <1>3 DEF Between, Ring
  <2>4. NodesOK'
    BY <1>1, <1>3, <2>1, <2>3 DEF Between
  <2> QED  BY <2>1, <2>2, <2>4
<1>6. ASSUME PushPublish PROVE Inv'
  <2>1. /\ push.at = "publish" /\ push' = [at |-> "idle", data |-> NoValue] /\ qTail' = After(qTail)
        /\ UNCHANGED <<data, qHead, pop, result>> /\ After(qTail) # qHead
    BY <1>2, <1>6 DEF PushPublish
  <2>2. TypeOK'
    BY <1>1, <1>2, <2>1 DEF TypeOK, Store, Ring
  <2>3. \A i \in Ring : Between(i)' <=> Between(i) \/ i = qTail
    BY <1>1, <1>3, <2>1 DEF Between, Ring, After
  <2>4. NodesOK'
    BY <1>1, <2>1, <2>3
  <2> QED  BY <2>1, <2>2, <2>4
<1>7. ASSUME PopBegin PROVE Inv'
  <2>1. TypeOK'
    BY <1>1, <1>7 DEF PopBegin, TypeOK, Store, Ring
  <2> QED  BY <1>7, <2>1 DEF PopBegin, Between
<1>8. ASSUME PopTake PROVE Inv'
  <2>1. /\ pop = "take" /\ pop' = "release" /\ result' = data[qHead]
        /\ data' \in Store /\ data'[qHead] = NoValue /\ \A i \in Ring \ {qHead} : data'[i] = data[i]
        /\ UNCHANGED <<qTail, qHead, push>> /\ qHead # qTail
    BY <1>1, <1>8 DEF PopTake, Store
  <2>2. TypeOK'
    BY <1>1, <2>1 DEF TypeOK, Store, Ring
  <2>4. NodesOK'
    BY <1>1, <1>3, <2>1 DEF Between
  <2> QED  BY <2>1, <2>2, <2>4
<1>9. ASSUME PopRelease PROVE Inv'
  <2>1. /\ pop = "release" /\ pop' = "idle" /\ qHead' = After(qHead) /\ qHead # qTail
        /\ UNCHANGED <<data, qTail, push, result>>
    BY <1>2, <1>9 DEF PopRelease
  <2>2. TypeOK'
    BY <1>1, <1>2, <2>1 DEF TypeOK, Store, Ring
  <2>3. \A i \in Ring : Between(i)' <=> Between(i) /\ i # qHead
    BY <1>1, <1>3, <2>1 DEF Between, Ring, After
  <2>4. NodesOK'
    BY <1>1, <2>1, <2>3
  <2>5. After(qTail) # After(qHead)
    BY <1>1, <1>3, <2>1 DEF Ring, After
  <2> QED  BY <2>1, <2>2, <2>4, <2>5
<1>10. ASSUME UNCHANGED vars PROVE Inv'
  BY <1>10 DEF vars, TypeOK, Between
<1> QED  BY <1>4, <1>5, <1>6, <1>7, <1>8, <1>9, <1>10 DEF Next

(* Neither index leaves the ring, no value is constructed over another pushed one, and what is     *)
(* taken is a pushed value, for every capacity.                                                    *)
THEOREM ValuesLiveOnce ==
  ASSUME SpscAssumption
  PROVE  Spec => [](TypeOK /\ PushedLiveOnce)
<1>1. Inv => TypeOK /\ PushedLiveOnce
  <2> SUFFICES ASSUME Inv PROVE PushedLiveOnce
    BY DEF Inv
  <2>1. qTail \in Ring /\ qHead \in Ring /\ qTail \in Int /\ qHead \in Int
    BY DEF Inv, TypeOK, Ring, SpscAssumption
  <2>2. ~Between(qTail) /\ (qHead # qTail => Between(qHead))
    BY <2>1 DEF Between, Ring
  <2>3. push.at = "fill" => data[qTail] \notin Values
    BY <2>1, <2>2 DEF Inv, NodesOK
  <2>4. pop = "take" => qHead # qTail
    BY DEF Inv, CallsOK
  <2>5. pop = "take" => data[qHead] \in Values
    BY <2>1, <2>2, <2>4 DEF Inv, NodesOK
  <2> QED  BY <2>3, <2>5 DEF PushedLiveOnce
<1>2. Init => Inv
  BY InitInv
<1>3. Inv /\ [Next]_vars => Inv'
  BY NextInv
<1> QED  BY <1>1, <1>2, <1>3, PTL DEF Spec

(* Items, without remainders. *)
LEMMA ItemsAre ==
  ASSUME SpscAssumption, Inv
  PROVE  Front \in Ring /\ Items = Window(data, Front, qTail)
<1>1. qTail \in Ring /\ qHead \in Ring
  BY DEF Inv, TypeOK, Ring
<1>2. Front \in Ring
  BY <1>1, IncrementIs DEF Front
<1> QED  BY <1>1, <1>2, WindowIs DEF Items

(* Every step of the ring is a step of the queue, or none: PushPublish appends, PopBegin removes and *)
(* PopTake returns.                                                                                  *)
Got == [c \in {"consumer"} |-> IF pop = "take" THEN data[qHead] ELSE NoValue]
Returned == [c \in {"consumer"} |-> result]
abstract == <<Items, Got, Returned>>

LEMMA StepImplements ==
  ASSUME SpscAssumption, Inv, Inv', [Next]_vars
  PROVE  [Queue!Next]_abstract
<1>1. /\ data \in Store /\ qTail \in Ring /\ qHead \in Ring /\ Front \in Ring
      /\ Items = Window(data, Front, qTail) /\ Items' = Window(data', Front', qTail')
      /\ _increment(qTail) = After(qTail) /\ _increment(qHead) = After(qHead)
      /\ Front = (IF pop = "idle" THEN qHead ELSE After(qHead))
  <2>1. data \in Store /\ qTail \in Ring /\ qHead \in Ring /\ Front \in Ring /\ Items = Window(data, Front, qTail)
    BY ItemsAre, TypesAre DEF Inv
  <2>2. (SpscAssumption /\ Inv => Items = Window(data, Front, qTail))'
    BY ItemsAre, PTL
  <2>3. Items' = Window(data', Front', qTail')
    BY <2>2 DEF Window
  <2> QED  BY <2>1, <2>3, IncrementIs DEF Front
<1>2. /\ push.at # "idle" => After(qTail) # qHead
      /\ pop # "idle" => qHead # qTail
      /\ push.at = "publish" => data[qTail] \in Values
      /\ pop = "take" => data[qHead] \in Values /\ data[qHead] # NoValue
  <2>1. CallsOK /\ NodesOK
    BY DEF Inv
  <2>2. qHead # qTail => Between(qHead)
    BY <1>1 DEF Between, Ring, SpscAssumption
  <2>3. /\ push.at = "publish" => data[qTail] \in Values
        /\ pop = "take" => data[qHead] \in Values
    BY <1>1, <2>1, <2>2 DEF CallsOK, NodesOK
  <2> QED  BY <1>1, <2>1, <2>3 DEF CallsOK, Store, SpscAssumption
<1>3. ASSUME UNCHANGED <<Items, pop, result>>, pop = "take" => data'[qHead'] = data[qHead]
      PROVE  UNCHANGED abstract
  <2>1. UNCHANGED Got
    BY <1>3 DEF Got
  <2>2. UNCHANGED Returned
    BY <1>3 DEF Returned
  <2> QED  BY <1>3, <2>1, <2>2 DEF abstract
<1>4. ASSUME NEW v \in Values, PushBegin(v) PROVE UNCHANGED abstract
  <2>1. UNCHANGED <<data, qTail, qHead, pop, result>>
    BY <1>4 DEF PushBegin
  <2> QED  BY <1>1, <1>3, <2>1 DEF Front
<1>5. ASSUME PushFill PROVE UNCHANGED abstract
  <2>1. push.at = "fill" /\ data' = [data EXCEPT ![qTail] = push.data] /\ UNCHANGED <<qTail, qHead, pop, result>>
    BY <1>5 DEF PushFill
  <2>2. Items' = Items
    <3>1. Front' = Front /\ OnlyAt(qTail, data, data')
      BY <1>1, <2>1 DEF Front, Store, OnlyAt
    <3> QED  BY <1>1, <2>1, <3>1, WindowSame
  <2>3. pop = "take" => data'[qHead'] = data[qHead]
    BY <1>1, <1>2, <2>1 DEF Store
  <2> QED  BY <1>3, <2>1, <2>2, <2>3
<1>6. ASSUME PushPublish PROVE Queue!Put(data[qTail]) /\ data[qTail] \in Values
  <2>1. push.at = "publish" /\ qTail' = After(qTail) /\ UNCHANGED <<data, qHead, pop, result>>
    BY <1>1, <1>6 DEF PushPublish
  <2>2. After(qTail) # Front
    BY <1>1, <1>2, <2>1 DEF After, Ring, SpscAssumption
  <2>3. Len(Items) < Capacity - 1 /\ Items' = Append(Items, data[qTail])
    BY <1>1, <2>1, <2>2, WindowAppend DEF Front
  <2> QED  BY <1>2, <2>1, <2>3 DEF Queue!Put
<1>7. ASSUME PopBegin PROVE Queue!Get("consumer")
  <2>1. pop = "idle" /\ pop' = "take" /\ qHead # qTail /\ UNCHANGED <<data, qTail, qHead, push, result>>
    BY <1>7 DEF PopBegin
  <2>2. Front = qHead /\ Front' = After(qHead)
    BY <1>1, <2>1 DEF Front
  <2>3. Items # <<>> /\ Items' = Tail(Items) /\ Head(Items) = data[qHead]
    BY <1>1, <2>1, <2>2, WindowTail
  <2> QED  BY <2>1, <2>3 DEF Queue!Get
<1>8. ASSUME PopTake PROVE Queue!Return("consumer")
  <2>1. /\ pop = "take" /\ pop' = "release" /\ result' = data[qHead]
        /\ data' = [data EXCEPT ![qHead] = NoValue] /\ UNCHANGED <<qTail, qHead, push>>
    BY <1>8 DEF PopTake
  <2>2. Front = After(qHead) /\ Front' = Front /\ qHead # qTail
    BY <1>1, <1>2, <2>1 DEF Front
  <2>3. Items' = Items
    <3>1. OnlyAt(qHead, data, data')
      BY <1>1, <2>1 DEF Store, OnlyAt
    <3> QED  BY <1>1, <2>1, <2>2, <3>1, WindowSame
  <2> QED  BY <1>2, <2>1, <2>3 DEF Queue!Return
<1>9. ASSUME PopRelease PROVE UNCHANGED abstract
  <2>1. pop = "release" /\ pop' = "idle" /\ qHead' = After(qHead) /\ UNCHANGED <<data, qTail, push, result>>
    BY <1>1, <1>9 DEF PopRelease
  <2>2. Front' = Front
    BY <1>1, <2>1 DEF Front
  <2>3. Items' = Items
    BY <1>1, <2>1, <2>2
  <2> QED  BY <2>1, <2>3 DEF abstract, Got, Returned
<1>10. ASSUME UNCHANGED vars PROVE UNCHANGED abstract
  <2>1. UNCHANGED <<data, qTail, qHead, pop, result>>
    BY <1>10 DEF vars
  <2> QED  BY <1>1, <1>3, <2>1 DEF Front
<1> QED  BY <1>4, <1>5, <1>6, <1>7, <1>8, <1>9, <1>10 DEF Next, Queue!Next

(* The ring is at first an empty queue. *)
LEMMA InitImplements ==
  ASSUME SpscAssumption, Init
  PROVE  Queue!Init
<1>1. Items = Window(data, Front, qTail)
  BY ItemsAre, InitInv
<1>2. Front = 0 /\ qTail = 0 /\ Distance(0, 0) = 0
  BY DEF Init, Front, Distance
<1>3. Items = <<>>
  BY <1>1, <1>2 DEF Window
<1> QED  BY <1>3 DEF Init, Queue!Init

(* The queue that has indices only is a queue of at most one value less than it has nodes, for *)
(* every capacity: values are popped in the order in which _tail was stored for them.          *)
THEOREM RingIsQueue ==
  ASSUME SpscAssumption
  PROVE  Spec => FifoOrder
<1>1. Init => Inv /\ Queue!Init
  BY InitInv, InitImplements
<1>2. Inv /\ [Next]_vars => Inv'
  BY NextInv
<1>3. Inv /\ Inv' /\ [Next]_vars => [Queue!Next]_abstract
  BY StepImplements
<1> QED  BY <1>1, <1>2, <1>3, PTL DEF Spec, FifoOrder, Queue!Spec, abstract, Got, Returned
=============================================================================
