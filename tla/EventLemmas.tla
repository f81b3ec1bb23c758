---------------------------- MODULE EventLemmas ----------------------------
(* What pushing and taking change of the messages queued for a session: their types, and the *)
(* bytes they announce.                                                                      *)
EXTENDS Announcements, TLAPS, WellFoundedInduction

(* The types of the messages of s in the queue q. *)
TypesIn(q, s) == {q[i].type : i \in {j \in DOMAIN q : q[j].sock = s}}

(* Pushing adds a type for the session of the message, and for no other. *)
LEMMA TypesAppend ==
  ASSUME NEW X, NEW q \in Seq(X), NEW e \in X, NEW x
  PROVE  TypesIn(Append(q, e), x) = TypesIn(q, x) \cup (IF e.sock = x THEN {e.type} ELSE {})
<1> DEFINE w == Append(q, e)
           n == Len(q)
<1>1. n \in Nat /\ DOMAIN q = 1 .. n /\ DOMAIN w = 1 .. n + 1 /\ w[n + 1] = e
      /\ \A i \in 1 .. n : w[i] = q[i]
  OBVIOUS
<1> HIDE DEF w, n
<1> QED  BY <1>1 DEF TypesIn, w

(* Taking the head leaves the types of the other sessions. *)
LEMMA TypesTail ==
  ASSUME NEW X, NEW q \in Seq(X), q # <<>>, NEW x
  PROVE  /\ TypesIn(Tail(q), x) \subseteq TypesIn(q, x)
         /\ Head(q).sock = x => Head(q).type \in TypesIn(q, x)
                                /\ TypesIn(q, x) = TypesIn(Tail(q), x) \cup {Head(q).type}
         /\ Head(q).sock # x => TypesIn(Tail(q), x) = TypesIn(q, x)
<1> DEFINE w == Tail(q)
           n == Len(w)
<1>1. n \in Nat /\ DOMAIN q = 1 .. n + 1 /\ DOMAIN w = 1 .. n /\ Head(q) = q[1]
      /\ \A i \in 1 .. n : w[i] = q[i + 1]
  OBVIOUS
<1>2. \A i \in 1 .. n + 1 : i = 1 \/ (i - 1 \in 1 .. n /\ q[i] = w[i - 1])
  BY <1>1
<1>3. \A i \in 1 .. n : i + 1 \in 1 .. n + 1
  BY <1>1
<1>4. 1 \in 1 .. n + 1
  BY <1>1
<1> HIDE DEF w, n
<1>5. TypesIn(w, x) \subseteq TypesIn(q, x)
  BY <1>1, <1>3 DEF TypesIn
<1>6. Head(q).sock = x => Head(q).type \in TypesIn(q, x)
  BY <1>1, <1>4 DEF TypesIn
<1>7. TypesIn(q, x) \subseteq TypesIn(w, x) \cup (IF Head(q).sock = x THEN {Head(q).type} ELSE {})
  <2> SUFFICES ASSUME NEW i \in 1 .. n + 1, q[i].sock = x, i # 1
               PROVE  q[i].type \in TypesIn(w, x)
    BY <1>1 DEF TypesIn
  <2> QED  BY <1>1, <1>2 DEF TypesIn
<1> QED  BY <1>5, <1>6, <1>7 DEF w

(* Every entry shows in the types of its session. *)
LEMMA TypesEntry ==
  ASSUME NEW q, NEW i \in DOMAIN q
  PROVE  q[i].type \in TypesIn(q, q[i].sock)
BY DEF TypesIn

-----------------------------------------------------------------------------
(* A set of naturals that holds 0 and with every number the next holds them all: the least *)
(* number it misses would have a predecessor in it.                                        *)
LEMMA NatSetInduction ==
  ASSUME NEW S, 0 \in S, \A n \in Nat : n \in S => n + 1 \in S
  PROVE  \A n \in Nat : n \in S
<1> DEFINE T == {k \in Nat : k \notin S}
<1> DEFINE R == {ss \in Nat \X Nat : ss[1] < ss[2]}
<1>1. SUFFICES ASSUME T # {} PROVE FALSE
  OBVIOUS
<1>2. IsWellFoundedOn(R, Nat)
  BY NatLessThanWellFounded DEF OpToRel
<1>3. \A x, y \in Nat : <<x, y>> \in R <=> x < y
  OBVIOUS
<1>4. \E x \in T : \A y \in T : <<y, x>> \notin R
  <2> HIDE DEF R
  <2> QED  BY <1>1, <1>2, WFMin
<1>5. PICK x \in T : \A y \in T : ~(y < x)
  BY <1>3, <1>4
<1>6. x # 0 /\ x - 1 \in Nat
  OBVIOUS
<1> QED  BY <1>5, <1>6

(* The function Announced sums with is one: its equation has a solution. *)
Part(q, s, i) == IF q[i].sock = s THEN q[i].len ELSE 0
IsSum(f, q, s, n) == f = [i \in 0 .. n |-> IF i = 0 THEN 0 ELSE f[i - 1] + Part(q, s, i)]

(* It does, by induction on the length, *)
LEMMA SumExists ==
  ASSUME NEW Msgs, \A m \in Msgs : m.len \in Nat, NEW q \in Seq(Msgs), NEW s
  PROVE  \A n \in Nat : n <= Len(q) => \E f : IsSum(f, q, s, n)
<1> DEFINE S == {n \in Nat : n <= Len(q) => \E f : IsSum(f, q, s, n)}
<1>1. 0 \in S
  <2>1. IsSum([i \in 0 .. 0 |-> 0], q, s, 0)
    BY DEF IsSum
  <2> QED  BY <2>1
<1>2. ASSUME NEW n \in Nat, n \in S PROVE n + 1 \in S
  <2> SUFFICES ASSUME n + 1 <= Len(q) PROVE \E f : IsSum(f, q, s, n + 1)
    OBVIOUS
  <2>1. PICK f : IsSum(f, q, s, n)
    BY <1>2
  <2> DEFINE g == [i \in 0 .. n + 1 |-> IF i = n + 1 THEN f[n] + Part(q, s, i) ELSE f[i]]
  <2>2. \A i \in 0 .. n : f[i] = IF i = 0 THEN 0 ELSE f[i - 1] + Part(q, s, i)
    BY <2>1 DEF IsSum
  <2>3. \A i \in 0 .. n + 1 : g[i] = IF i = 0 THEN 0 ELSE g[i - 1] + Part(q, s, i)
    <3> SUFFICES ASSUME NEW i \in 0 .. n + 1
                 PROVE  g[i] = IF i = 0 THEN 0 ELSE g[i - 1] + Part(q, s, i)
      OBVIOUS
    <3>1. CASE i = n + 1
      BY <3>1
    <3>2. CASE i # n + 1
      BY <2>2, <3>2
    <3> QED  BY <3>1, <3>2
  <2>4. IsSum(g, q, s, n + 1)
    BY <2>3 DEF IsSum
  <2> QED  BY <2>4
<1> HIDE DEF S
<1>3. \A n \in Nat : n \in S
  BY <1>1, <1>2, NatSetInduction
<1> QED  BY <1>3 DEF S

(* ... so Announced is the last value of such a function. *)
LEMMA AnnouncedSum ==
  ASSUME NEW Msgs, \A m \in Msgs : m.len \in Nat, NEW q \in Seq(Msgs), NEW s
  PROVE  \E f : IsSum(f, q, s, Len(q)) /\ Announced(q, s) = f[Len(q)]
<1> DEFINE h == CHOOSE f : IsSum(f, q, s, Len(q))
<1>1. IsSum(h, q, s, Len(q))
  <2>1. Len(q) \in Nat /\ Len(q) <= Len(q)
    OBVIOUS
  <2>2. \E f : IsSum(f, q, s, Len(q))
    BY <2>1, SumExists
  <2> QED  BY <2>2
<1>2. Announced(q, s) = h[Len(q)]
  BY DEF Announced, IsSum, Part
<1> QED  BY <1>1, <1>2

(* The length an entry adds is a natural. *)
LEMMA PartNat ==
  ASSUME NEW Msgs, \A m \in Msgs : m.len \in Nat, NEW q \in Seq(Msgs), NEW s, NEW i \in 1 .. Len(q)
  PROVE  Part(q, s, i) \in Nat
<1>1. q[i] \in Msgs
  OBVIOUS
<1> QED  BY <1>1 DEF Part

(* The partial sums of given numbers are determined. *)
Sums(f, c, n) == f[0] = 0 /\ \A i \in 1 .. n : f[i] = f[i - 1] + c[i]

(* They are: two functions with the same steps agree. *)
LEMMA SumUnique ==
  ASSUME NEW n \in Nat, NEW c, NEW f, NEW g, Sums(f, c, n), Sums(g, c, n)
  PROVE  f[n] = g[n]
<1> DEFINE S == {k \in Nat : k <= n => f[k] = g[k]}
<1>1. 0 \in S
  BY DEF Sums
<1>2. ASSUME NEW k \in Nat, k \in S PROVE k + 1 \in S
  <2> SUFFICES ASSUME k + 1 <= n PROVE f[k + 1] = g[k + 1]
    OBVIOUS
  <2>1. k + 1 \in 1 .. n /\ (k + 1) - 1 = k /\ f[k] = g[k]
    BY <1>2
  <2>2. f[k + 1] = f[k] + c[k + 1] /\ g[k + 1] = g[k] + c[k + 1]
    BY <2>1 DEF Sums
  <2> QED  BY <2>1, <2>2
<1> HIDE DEF S
<1>3. n \in S
  BY <1>1, <1>2, NatSetInduction
<1> QED  BY <1>3 DEF S

(* A sum of lengths is a natural. *)
LEMMA SumNat ==
  ASSUME NEW Msgs, \A m \in Msgs : m.len \in Nat, NEW q \in Seq(Msgs), NEW s, NEW f, IsSum(f, q, s, Len(q))
  PROVE  \A n \in 0 .. Len(q) : f[n] \in Nat
<1>1. \A i \in 0 .. Len(q) : f[i] = IF i = 0 THEN 0 ELSE f[i - 1] + Part(q, s, i)
  BY DEF IsSum
<1>2. \A i \in 1 .. Len(q) : Part(q, s, i) \in Nat
  BY PartNat
<1> DEFINE S == {k \in Nat : k <= Len(q) => f[k] \in Nat}
<1>3. 0 \in S
  BY <1>1
<1>4. ASSUME NEW k \in Nat, k \in S PROVE k + 1 \in S
  <2> SUFFICES ASSUME k + 1 <= Len(q) PROVE f[k + 1] \in Nat
    OBVIOUS
  <2>1. f[k + 1] = f[k] + Part(q, s, k + 1)
    BY <1>1
  <2> QED  BY <1>2, <1>4, <2>1
<1> HIDE DEF S
<1>5. \A k \in Nat : k \in S
  BY <1>3, <1>4, NatSetInduction
<1> QED  BY <1>5 DEF S

(* A queue announces a number of bytes. *)
LEMMA AnnouncedNat ==
  ASSUME NEW Msgs, \A m \in Msgs : m.len \in Nat, NEW q \in Seq(Msgs), NEW s
  PROVE  Announced(q, s) \in Nat
<1>1. PICK f : IsSum(f, q, s, Len(q)) /\ Announced(q, s) = f[Len(q)]
  BY AnnouncedSum
<1> QED  BY <1>1, SumNat

(* A queue without events of a session announces nothing for it. *)
LEMMA AnnouncedNone ==
  ASSUME NEW Msgs, \A m \in Msgs : m.len \in Nat, NEW q \in Seq(Msgs), NEW s, \A i \in DOMAIN q : q[i].sock # s
  PROVE  Announced(q, s) = 0
<1> DEFINE n == Len(q)
           c == [i \in 1 .. n |-> 0]
           g == [i \in 0 .. n |-> 0]
<1>0. n \in Nat
  OBVIOUS
<1>1. PICK f : IsSum(f, q, s, Len(q)) /\ Announced(q, s) = f[Len(q)]
  BY AnnouncedSum
<1>2. Sums(f, c, n)
  <2>1. \A i \in 0 .. n : f[i] = IF i = 0 THEN 0 ELSE f[i - 1] + Part(q, s, i)
    BY <1>0, <1>1 DEF IsSum
  <2>2. \A i \in 1 .. n : Part(q, s, i) = 0
    BY DEF Part
  <2> QED  BY <1>0, <2>1, <2>2 DEF Sums
<1>3. Sums(g, c, n)
  BY <1>0 DEF Sums
<1>4. g[n] = 0
  BY <1>0
<1>5. f[n] = g[n]
  <2> HIDE DEF c, g, n
  <2> QED  BY <1>0, <1>2, <1>3, SumUnique
<1> QED  BY <1>1, <1>4, <1>5

(* An event that is pushed adds its length, for its session. *)
LEMMA AnnouncedAppend ==
  ASSUME NEW Msgs, \A m \in Msgs : m.len \in Nat, NEW q \in Seq(Msgs), NEW e \in Msgs, NEW s
  PROVE  Announced(Append(q, e), s) = Announced(q, s) + (IF e.sock = s THEN e.len ELSE 0)
<1> DEFINE w == Append(q, e)
           n == Len(q)
           c == [i \in 1 .. n |-> Part(q, s, i)]
<1>0. w \in Seq(Msgs) /\ n \in Nat /\ Len(w) = n + 1 /\ w[n + 1] = e
  OBVIOUS
<1>1. PICK f : IsSum(f, w, s, Len(w)) /\ Announced(w, s) = f[Len(w)]
  BY <1>0, AnnouncedSum
<1>2. PICK g : IsSum(g, q, s, Len(q)) /\ Announced(q, s) = g[Len(q)]
  BY AnnouncedSum
<1>3. Sums(f, c, n)
  <2>1. \A i \in 1 .. n : Part(w, s, i) = Part(q, s, i)
    BY DEF Part
  <2>2. \A i \in 0 .. n + 1 : f[i] = IF i = 0 THEN 0 ELSE f[i - 1] + Part(w, s, i)
    BY <1>0, <1>1 DEF IsSum
  <2> QED  BY <1>0, <2>1, <2>2 DEF Sums
<1>4. Sums(g, c, n)
  <2>1. \A i \in 0 .. n : g[i] = IF i = 0 THEN 0 ELSE g[i - 1] + Part(q, s, i)
    BY <1>0, <1>2 DEF IsSum
  <2> QED  BY <1>0, <2>1 DEF Sums
<1>5. f[n] = g[n]
  <2> HIDE DEF c, n
  <2> QED  BY <1>0, <1>3, <1>4, SumUnique
<1>6. f[n + 1] = f[n] + Part(w, s, n + 1)
  BY <1>0, <1>1 DEF IsSum
<1>7. Part(w, s, n + 1) = IF e.sock = s THEN e.len ELSE 0
  BY <1>0 DEF Part
<1> QED  BY <1>0, <1>1, <1>2, <1>5, <1>6, <1>7

(* An event that is taken had announced its length. *)
LEMMA AnnouncedTail ==
  ASSUME NEW Msgs, \A m \in Msgs : m.len \in Nat, NEW q \in Seq(Msgs), q # <<>>, NEW s
  PROVE  Announced(q, s) = Announced(Tail(q), s) + (IF Head(q).sock = s THEN Head(q).len ELSE 0)
<1> DEFINE w == Tail(q)
           n == Len(w)
           c == [i \in 1 .. n |-> Part(w, s, i)]
<1>0. w \in Seq(Msgs) /\ n \in Nat /\ Len(q) = n + 1 /\ Head(q) = q[1]
  OBVIOUS
<1>1. PICK f : IsSum(f, q, s, Len(q)) /\ Announced(q, s) = f[Len(q)]
  BY AnnouncedSum
<1>2. PICK g : IsSum(g, w, s, Len(w)) /\ Announced(w, s) = g[Len(w)]
  BY <1>0, AnnouncedSum
<1> DEFINE h == [i \in 0 .. n |-> f[i + 1] - f[1]]
<1>a. \A i \in 0 .. n + 1 : f[i] \in Nat
  BY <1>0, <1>1, SumNat
<1>b. \A i \in 0 .. n + 1 : f[i] = IF i = 0 THEN 0 ELSE f[i - 1] + Part(q, s, i)
  BY <1>0, <1>1 DEF IsSum
<1>3. Sums(h, c, n)
  <2>1. h[0] = 0
    BY <1>0, <1>a
  <2>2. ASSUME NEW i \in 1 .. n PROVE h[i] = h[i - 1] + c[i]
    <3>1. Part(q, s, i + 1) = c[i] /\ c[i] \in Nat
      <4>1. Part(q, s, i + 1) = Part(w, s, i)
        BY <1>0 DEF Part
      <4> QED  BY <1>0, <4>1, PartNat
    <3>2. f[i + 1] = f[i] + Part(q, s, i + 1)
      BY <1>0, <1>b
    <3>3. h[i] = f[i + 1] - f[1] /\ h[i - 1] = f[i] - f[1] /\ {f[i + 1], f[i], f[1]} \subseteq Nat
      BY <1>0, <1>a
    <3> HIDE DEF h, c
    <3> QED  BY <3>1, <3>2, <3>3
  <2> QED  BY <2>1, <2>2 DEF Sums
<1>4. Sums(g, c, n)
  <2>1. \A i \in 0 .. n : g[i] = IF i = 0 THEN 0 ELSE g[i - 1] + Part(w, s, i)
    BY <1>0, <1>2 DEF IsSum
  <2> QED  BY <1>0, <2>1 DEF Sums
<1>5. h[n] = g[n]
  <2> HIDE DEF c, n, h
  <2> QED  BY <1>0, <1>3, <1>4, SumUnique
<1>6. f[1] = Part(q, s, 1) /\ f[1] \in Nat /\ f[n + 1] \in Nat /\ h[n] = f[n + 1] - f[1]
  <2>1. f[1] = f[0] + Part(q, s, 1) /\ f[0] = 0 /\ f[1] \in Nat /\ f[n + 1] \in Nat
    BY <1>0, <1>a, <1>b
  <2>2. Part(q, s, 1) \in Nat
    BY <1>0, PartNat
  <2> QED  BY <1>0, <2>1, <2>2
<1>7. Part(q, s, 1) = IF Head(q).sock = s THEN Head(q).len ELSE 0
  BY <1>0 DEF Part
<1>8. Announced(q, s) = f[n + 1] /\ Announced(Tail(q), s) = g[n]
  BY <1>0, <1>1, <1>2
<1> HIDE DEF h
<1> QED  BY <1>5, <1>6, <1>7, <1>8
=============================================================================
