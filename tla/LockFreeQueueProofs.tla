------------------------ MODULE LockFreeQueueProofs -------------------------
(***************************************************************************)
(* Theorems about LockFreeQueue, for any number of producers and           *)
(* consumers, any capacity and any number of pushes, and for each of the   *)
(* three templates: a node has one owner at a time, values are constructed *)
(* and destroyed in turn, no value is lost, and the queue is a queue.      *)
(***************************************************************************)
EXTENDS LockFreeQueue, SequenceTheorems, TLAPS

(* Division with remainder. *)
LEMMA Division ==
  ASSUME NEW i \in Nat, NEW n \in Nat \ {0}
  PROVE  i = n * (i \div n) + (i % n) /\ i \div n \in Nat /\ i % n \in 0 .. n - 1
OBVIOUS

(* The multiples of n closest to 0 are -n and n. *)
LEMMA SmallMultiple ==
  ASSUME NEW n \in Nat \ {0}, NEW k \in Int, -n < n * k, n * k < n
  PROVE  k = 0
<1>1. ASSUME k >= 1 PROVE FALSE
  <2>1. n * k >= n
    BY <1>1
  <2> QED BY <2>1
<1>2. ASSUME k <= -1 PROVE FALSE
  <2>1. n * k <= -n
    BY <1>2
  <2> QED BY <2>1
<1> QED BY <1>1, <1>2

(* What it means to be the node of a sequence number. *)
LEMMA SlotIs == \A i \in Nat : \E a \in Nat : i = Capacity * a + Slot(i)
BY Division, QueueAssumption DEF Slot

(* Every sequence number has a node. *)
LEMMA SlotRange == \A i \in Nat : Slot(i) \in 0 .. Capacity - 1
BY QueueAssumption DEF Slot

(* One lap later it has the same node. *)
LEMMA SlotNextLap == \A i \in Nat : Slot(i + Capacity) = Slot(i)
<1> SUFFICES ASSUME NEW i \in Nat PROVE Slot(i + Capacity) = Slot(i)
  OBVIOUS
<1>1. i + Capacity \in Nat
  BY QueueAssumption
<1>2. PICK a \in Nat : i = Capacity * a + Slot(i)
  BY SlotIs
<1>3. PICK b \in Nat : i + Capacity = Capacity * b + Slot(i + Capacity)
  BY SlotIs, <1>1
<1>4. Slot(i) \in 0 .. Capacity - 1 /\ Slot(i + Capacity) \in 0 .. Capacity - 1
  BY SlotRange, <1>1
<1>5. Capacity * (a + 1 - b) = Capacity * a + Capacity - Capacity * b
  BY QueueAssumption
<1>6. Capacity * (a + 1 - b) = Slot(i + Capacity) - Slot(i)
  <2> DEFINE x == Capacity * a
             y == Capacity * b
             r == Slot(i)
             s == Slot(i + Capacity)
  <2>1. x \in Int /\ y \in Int /\ r \in Int /\ s \in Int
    BY <1>4, QueueAssumption
  <2>2. i = x + r /\ i + Capacity = y + s
    BY <1>2, <1>3
  <2>3. Capacity * (a + 1 - b) = x + Capacity - y
    BY <1>5
  <2> HIDE DEF x, y, r, s
  <2>4. x + Capacity - y = s - r
    BY <2>1, <2>2, QueueAssumption
  <2> QED BY <2>3, <2>4 DEF r, s
<1>7. a + 1 - b = 0
  BY <1>4, <1>6, SmallMultiple, QueueAssumption
<1>8. Capacity * (a + 1 - b) = 0
  BY <1>7, QueueAssumption
<1> QED BY <1>4, <1>6, <1>8

(* Within one lap different numbers have different nodes. *)
LEMMA SlotsDiffer ==
  \A i, j \in Nat : i # j /\ i < j + Capacity /\ j < i + Capacity => Slot(i) # Slot(j)
<1> SUFFICES ASSUME NEW i \in Nat, NEW j \in Nat, Slot(i) = Slot(j),
                    i < j + Capacity, j < i + Capacity
             PROVE  i = j
  OBVIOUS
<1>1. PICK a \in Nat : i = Capacity * a + Slot(i)
  BY SlotIs
<1>2. PICK b \in Nat : j = Capacity * b + Slot(j)
  BY SlotIs
<1>3. Capacity * (a - b) = Capacity * a - Capacity * b
  BY QueueAssumption
<1>4. Capacity * (a - b) = i - j
  <2>1. Capacity * a \in Int /\ Capacity * b \in Int
    BY QueueAssumption
  <2>2. Slot(i) \in Int
    BY SlotRange, QueueAssumption
  <2> QED BY <2>1, <2>2, <1>1, <1>2, <1>3
<1>5. a - b = 0
  BY <1>4, SmallMultiple, QueueAssumption
<1> QED BY <1>1, <1>2, <1>5

-----------------------------------------------------------------------------
(* The inductive invariant *)

At(seq) == node[Slot(seq)]

(* As many values as the tail counts, and no more than a lap between the two ends. *)
Counters == Len(claimed) = qTail /\ qHead <= qTail /\ qTail <= qHead + Capacity

ProducerInv(p) ==
  /\ prod[p].at # "idle" => prod[p].data \in Values
  /\ prod[p].at \in {"test", "claim"} =>
       prod[p].seq <= qTail /\ (MultiProducer \/ prod[p].seq = qTail)
  /\ prod[p].at = "claim" /\ prod[p].seq = qTail => At(qTail).tail = qTail
  /\ Filling(p) =>
       /\ qHead <= prod[p].seq /\ prod[p].seq < qTail
       /\ At(prod[p].seq).head < prod[p].seq
       /\ claimed[prod[p].seq + 1] = prod[p].data
       /\ At(prod[p].seq).data = IF prod[p].at = "fill" THEN Unused(prod[p].seq) ELSE prod[p].data

ConsumerInv(c) ==
  /\ cons[c].at \in {"test", "claim"} =>
       cons[c].seq <= qHead /\ (MultiConsumer \/ cons[c].seq = qHead)
  /\ cons[c].at = "claim" /\ cons[c].seq = qHead => At(qHead).head = qHead
  /\ Emptying(c) =>
       /\ cons[c].seq < qHead /\ qTail <= cons[c].seq + Capacity
       /\ At(cons[c].seq).tail = cons[c].seq
       /\ At(cons[c].seq).head = cons[c].seq
       /\ At(cons[c].seq).data =
            IF cons[c].at = "release" THEN NoValue ELSE claimed[cons[c].seq + 1]

(* Two threads never hold the same sequence number. *)
ClaimsDiffer ==
  /\ \A p, q \in Producers :
       Filling(p) /\ Filling(q) /\ p # q => prod[p].seq # prod[q].seq
  /\ \A c, d \in Consumers :
       Emptying(c) /\ Emptying(d) /\ c # d => cons[c].seq # cons[d].seq

(* A node between the head and the tail holds its value or has a producer at work on it. *)
ClaimedNode(q) ==
  /\ At(q).tail = q
  /\ \/ At(q).head = q /\ At(q).data = claimed[q + 1]
     \/ \E p \in Producers : Filling(p) /\ prod[p].seq = q

(* A node of the next lap is empty or has a consumer of the last lap at work on it. *)
FreeNode(q) ==
  /\ At(q).head < q
  /\ \/ At(q).tail = q /\ At(q).data = Unused(q)
     \/ \E c \in Consumers : Emptying(c) /\ cons[c].seq + Capacity = q

NodesInv ==
  /\ \A q \in Nat : qHead <= q /\ q < qTail => ClaimedNode(q)
  /\ \A q \in Nat : qTail <= q /\ q < qHead + Capacity => FreeNode(q)

Inv ==
  /\ TypeOK /\ Counters /\ ClaimsDiffer /\ NodesInv
  /\ \A p \in Producers : ProducerInv(p)
  /\ \A c \in Consumers : ConsumerInv(c)

-----------------------------------------------------------------------------
(* It holds initially: every node is free for the first lap. *)
LEMMA InitInv == Init => Inv
<1> SUFFICES ASSUME Init PROVE Inv
  OBVIOUS
<1>1. TypeOK
  BY QueueAssumption DEF Init, TypeOK
<1>2. Counters
  BY QueueAssumption DEF Init, Counters
<1>3. ClaimsDiffer
  BY DEF Init, ClaimsDiffer, Filling, Emptying
<1>4. ASSUME NEW p \in Producers PROVE ProducerInv(p)
  BY DEF Init, ProducerInv, Filling
<1>5. ASSUME NEW c \in Consumers PROVE ConsumerInv(c)
  BY DEF Init, ConsumerInv, Emptying
<1>6. NodesInv
  <2>1. ASSUME NEW q \in Nat, q < Capacity PROVE FreeNode(q)
    <3>1. Slot(q) = q
      BY <2>1, QueueAssumption DEF Slot
    <3> QED BY <2>1, <3>1, QueueAssumption DEF Init, FreeNode, At, Unused
  <2> QED BY <2>1, QueueAssumption DEF Init, NodesInv
<1> QED BY <1>1, <1>2, <1>3, <1>4, <1>5, <1>6 DEF Inv

(* A step of a producer that holds no node before or after it. *)
LEMMA QuietPush ==
  ASSUME NEW p \in Producers, Inv, TypeOK', UNCHANGED <<node, qTail, qHead, cons, claimed>>,
         \A q \in Producers \ {p} : prod'[q] = prod[q],
         ~ Filling(p), ~ Filling(p)', ProducerInv(p)'
  PROVE  Inv'
<1>1. Counters'
  BY DEF Inv, Counters
<1>2. \A q \in Producers : Filling(q)' <=> Filling(q)
  BY DEF Filling
<1>3. \A q \in Producers : Filling(q) => prod'[q] = prod[q]
  BY DEF Filling
<1>4. \A c \in Consumers : Emptying(c)' <=> Emptying(c)
  BY DEF Emptying
<1>5. ClaimsDiffer'
  BY <1>2, <1>3, <1>4 DEF Inv, ClaimsDiffer
<1>6. ASSUME NEW q \in Producers PROVE ProducerInv(q)'
  <2>1. CASE q = p
    BY <2>1
  <2>2. CASE q # p
    BY <2>2 DEF Inv, ProducerInv, Filling, At, Slot
  <2> QED BY <2>1, <2>2
<1>7. ASSUME NEW c \in Consumers PROVE ConsumerInv(c)'
  BY DEF Inv, ConsumerInv, Emptying, At, Slot
<1>8. NodesInv'
  <2>1. ASSUME NEW q \in Nat, ClaimedNode(q) PROVE ClaimedNode(q)'
    BY <2>1, <1>2, <1>3 DEF ClaimedNode, At, Slot
  <2>2. ASSUME NEW q \in Nat, FreeNode(q) PROVE FreeNode(q)'
    BY <2>2, <1>4 DEF FreeNode, At, Slot
  <2> QED BY <2>1, <2>2 DEF Inv, NodesInv
<1> QED BY <1>1, <1>5, <1>6, <1>7, <1>8 DEF Inv

(* A step of a consumer that holds no node before or after it. *)
LEMMA QuietPop ==
  ASSUME NEW c \in Consumers, Inv, TypeOK', UNCHANGED <<node, qTail, qHead, prod, claimed>>,
         \A d \in Consumers \ {c} : cons'[d] = cons[d],
         ~ Emptying(c), ~ Emptying(c)', ConsumerInv(c)'
  PROVE  Inv'
<1>1. Counters'
  BY DEF Inv, Counters
<1>2. \A d \in Consumers : Emptying(d)' <=> Emptying(d)
  BY DEF Emptying
<1>3. \A d \in Consumers : Emptying(d) => cons'[d] = cons[d]
  BY DEF Emptying
<1>4. \A p \in Producers : Filling(p)' <=> Filling(p)
  BY DEF Filling
<1>5. ClaimsDiffer'
  BY <1>2, <1>3, <1>4 DEF Inv, ClaimsDiffer
<1>6. ASSUME NEW p \in Producers PROVE ProducerInv(p)'
  BY DEF Inv, ProducerInv, Filling, At, Slot
<1>7. ASSUME NEW d \in Consumers PROVE ConsumerInv(d)'
  <2>1. CASE d = c
    BY <2>1
  <2>2. CASE d # c
    BY <2>2 DEF Inv, ConsumerInv, Emptying, At, Slot
  <2> QED BY <2>1, <2>2
<1>8. NodesInv'
  <2>1. ASSUME NEW q \in Nat, ClaimedNode(q) PROVE ClaimedNode(q)'
    BY <2>1, <1>4 DEF ClaimedNode, At, Slot
  <2>2. ASSUME NEW q \in Nat, FreeNode(q) PROVE FreeNode(q)'
    BY <2>2, <1>2, <1>3 DEF FreeNode, At, Slot
  <2> QED BY <2>1, <2>2 DEF Inv, NodesInv
<1> QED BY <1>1, <1>5, <1>6, <1>7, <1>8 DEF Inv

-----------------------------------------------------------------------------
(* push loads the tail. *)
LEMMA PushBeginInv ==
  ASSUME NEW p \in Producers, NEW v \in Values, Inv, PushBegin(p, v)
  PROVE  Inv'
<1>1. TypeOK'
  BY DEF Inv, TypeOK, PushBegin
<1>2. /\ prod'[p] = [at |-> "test", seq |-> qTail, data |-> v]
      /\ \A q \in Producers \ {p} : prod'[q] = prod[q]
  BY DEF Inv, TypeOK, PushBegin
<1>3. ProducerInv(p)'
  BY <1>2 DEF ProducerInv, Filling, PushBegin, Inv, TypeOK
<1>4. ~ Filling(p) /\ ~ Filling(p)'
  BY <1>2 DEF Filling, PushBegin
<1> QED BY <1>1, <1>2, <1>3, <1>4, QuietPush DEF PushBegin

(* A refused push holds nothing. *)
LEMMA PushRefusedInv ==
  ASSUME NEW p \in Producers, Inv, PushRefused(p)
  PROVE  Inv'
<1>1. TypeOK'
  BY DEF Inv, TypeOK, PushRefused
<1>2. prod'[p].at = "idle" /\ \A q \in Producers \ {p} : prod'[q] = prod[q]
  BY DEF Inv, TypeOK, PushRefused
<1>3. ProducerInv(p)'
  BY <1>2 DEF ProducerInv, Filling
<1>4. ~ Filling(p) /\ ~ Filling(p)'
  BY <1>2 DEF Filling, PushRefused
<1> QED BY <1>1, <1>2, <1>3, <1>4, QuietPush DEF PushRefused

(* The test sees the node free for the number loaded. *)
LEMMA PushTestInv ==
  ASSUME NEW p \in Producers, Inv, PushTest(p)
  PROVE  Inv'
<1> TypeOK /\ p \in Producers
  BY DEF Inv
<1>1. TypeOK'
  <2>1. prod' = [prod EXCEPT ![p] = [prod[p] EXCEPT !.at = "claim"]]
    BY DEF TypeOK, PushTest
  <2>2. UNCHANGED <<node, qTail, qHead, cons, claimed>>
    BY DEF PushTest
  <2> QED BY <2>1, <2>2 DEF TypeOK
<1>2. prod'[p] = [prod[p] EXCEPT !.at = "claim"] /\ \A q \in Producers \ {p} : prod'[q] = prod[q]
  BY DEF Inv, TypeOK, PushTest
<1>3. /\ prod'[p].at = "claim" /\ prod'[p].seq = prod[p].seq /\ prod'[p].data = prod[p].data
      /\ prod[p].at = "test"
  BY <1>2 DEF Inv, TypeOK, PushTest
<1>4. ProducerInv(p)'
  BY <1>3 DEF Inv, ProducerInv, Filling, PushTest, At, Slot
<1>5. ~ Filling(p) /\ ~ Filling(p)'
  BY <1>3 DEF Filling
<1> QED BY <1>1, <1>2, <1>4, <1>5, QuietPush DEF PushTest

(* A producer that lost the race starts over from the current tail. *)
LEMMA PushLostRaceInv ==
  ASSUME NEW p \in Producers, Inv, PushLostRace(p)
  PROVE  Inv'
<1>1. TypeOK'
  BY DEF Inv, TypeOK, PushLostRace
<1>2. /\ prod'[p].at = "test" /\ prod'[p].seq = qTail /\ prod'[p].data = prod[p].data
      /\ prod[p].at = "claim"
      /\ \A q \in Producers \ {p} : prod'[q] = prod[q]
  BY DEF Inv, TypeOK, PushLostRace
<1>3. ProducerInv(p)'
  BY <1>2 DEF Inv, TypeOK, ProducerInv, Filling, PushLostRace
<1>4. ~ Filling(p) /\ ~ Filling(p)'
  BY <1>2 DEF Filling
<1> QED BY <1>1, <1>2, <1>3, <1>4, QuietPush DEF PushLostRace

(* pop loads the head. *)
LEMMA PopBeginInv ==
  ASSUME NEW c \in Consumers, Inv, PopBegin(c)
  PROVE  Inv'
<1>1. TypeOK'
  BY DEF Inv, TypeOK, PopBegin
<1>2. /\ cons'[c].at = "test" /\ cons'[c].seq = qHead
      /\ \A d \in Consumers \ {c} : cons'[d] = cons[d]
  BY DEF Inv, TypeOK, PopBegin
<1>3. ConsumerInv(c)'
  BY <1>2 DEF Inv, TypeOK, ConsumerInv, Emptying, PopBegin
<1>4. ~ Emptying(c) /\ ~ Emptying(c)'
  BY <1>2 DEF Emptying, PopBegin
<1> QED BY <1>1, <1>2, <1>3, <1>4, QuietPop DEF PopBegin

(* A refused pop holds nothing. *)
LEMMA PopRefusedInv ==
  ASSUME NEW c \in Consumers, Inv, PopRefused(c)
  PROVE  Inv'
<1>1. TypeOK'
  BY DEF Inv, TypeOK, PopRefused
<1>2. cons'[c].at = "idle" /\ \A d \in Consumers \ {c} : cons'[d] = cons[d]
  BY DEF Inv, TypeOK, PopRefused
<1>3. ConsumerInv(c)'
  BY <1>2 DEF ConsumerInv, Emptying
<1>4. ~ Emptying(c) /\ ~ Emptying(c)'
  BY <1>2 DEF Emptying, PopRefused
<1> QED BY <1>1, <1>2, <1>3, <1>4, QuietPop DEF PopRefused

(* The test sees the node filled for the number loaded. *)
LEMMA PopTestInv ==
  ASSUME NEW c \in Consumers, Inv, PopTest(c)
  PROVE  Inv'
<1>1. TypeOK'
  BY DEF Inv, TypeOK, PopTest
<1>2. /\ cons'[c].at = "claim" /\ cons'[c].seq = cons[c].seq
      /\ cons[c].at = "test"
      /\ \A d \in Consumers \ {c} : cons'[d] = cons[d]
  BY DEF Inv, TypeOK, PopTest
<1>3. ConsumerInv(c)'
  BY <1>2 DEF Inv, ConsumerInv, Emptying, PopTest, At, Slot
<1>4. ~ Emptying(c) /\ ~ Emptying(c)'
  BY <1>2 DEF Emptying
<1> QED BY <1>1, <1>2, <1>3, <1>4, QuietPop DEF PopTest

(* A consumer that lost the race starts over from the current head. *)
LEMMA PopLostRaceInv ==
  ASSUME NEW c \in Consumers, Inv, PopLostRace(c)
  PROVE  Inv'
<1>1. TypeOK'
  BY DEF Inv, TypeOK, PopLostRace
<1>2. /\ cons'[c].at = "test" /\ cons'[c].seq = qHead
      /\ cons[c].at = "claim"
      /\ \A d \in Consumers \ {c} : cons'[d] = cons[d]
  BY DEF Inv, TypeOK, PopLostRace
<1>3. ConsumerInv(c)'
  BY <1>2 DEF Inv, TypeOK, ConsumerInv, Emptying, PopLostRace
<1>4. ~ Emptying(c) /\ ~ Emptying(c)'
  BY <1>2 DEF Emptying
<1> QED BY <1>1, <1>2, <1>3, <1>4, QuietPop DEF PopLostRace

-----------------------------------------------------------------------------
(* The steps that take, work on and give back a node *)

(* The node the tail points to, when the producer that saw it free wins the race, is empty. *)
LEMMA ClaimedIsFree ==
  ASSUME NEW p \in Producers, Inv, PushClaim(p)
  PROVE  /\ prod[p].seq = qTail /\ qTail < qHead + Capacity
         /\ At(qTail).head < qTail /\ At(qTail).tail = qTail /\ At(qTail).data = Unused(qTail)
         /\ \A c \in Consumers : Emptying(c) => cons[c].seq + Capacity # qTail
<1>1. prod[p].at = "claim" /\ prod[p].seq = qTail /\ At(qTail).tail = qTail
  BY QueueAssumption DEF Inv, ProducerInv, PushClaim
<1>2. qTail \in Nat /\ qHead \in Nat /\ qHead <= qTail /\ qTail <= qHead + Capacity
  BY DEF Inv, TypeOK, Counters
<1>3. qTail # qHead + Capacity
  <2> SUFFICES ASSUME qTail = qHead + Capacity PROVE FALSE
    OBVIOUS
  <2>1. qHead < qTail
    BY <1>2, QueueAssumption
  <2>2. At(qHead).tail = qHead
    BY <1>2, <2>1 DEF Inv, NodesInv, ClaimedNode
  <2>3. Slot(qTail) = Slot(qHead)
    BY <1>2, SlotNextLap
  <2> QED BY <1>1, <1>2, <2>1, <2>2, <2>3 DEF At
<1>4. FreeNode(qTail)
  BY <1>2, <1>3, QueueAssumption DEF Inv, NodesInv
<1>5. ASSUME NEW c \in Consumers, Emptying(c), cons[c].seq + Capacity = qTail PROVE FALSE
  <2>1. cons[c].seq \in Nat
    BY DEF Inv, TypeOK
  <2>2. Slot(qTail) = Slot(cons[c].seq)
    BY <1>5, <2>1, SlotNextLap
  <2>3. At(cons[c].seq).tail = cons[c].seq
    BY <1>5 DEF Inv, ConsumerInv
  <2> QED BY <1>1, <1>5, <2>1, <2>2, <2>3, QueueAssumption DEF At
<1> QED BY <1>1, <1>2, <1>3, <1>4, <1>5, QueueAssumption DEF FreeNode

(* The claim adds the node at the tail to those with a producer. *)
LEMMA PushClaimInv ==
  ASSUME NEW p \in Producers, Inv, PushClaim(p)
  PROVE  Inv'
<1>1. TypeOK'
  <2>1. prod[p].data \in Values
    BY DEF Inv, ProducerInv, PushClaim
  <2> QED BY <2>1 DEF Inv, TypeOK, PushClaim
<1>2. /\ prod[p].at = "claim" /\ prod'[p].at = "fill"
      /\ prod'[p].seq = qTail /\ prod'[p].data = prod[p].data /\ prod[p].data \in Values
      /\ \A q \in Producers \ {p} : prod'[q] = prod[q]
  BY ClaimedIsFree DEF Inv, TypeOK, PushClaim, ProducerInv
<1>3. /\ qTail' = qTail + 1 /\ claimed' = Append(claimed, prod[p].data)
      /\ node' = node /\ qHead' = qHead /\ cons' = cons
  BY ClaimedIsFree DEF PushClaim
<1>4. qTail \in Nat /\ qHead \in Nat /\ Len(claimed) = qTail /\ claimed \in Seq(Values)
      /\ qHead <= qTail /\ qTail < qHead + Capacity
  BY ClaimedIsFree DEF Inv, TypeOK, Counters
<1>5. /\ Len(claimed') = qTail + 1
      /\ claimed'[qTail + 1] = prod[p].data
      /\ \A i \in 1 .. qTail : claimed'[i] = claimed[i]
  BY <1>2, <1>3, <1>4
<1>6. Counters'
  BY <1>3, <1>4, <1>5, QueueAssumption DEF Counters
<1>7. /\ ~ Filling(p) /\ Filling(p)'
      /\ \A q \in Producers \ {p} : Filling(q)' <=> Filling(q)
      /\ \A c \in Consumers : Emptying(c)' <=> Emptying(c)
  BY <1>2, <1>3 DEF Filling, Emptying
<1>8. \A q \in Producers : Filling(q) => prod[q].seq < qTail
  BY DEF Inv, ProducerInv
<1>9. ClaimsDiffer'
  <2>1. ASSUME NEW q \in Producers, NEW r \in Producers, Filling(q)', Filling(r)', q # r
        PROVE  prod'[q].seq # prod'[r].seq
    BY <2>1, <1>2, <1>4, <1>7, <1>8 DEF Inv, ClaimsDiffer
  <2>2. ASSUME NEW c \in Consumers, NEW d \in Consumers, Emptying(c)', Emptying(d)', c # d
        PROVE  cons'[c].seq # cons'[d].seq
    BY <2>2, <1>3, <1>7 DEF Inv, ClaimsDiffer
  <2> QED BY <2>1, <2>2 DEF ClaimsDiffer
<1>10. ASSUME NEW q \in Producers PROVE ProducerInv(q)'
  <2>1. CASE q = p
    BY <2>1, <1>2, <1>3, <1>4, <1>5, ClaimedIsFree DEF ProducerInv, Filling, At, Slot
  <2>2. CASE q # p
    <3>1. ProducerInv(q) /\ prod'[q] = prod[q] /\ prod[q].seq \in Nat
      BY <2>2, <1>2 DEF Inv, TypeOK
    <3>2. prod[q].at \in {"test", "claim"} => MultiProducer
      BY <2>2, QueueAssumption
    <3> QED BY <3>1, <3>2, <2>2, <1>3, <1>4, <1>5, <1>7 DEF ProducerInv, Filling, At, Slot
  <2> QED BY <2>1, <2>2
<1>11. ASSUME NEW c \in Consumers PROVE ConsumerInv(c)'
  <2>1. ConsumerInv(c) /\ cons[c].seq \in Nat
    BY DEF Inv, TypeOK
  <2>2. Emptying(c) => cons[c].seq + Capacity # qTail
    BY ClaimedIsFree
  <2>3. Emptying(c) => qTail + 1 <= cons[c].seq + Capacity /\ cons[c].seq + 1 \in 1 .. qTail
    BY <2>1, <2>2, <1>4, QueueAssumption DEF ConsumerInv
  <2>4. Emptying(c) => claimed'[cons[c].seq + 1] = claimed[cons[c].seq + 1]
    BY <2>3, <1>5
  <2> QED BY <2>1, <2>3, <2>4, <1>3, <1>7 DEF ConsumerInv, At, Slot
<1>12. NodesInv'
  <2>1. ASSUME NEW q \in Nat, qHead <= q, q < qTail + 1 PROVE ClaimedNode(q)'
    <3>1. CASE q = qTail
      BY <3>1, <1>2, <1>3, <1>7, ClaimedIsFree DEF ClaimedNode, At, Slot
    <3>2. CASE q < qTail
      <4>1. ClaimedNode(q)
        BY <3>2, <2>1 DEF Inv, NodesInv
      <4>2. q + 1 \in 1 .. qTail
        BY <3>2, <1>4
      <4> QED BY <4>1, <4>2, <1>2, <1>3, <1>5, <1>7 DEF ClaimedNode, At, Slot
    <3> QED BY <3>1, <3>2, <2>1, <1>4
  <2>2. ASSUME NEW q \in Nat, qTail + 1 <= q, q < qHead + Capacity PROVE FreeNode(q)'
    <3>1. FreeNode(q)
      BY <2>2, <1>4 DEF Inv, NodesInv
    <3> QED BY <3>1, <1>3, <1>7 DEF FreeNode, At, Slot
  <2> QED BY <2>1, <2>2, <1>3 DEF NodesInv
<1> QED BY <1>1, <1>6, <1>9, <1>10, <1>11, <1>12 DEF Inv

(* A producer's node differs from the nodes of all other threads that hold one. *)
LEMMA ProducerAlone ==
  ASSUME NEW p \in Producers, Inv, Filling(p)
  PROVE  /\ prod[p].seq \in Nat
         /\ \A q \in Producers : Filling(q) /\ q # p => Slot(prod[q].seq) # Slot(prod[p].seq)
         /\ \A c \in Consumers : Emptying(c) => Slot(cons[c].seq) # Slot(prod[p].seq)
         /\ \A q \in Nat : qHead <= q /\ q < qHead + Capacity /\ q # prod[p].seq =>
              Slot(q) # Slot(prod[p].seq)
<1>1. /\ \A q \in Producers : prod[q].seq \in Nat
      /\ \A c \in Consumers : cons[c].seq \in Nat
      /\ qTail \in Nat /\ qHead \in Nat /\ qHead <= qTail /\ qTail <= qHead + Capacity
  BY DEF Inv, TypeOK, Counters
<1>2. \A q \in Producers : Filling(q) => qHead <= prod[q].seq /\ prod[q].seq < qTail
  BY DEF Inv, ProducerInv
<1>3. \A c \in Consumers : Emptying(c) => cons[c].seq < qHead /\ qTail <= cons[c].seq + Capacity
  BY DEF Inv, ConsumerInv
<1>4. ASSUME NEW q \in Producers, Filling(q), q # p PROVE Slot(prod[q].seq) # Slot(prod[p].seq)
  <2>1. prod[q].seq # prod[p].seq
    BY <1>4 DEF Inv, ClaimsDiffer
  <2> QED BY <2>1, <1>1, <1>2, <1>4, SlotsDiffer, QueueAssumption
<1>5. ASSUME NEW c \in Consumers, Emptying(c) PROVE Slot(cons[c].seq) # Slot(prod[p].seq)
  BY <1>5, <1>1, <1>2, <1>3, SlotsDiffer, QueueAssumption
<1>6. ASSUME NEW q \in Nat, qHead <= q, q < qHead + Capacity, q # prod[p].seq
      PROVE  Slot(q) # Slot(prod[p].seq)
  BY <1>6, <1>1, <1>2, SlotsDiffer, QueueAssumption
<1> QED BY <1>1, <1>4, <1>5, <1>6

(* So does a consumer's, also from that of the next number to be claimed. *)
LEMMA ConsumerAlone ==
  ASSUME NEW c \in Consumers, Inv, Emptying(c)
  PROVE  /\ cons[c].seq \in Nat
         /\ \A d \in Consumers : Emptying(d) /\ d # c => Slot(cons[d].seq) # Slot(cons[c].seq)
         /\ \A p \in Producers : Filling(p) => Slot(prod[p].seq) # Slot(cons[c].seq)
         /\ \A q \in Nat : qHead <= q /\ q < qHead + Capacity /\ q # cons[c].seq + Capacity =>
              Slot(q) # Slot(cons[c].seq)
<1>1. /\ \A p \in Producers : prod[p].seq \in Nat
      /\ \A d \in Consumers : cons[d].seq \in Nat
      /\ qTail \in Nat /\ qHead \in Nat /\ qHead <= qTail /\ qTail <= qHead + Capacity
  BY DEF Inv, TypeOK, Counters
<1>2. \A d \in Consumers : Emptying(d) => cons[d].seq < qHead /\ qTail <= cons[d].seq + Capacity
  BY DEF Inv, ConsumerInv
<1>3. ASSUME NEW d \in Consumers, Emptying(d), d # c PROVE Slot(cons[d].seq) # Slot(cons[c].seq)
  <2>1. cons[d].seq # cons[c].seq
    BY <1>3 DEF Inv, ClaimsDiffer
  <2> QED BY <2>1, <1>1, <1>2, <1>3, SlotsDiffer, QueueAssumption
<1>4. ASSUME NEW p \in Producers, Filling(p) PROVE Slot(prod[p].seq) # Slot(cons[c].seq)
  BY <1>4, ProducerAlone
<1>5. ASSUME NEW q \in Nat, qHead <= q, q < qHead + Capacity, q # cons[c].seq + Capacity
      PROVE  Slot(q) # Slot(cons[c].seq)
  <2>1. cons[c].seq + Capacity \in Nat /\ Slot(cons[c].seq + Capacity) = Slot(cons[c].seq)
    BY <1>1, SlotNextLap, QueueAssumption
  <2>2. qHead <= cons[c].seq + Capacity /\ cons[c].seq + Capacity < qHead + Capacity
    BY <1>1, <1>2, QueueAssumption
  <2> QED BY <2>1, <2>2, <1>1, <1>5, SlotsDiffer, QueueAssumption
<1> QED BY <1>1, <1>3, <1>4, <1>5

(* The value is constructed in the producer's own node. *)
LEMMA PushFillInv ==
  ASSUME NEW p \in Producers, Inv, PushFill(p)
  PROVE  Inv'
<1>1. TypeOK'
  <2>1. prod[p].data \in Values
    BY DEF Inv, ProducerInv, PushFill
  <2>2. Slot(prod[p].seq) \in 0 .. Capacity - 1
    BY SlotRange DEF Inv, TypeOK
  <2>3. node' \in [0 .. Capacity - 1 ->
                     [data : Values \cup {NoValue, Blank}, tail : Nat, head : Nat \cup {-1}]]
    BY <2>1, <2>2 DEF Inv, TypeOK, PushFill
  <2>4. prod' = [prod EXCEPT ![p] = [prod[p] EXCEPT !.at = "publish"]]
        /\ UNCHANGED <<qTail, qHead, cons, claimed>>
    BY DEF PushFill
  <2> QED BY <2>3, <2>4 DEF Inv, TypeOK
<1>2. /\ Filling(p) /\ prod[p].at = "fill" /\ prod'[p].at = "publish"
      /\ prod'[p].seq = prod[p].seq /\ prod'[p].data = prod[p].data
      /\ \A q \in Producers \ {p} : prod'[q] = prod[q]
  BY DEF Inv, TypeOK, PushFill, Filling
<1>3. UNCHANGED <<qTail, qHead, cons, claimed>>
  BY DEF PushFill
<1>4. /\ prod[p].seq \in Nat
      /\ node'[Slot(prod[p].seq)].data = prod[p].data
      /\ \A q \in Nat : node'[Slot(q)].tail = node[Slot(q)].tail
                         /\ node'[Slot(q)].head = node[Slot(q)].head
      /\ \A q \in Nat : Slot(q) # Slot(prod[p].seq) => node'[Slot(q)] = node[Slot(q)]
  <2>1. node' = [node EXCEPT ![Slot(prod[p].seq)] =
                   [node[Slot(prod[p].seq)] EXCEPT !.data = prod[p].data]]
    BY DEF PushFill
  <2>2. \A q \in Nat : /\ Slot(q) \in DOMAIN node
                       /\ node[Slot(q)] \in
                            [data : Values \cup {NoValue, Blank}, tail : Nat, head : Nat \cup {-1}]
    BY SlotRange DEF Inv, TypeOK
  <2>3. prod[p].seq \in Nat
    BY DEF Inv, TypeOK
  <2> QED BY <2>1, <2>2, <2>3
<1>5. /\ \A q \in Producers : (Filling(q)' <=> Filling(q)) /\ prod'[q].seq = prod[q].seq
                              /\ prod[q].seq \in Nat
      /\ \A c \in Consumers : (Emptying(c)' <=> Emptying(c)) /\ cons[c].seq \in Nat
      /\ qTail \in Nat /\ qHead \in Nat /\ qHead <= qTail /\ qTail <= qHead + Capacity
  BY <1>2, <1>3 DEF Filling, Emptying, Inv, TypeOK, Counters
<1>6. Counters' /\ ClaimsDiffer'
  BY <1>3, <1>5 DEF Inv, Counters, ClaimsDiffer
<1>7. ASSUME NEW q \in Producers PROVE ProducerInv(q)'
  <2>1. CASE q = p
    BY <2>1, <1>2, <1>3, <1>4, <1>5 DEF Inv, ProducerInv, At
  <2>2. CASE q # p
    <3>1. ProducerInv(q) /\ prod'[q] = prod[q]
      BY <2>2, <1>2 DEF Inv
    <3>2. Filling(q) => At(prod[q].seq)' = At(prod[q].seq)
      BY <2>2, <3>1, <1>2, <1>4, <1>5, ProducerAlone DEF At
    <3>3. At(qTail)'.tail = At(qTail).tail
      BY <1>3, <1>4, <1>5 DEF At
    <3> QED BY <3>1, <3>2, <3>3, <1>3, <1>5 DEF ProducerInv
  <2> QED BY <2>1, <2>2
<1>8. ASSUME NEW c \in Consumers PROVE ConsumerInv(c)'
  <2>1. ConsumerInv(c)
    BY DEF Inv
  <2>2. Emptying(c) => At(cons[c].seq)' = At(cons[c].seq)
    BY <1>2, <1>3, <1>4, <1>5, ProducerAlone DEF At
  <2>3. At(qHead)'.head = At(qHead).head
    BY <1>3, <1>4, <1>5 DEF At
  <2> QED BY <2>1, <2>2, <2>3, <1>3, <1>5 DEF ConsumerInv
<1>9. NodesInv'
  <2>1. ASSUME NEW q \in Nat, qHead <= q, q < qTail PROVE ClaimedNode(q)'
    <3>1. ClaimedNode(q)
      BY <2>1 DEF Inv, NodesInv
    <3>2. CASE q = prod[p].seq
      BY <3>1, <3>2, <1>2, <1>4, <1>5 DEF ClaimedNode, At
    <3>3. CASE q # prod[p].seq
      <4>1. At(q)' = At(q)
        BY <2>1, <3>3, <1>2, <1>4, <1>5, ProducerAlone, QueueAssumption DEF At
      <4> QED BY <3>1, <4>1, <1>3, <1>5 DEF ClaimedNode
    <3> QED BY <3>2, <3>3
  <2>2. ASSUME NEW q \in Nat, qTail <= q, q < qHead + Capacity PROVE FreeNode(q)'
    <3>1. FreeNode(q)
      BY <2>2 DEF Inv, NodesInv
    <3>2. q # prod[p].seq
      BY <2>2, <1>2, <1>5 DEF Inv, ProducerInv
    <3>3. At(q)' = At(q)
      BY <2>2, <3>2, <1>2, <1>4, <1>5, ProducerAlone DEF At
    <3> QED BY <3>1, <3>3, <1>3, <1>5 DEF FreeNode
  <2> QED BY <2>1, <2>2, <1>3 DEF NodesInv
<1> QED BY <1>1, <1>6, <1>7, <1>8, <1>9 DEF Inv

(* The node is published: it now carries its own sequence number as its head. *)
LEMMA PushPublishInv ==
  ASSUME NEW p \in Producers, Inv, PushPublish(p)
  PROVE  Inv'
<1>1. TypeOK'
  <2>1. prod[p].seq \in Nat
    BY DEF Inv, TypeOK
  <2>2. Slot(prod[p].seq) \in 0 .. Capacity - 1
    BY SlotRange DEF Inv, TypeOK
  <2>3. node' \in [0 .. Capacity - 1 ->
                     [data : Values \cup {NoValue, Blank}, tail : Nat, head : Nat \cup {-1}]]
    BY <2>1, <2>2 DEF Inv, TypeOK, PushPublish
  <2>4. prod' = [prod EXCEPT ![p] = [prod[p] EXCEPT !.at = "idle"]]
        /\ UNCHANGED <<qTail, qHead, cons, claimed>>
    BY DEF PushPublish
  <2> QED BY <2>3, <2>4 DEF Inv, TypeOK
<1>2. /\ Filling(p) /\ prod[p].at = "publish" /\ prod'[p].at = "idle"
      /\ prod'[p].seq = prod[p].seq /\ prod'[p].data = prod[p].data
      /\ \A q \in Producers \ {p} : prod'[q] = prod[q]
  BY DEF Inv, TypeOK, PushPublish, Filling
<1>3. UNCHANGED <<qTail, qHead, cons, claimed>>
  BY DEF PushPublish
<1>4. /\ prod[p].seq \in Nat
      /\ node'[Slot(prod[p].seq)].head = prod[p].seq
      /\ \A q \in Nat : node'[Slot(q)].tail = node[Slot(q)].tail
                         /\ node'[Slot(q)].data = node[Slot(q)].data
      /\ \A q \in Nat : Slot(q) # Slot(prod[p].seq) => node'[Slot(q)] = node[Slot(q)]
  <2>1. node' = [node EXCEPT ![Slot(prod[p].seq)] =
                   [node[Slot(prod[p].seq)] EXCEPT !.head = prod[p].seq]]
    BY DEF PushPublish
  <2>2. \A q \in Nat : /\ Slot(q) \in DOMAIN node
                       /\ node[Slot(q)] \in
                            [data : Values \cup {NoValue, Blank}, tail : Nat, head : Nat \cup {-1}]
    BY SlotRange DEF Inv, TypeOK
  <2>3. prod[p].seq \in Nat
    BY DEF Inv, TypeOK
  <2> QED BY <2>1, <2>2, <2>3
<1>5. /\ \A q \in Producers : (Filling(q)' <=> Filling(q) /\ q # p) /\ prod'[q].seq = prod[q].seq
                              /\ prod[q].seq \in Nat
      /\ \A c \in Consumers : (Emptying(c)' <=> Emptying(c)) /\ cons[c].seq \in Nat
      /\ qTail \in Nat /\ qHead \in Nat /\ qHead <= qTail /\ qTail <= qHead + Capacity
  BY <1>2, <1>3 DEF Filling, Emptying, Inv, TypeOK, Counters
<1>6. Counters' /\ ClaimsDiffer'
  BY <1>3, <1>5 DEF Inv, Counters, ClaimsDiffer
<1>7. ASSUME NEW q \in Producers PROVE ProducerInv(q)'
  <2>1. CASE q = p
    BY <2>1, <1>2, <1>3, <1>4, <1>5 DEF Inv, ProducerInv, At
  <2>2. CASE q # p
    <3>1. ProducerInv(q) /\ prod'[q] = prod[q]
      BY <2>2, <1>2 DEF Inv
    <3>2. Filling(q) => At(prod[q].seq)' = At(prod[q].seq)
      BY <2>2, <3>1, <1>2, <1>4, <1>5, ProducerAlone DEF At
    <3>3. At(qTail)'.tail = At(qTail).tail
      BY <1>3, <1>4, <1>5 DEF At
    <3> QED BY <3>1, <3>2, <3>3, <1>3, <1>5 DEF ProducerInv
  <2> QED BY <2>1, <2>2
<1>8. ASSUME NEW c \in Consumers PROVE ConsumerInv(c)'
  <2>1. ConsumerInv(c)
    BY DEF Inv
  <2>2. Emptying(c) => At(cons[c].seq)' = At(cons[c].seq)
    BY <1>2, <1>3, <1>4, <1>5, ProducerAlone DEF At
  <2>3. At(qHead).head = qHead => At(qHead)'.head = qHead
    <3>1. CASE prod[p].seq = qHead
      BY <3>1, <1>3, <1>4 DEF At
    <3>2. CASE prod[p].seq # qHead
      <4>1. Slot(qHead) # Slot(prod[p].seq)
        BY <3>2, <1>2, <1>5, ProducerAlone, QueueAssumption
      <4> QED BY <4>1, <1>3, <1>4, <1>5 DEF At
    <3> QED BY <3>1, <3>2
  <2> QED BY <2>1, <2>2, <2>3, <1>3, <1>5 DEF ConsumerInv
<1>9. NodesInv'
  <2>1. ASSUME NEW q \in Nat, qHead <= q, q < qTail PROVE ClaimedNode(q)'
    <3>1. ClaimedNode(q)
      BY <2>1 DEF Inv, NodesInv
    <3>2. CASE q = prod[p].seq
      BY <3>1, <3>2, <1>2, <1>3, <1>4 DEF Inv, ProducerInv, ClaimedNode, At
    <3>3. CASE q # prod[p].seq
      <4>1. At(q)' = At(q)
        BY <2>1, <3>3, <1>2, <1>4, <1>5, ProducerAlone, QueueAssumption DEF At
      <4> QED BY <3>1, <3>3, <4>1, <1>2, <1>3, <1>5 DEF ClaimedNode
    <3> QED BY <3>2, <3>3
  <2>2. ASSUME NEW q \in Nat, qTail <= q, q < qHead + Capacity PROVE FreeNode(q)'
    <3>1. FreeNode(q)
      BY <2>2 DEF Inv, NodesInv
    <3>2. q # prod[p].seq
      BY <2>2, <1>2, <1>5 DEF Inv, ProducerInv
    <3>3. At(q)' = At(q)
      BY <2>2, <3>2, <1>2, <1>4, <1>5, ProducerAlone DEF At
    <3> QED BY <3>1, <3>3, <1>3, <1>5 DEF FreeNode
  <2> QED BY <2>1, <2>2, <1>3 DEF NodesInv
<1> QED BY <1>1, <1>6, <1>7, <1>8, <1>9 DEF Inv

(* The node the head points to, when the consumer that saw it filled wins the race, still holds *)
(* the value claimed for it.                                                                    *)
LEMMA ClaimedIsFilled ==
  ASSUME NEW c \in Consumers, Inv, PopClaim(c)
  PROVE  /\ cons[c].seq = qHead /\ qHead < qTail
         /\ At(qHead).head = qHead /\ At(qHead).tail = qHead /\ At(qHead).data = claimed[qHead + 1]
         /\ \A p \in Producers : Filling(p) => prod[p].seq # qHead
<1>1. cons[c].at = "claim" /\ cons[c].seq = qHead /\ At(qHead).head = qHead
  BY QueueAssumption DEF Inv, ConsumerInv, PopClaim
<1>2. qTail \in Nat /\ qHead \in Nat /\ qHead <= qTail /\ qTail <= qHead + Capacity
  BY DEF Inv, TypeOK, Counters
<1>3. qHead # qTail
  <2> SUFFICES ASSUME qHead = qTail PROVE FALSE
    OBVIOUS
  <2>1. FreeNode(qHead)
    BY <1>2, QueueAssumption DEF Inv, NodesInv
  <2> QED BY <2>1, <1>1, <1>2 DEF FreeNode
<1>4. ClaimedNode(qHead)
  BY <1>2, <1>3 DEF Inv, NodesInv
<1>5. ASSUME NEW p \in Producers, Filling(p), prod[p].seq = qHead PROVE FALSE
  BY <1>1, <1>2, <1>5 DEF Inv, ProducerInv
<1> QED BY <1>1, <1>2, <1>3, <1>4, <1>5 DEF ClaimedNode

(* The claim turns the node at the head into one of the next lap. *)
LEMMA PopClaimInv ==
  ASSUME NEW c \in Consumers, Inv, PopClaim(c)
  PROVE  Inv'
<1>1. /\ cons[c].at = "claim" /\ cons'[c].at \in {"recheck", "take"} /\ cons'[c].seq = qHead
      /\ \A d \in Consumers \ {c} : cons'[d] = cons[d]
  BY ClaimedIsFilled DEF Inv, TypeOK, PopClaim, AfterClaim
<1>2. qHead' = qHead + 1 /\ UNCHANGED <<node, qTail, prod, claimed>>
  BY ClaimedIsFilled DEF PopClaim
<1>3. TypeOK'
  <2>1. cons' = [cons EXCEPT ![c] = [cons[c] EXCEPT !.at = AfterClaim]]
    BY DEF PopClaim
  <2>2. AfterClaim \in {"recheck", "take"}
    BY DEF AfterClaim
  <2>3. cons' \in [Consumers -> [at : {"idle", "test", "claim", "recheck", "take", "release"},
                                seq : Nat, result : Values \cup {NoValue, Blank}]]
    BY <2>1, <2>2 DEF Inv, TypeOK
  <2>4. qHead' \in Nat
    BY <1>2 DEF Inv, TypeOK
  <2> QED BY <2>3, <2>4, <1>2 DEF Inv, TypeOK
<1>4. qTail \in Nat /\ qHead \in Nat /\ qHead < qTail /\ qTail <= qHead + Capacity
      /\ Len(claimed) = qTail
  BY ClaimedIsFilled DEF Inv, TypeOK, Counters
<1>5. Counters'
  BY <1>2, <1>4, QueueAssumption DEF Counters
<1>6. /\ ~ Emptying(c) /\ Emptying(c)'
      /\ \A d \in Consumers \ {c} : Emptying(d)' <=> Emptying(d)
      /\ \A p \in Producers : Filling(p)' <=> Filling(p)
  BY <1>1, <1>2 DEF Filling, Emptying
<1>7. \A d \in Consumers : Emptying(d) => cons[d].seq < qHead
  BY DEF Inv, ConsumerInv
<1>8. ClaimsDiffer'
  <2>1. ASSUME NEW d \in Consumers, NEW e \in Consumers, Emptying(d)', Emptying(e)', d # e
        PROVE  cons'[d].seq # cons'[e].seq
    BY <2>1, <1>1, <1>4, <1>6, <1>7 DEF Inv, ClaimsDiffer
  <2>2. ASSUME NEW p \in Producers, NEW q \in Producers, Filling(p)', Filling(q)', p # q
        PROVE  prod'[p].seq # prod'[q].seq
    BY <2>2, <1>2, <1>6 DEF Inv, ClaimsDiffer
  <2> QED BY <2>1, <2>2 DEF ClaimsDiffer
<1>9. ASSUME NEW p \in Producers PROVE ProducerInv(p)'
  <2>1. ProducerInv(p) /\ prod[p].seq \in Nat
    BY DEF Inv, TypeOK
  <2>2. Filling(p) => prod[p].seq # qHead
    BY ClaimedIsFilled
  <2> QED BY <2>1, <2>2, <1>2, <1>4, <1>6 DEF ProducerInv, At
<1>10. ASSUME NEW d \in Consumers PROVE ConsumerInv(d)'
  <2>1. CASE d = c
    BY <2>1, <1>1, <1>2, <1>4, ClaimedIsFilled DEF ConsumerInv, Emptying, At
  <2>2. CASE d # c
    <3>1. ConsumerInv(d) /\ cons'[d] = cons[d] /\ cons[d].seq \in Nat
      BY <2>2, <1>1 DEF Inv, TypeOK
    <3>2. cons[d].at \in {"test", "claim"} => MultiConsumer
      BY <2>2, QueueAssumption
    <3> QED BY <3>1, <3>2, <2>2, <1>2, <1>4, <1>6 DEF ConsumerInv, At
  <2> QED BY <2>1, <2>2
<1>11. NodesInv'
  <2>1. ASSUME NEW q \in Nat, qHead + 1 <= q, q < qTail PROVE ClaimedNode(q)'
    <3>1. ClaimedNode(q)
      BY <2>1, <1>4 DEF Inv, NodesInv
    <3> QED BY <3>1, <1>2, <1>6 DEF ClaimedNode, At
  <2>2. ASSUME NEW q \in Nat, qTail <= q, q < qHead + 1 + Capacity PROVE FreeNode(q)'
    <3>1. CASE q = qHead + Capacity
      <4>1. Slot(q) = Slot(qHead)
        BY <3>1, <1>4, SlotNextLap
      <4>2. At(q)'.head < q
        BY <4>1, <3>1, <1>2, <1>4, ClaimedIsFilled, QueueAssumption DEF At
      <4> QED BY <4>2, <3>1, <1>1, <1>6 DEF FreeNode
    <3>2. CASE q < qHead + Capacity
      <4>1. FreeNode(q)
        BY <2>2, <3>2 DEF Inv, NodesInv
      <4> QED BY <4>1, <1>1, <1>2, <1>6 DEF FreeNode, At
    <3> QED BY <3>1, <3>2, <2>2, <1>4, QueueAssumption
  <2> QED BY <2>1, <2>2, <1>2 DEF NodesInv
<1> QED BY <1>3, <1>5, <1>8, <1>9, <1>10, <1>11 DEF Inv

(* The second look finds what the first one saw. *)
LEMMA PopRecheckInv ==
  ASSUME NEW c \in Consumers, Inv, PopRecheck(c)
  PROVE  Inv'
<1>1. At(cons[c].seq).head = cons[c].seq
  BY DEF Inv, ConsumerInv, Emptying, PopRecheck
<1>2. cons' = [cons EXCEPT ![c] = [cons[c] EXCEPT !.at = "take"]]
      /\ UNCHANGED <<node, qTail, qHead, prod, claimed>>
  BY <1>1 DEF PopRecheck, At
<1>3. TypeOK'
  BY <1>2 DEF Inv, TypeOK
<1>4. /\ cons[c].at = "recheck" /\ cons'[c].at = "take" /\ cons'[c].seq = cons[c].seq
      /\ \A d \in Consumers \ {c} : cons'[d] = cons[d]
  BY <1>2 DEF Inv, TypeOK, PopRecheck
<1>5. /\ \A d \in Consumers : (Emptying(d)' <=> Emptying(d)) /\ cons'[d].seq = cons[d].seq
      /\ \A p \in Producers : Filling(p)' <=> Filling(p)
  BY <1>2, <1>4 DEF Filling, Emptying
<1>6. Counters' /\ ClaimsDiffer'
  BY <1>2, <1>5 DEF Inv, Counters, ClaimsDiffer
<1>7. ASSUME NEW p \in Producers PROVE ProducerInv(p)'
  BY <1>2, <1>5 DEF Inv, ProducerInv, At
<1>8. ASSUME NEW d \in Consumers PROVE ConsumerInv(d)'
  <2>1. ConsumerInv(d)
    BY DEF Inv
  <2>2. CASE d = c
    BY <2>1, <2>2, <1>2, <1>4 DEF ConsumerInv, Emptying, At
  <2>3. CASE d # c
    BY <2>1, <2>3, <1>2, <1>4, <1>5 DEF ConsumerInv, At
  <2> QED BY <2>2, <2>3
<1>9. NodesInv'
  BY <1>2, <1>5 DEF Inv, NodesInv, ClaimedNode, FreeNode, At
<1> QED BY <1>3, <1>6, <1>7, <1>8, <1>9 DEF Inv

(* The value leaves the consumer's own node. *)
LEMMA PopTakeInv ==
  ASSUME NEW c \in Consumers, Inv, PopTake(c)
  PROVE  Inv'
<1>1. /\ \A d \in Consumers : cons[d].seq \in Nat
      /\ qTail \in Nat /\ qHead \in Nat /\ qHead <= qTail /\ qTail <= qHead + Capacity
      /\ \A q \in Nat : /\ Slot(q) \in DOMAIN node
                        /\ node[Slot(q)] \in
                             [data : Values \cup {NoValue, Blank}, tail : Nat, head : Nat \cup {-1}]
  BY SlotRange DEF Inv, TypeOK, Counters
<1>2. /\ node' = [node EXCEPT ![Slot(cons[c].seq)] =
                     [node[Slot(cons[c].seq)] EXCEPT !.data = NoValue]]
      /\ UNCHANGED <<qTail, qHead, prod, claimed>>
  BY DEF PopTake
<1>3. /\ cons[c].at = "take" /\ cons'[c].at = "release" /\ cons'[c].seq = cons[c].seq
      /\ \A d \in Consumers \ {c} : cons'[d] = cons[d]
  BY DEF Inv, TypeOK, PopTake
<1>4. TypeOK'
  <2>1. node' \in [0 .. Capacity - 1 ->
                     [data : Values \cup {NoValue, Blank}, tail : Nat, head : Nat \cup {-1}]]
    BY <1>1, <1>2 DEF Inv, TypeOK
  <2>2. cons' = [cons EXCEPT ![c] = [cons[c] EXCEPT !.at = "release",
                                                    !.result = node[Slot(cons[c].seq)].data]]
    BY DEF PopTake
  <2>3. cons' \in [Consumers -> [at : {"idle", "test", "claim", "recheck", "take", "release"},
                                seq : Nat, result : Values \cup {NoValue, Blank}]]
    BY <2>2, <1>1 DEF Inv, TypeOK
  <2> QED BY <2>1, <2>3, <1>2 DEF Inv, TypeOK
<1>5. /\ node'[Slot(cons[c].seq)].data = NoValue
      /\ \A q \in Nat : node'[Slot(q)].tail = node[Slot(q)].tail
                         /\ node'[Slot(q)].head = node[Slot(q)].head
      /\ \A q \in Nat : Slot(q) # Slot(cons[c].seq) => node'[Slot(q)] = node[Slot(q)]
  BY <1>1, <1>2
<1>6. /\ Emptying(c)
      /\ \A d \in Consumers : (Emptying(d)' <=> Emptying(d)) /\ cons'[d].seq = cons[d].seq
      /\ \A p \in Producers : (Filling(p)' <=> Filling(p)) /\ prod[p].seq \in Nat
  BY <1>2, <1>3 DEF Filling, Emptying, Inv, TypeOK
<1>7. Counters' /\ ClaimsDiffer'
  BY <1>2, <1>6 DEF Inv, Counters, ClaimsDiffer
<1>8. ASSUME NEW p \in Producers PROVE ProducerInv(p)'
  <2>1. ProducerInv(p)
    BY DEF Inv
  <2>2. Filling(p) => At(prod[p].seq)' = At(prod[p].seq)
    BY <1>2, <1>5, <1>6, ConsumerAlone DEF At
  <2>3. At(qTail)'.tail = At(qTail).tail
    BY <1>1, <1>2, <1>5 DEF At
  <2> QED BY <2>1, <2>2, <2>3, <1>2, <1>6 DEF ProducerInv
<1>9. ASSUME NEW d \in Consumers PROVE ConsumerInv(d)'
  <2>1. ConsumerInv(d)
    BY DEF Inv
  <2>2. CASE d = c
    BY <2>1, <2>2, <1>1, <1>2, <1>3, <1>5, <1>6 DEF ConsumerInv, At
  <2>3. CASE d # c
    <3>1. Emptying(d) => At(cons[d].seq)' = At(cons[d].seq)
      BY <2>3, <1>1, <1>5, <1>6, ConsumerAlone DEF At
    <3>2. At(qHead)'.head = At(qHead).head
      BY <1>1, <1>2, <1>5 DEF At
    <3> QED BY <2>1, <2>3, <3>1, <3>2, <1>2, <1>3, <1>6 DEF ConsumerInv
  <2> QED BY <2>2, <2>3
<1>10. NodesInv'
  <2>1. ASSUME NEW q \in Nat, qHead <= q, q < qTail PROVE ClaimedNode(q)'
    <3>1. ClaimedNode(q)
      BY <2>1 DEF Inv, NodesInv
    <3>2. q # cons[c].seq + Capacity
      BY <2>1, <1>1, <1>6, QueueAssumption DEF Inv, ConsumerInv
    <3>3. At(q)' = At(q)
      BY <2>1, <3>2, <1>1, <1>5, <1>6, ConsumerAlone, QueueAssumption DEF At
    <3> QED BY <3>1, <3>3, <1>2, <1>6 DEF ClaimedNode
  <2>2. ASSUME NEW q \in Nat, qTail <= q, q < qHead + Capacity PROVE FreeNode(q)'
    <3>1. FreeNode(q)
      BY <2>2 DEF Inv, NodesInv
    <3>2. CASE q = cons[c].seq + Capacity
      BY <3>1, <3>2, <1>5, <1>6 DEF FreeNode, At
    <3>3. CASE q # cons[c].seq + Capacity
      <4>1. At(q)' = At(q)
        BY <2>2, <3>3, <1>1, <1>5, <1>6, ConsumerAlone, QueueAssumption DEF At
      <4> QED BY <3>1, <4>1, <1>6 DEF FreeNode
    <3> QED BY <3>2, <3>3
  <2> QED BY <2>1, <2>2, <1>2 DEF NodesInv
<1> QED BY <1>4, <1>7, <1>8, <1>9, <1>10 DEF Inv

(* The node is given back for the next lap. *)
LEMMA PopReleaseInv ==
  ASSUME NEW c \in Consumers, Inv, PopRelease(c)
  PROVE  Inv'
<1> DEFINE next == cons[c].seq + Capacity
<1>1. /\ \A d \in Consumers : cons[d].seq \in Nat
      /\ qTail \in Nat /\ qHead \in Nat /\ qHead <= qTail /\ qTail <= qHead + Capacity
      /\ \A q \in Nat : /\ Slot(q) \in DOMAIN node
                        /\ node[Slot(q)] \in
                             [data : Values \cup {NoValue, Blank}, tail : Nat, head : Nat \cup {-1}]
      /\ next \in Nat /\ Slot(next) = Slot(cons[c].seq)
  <2>1. /\ \A d \in Consumers : cons[d].seq \in Nat
        /\ qTail \in Nat /\ qHead \in Nat /\ qHead <= qTail /\ qTail <= qHead + Capacity
    BY DEF Inv, TypeOK, Counters
  <2>2. \A q \in Nat : /\ Slot(q) \in DOMAIN node
                       /\ node[Slot(q)] \in
                            [data : Values \cup {NoValue, Blank}, tail : Nat, head : Nat \cup {-1}]
    BY SlotRange DEF Inv, TypeOK
  <2>3. next \in Nat /\ Slot(next) = Slot(cons[c].seq)
    BY <2>1, SlotNextLap, QueueAssumption
  <2> QED BY <2>1, <2>2, <2>3
<1>2. /\ node' = [node EXCEPT ![Slot(cons[c].seq)] = [node[Slot(cons[c].seq)] EXCEPT !.tail = next]]
      /\ UNCHANGED <<qTail, qHead, prod, claimed>>
  BY DEF PopRelease
<1>3. /\ cons[c].at = "release" /\ cons'[c].at = "idle"
      /\ \A d \in Consumers : cons'[d].seq = cons[d].seq
      /\ \A d \in Consumers \ {c} : cons'[d] = cons[d]
  BY DEF Inv, TypeOK, PopRelease
<1>4. TypeOK'
  <2>1. node' \in [0 .. Capacity - 1 ->
                     [data : Values \cup {NoValue, Blank}, tail : Nat, head : Nat \cup {-1}]]
    BY <1>1, <1>2 DEF Inv, TypeOK
  <2>2. cons' = [cons EXCEPT ![c] = [cons[c] EXCEPT !.at = "idle"]]
    BY DEF PopRelease
  <2> QED BY <2>1, <2>2, <1>2 DEF Inv, TypeOK
<1>5. /\ node'[Slot(cons[c].seq)].tail = next
      /\ \A q \in Nat : node'[Slot(q)].data = node[Slot(q)].data
                         /\ node'[Slot(q)].head = node[Slot(q)].head
      /\ \A q \in Nat : Slot(q) # Slot(cons[c].seq) => node'[Slot(q)] = node[Slot(q)]
  BY <1>1, <1>2
<1> HIDE DEF next
<1>6. /\ Emptying(c)
      /\ \A d \in Consumers : Emptying(d)' <=> Emptying(d) /\ d # c
      /\ \A p \in Producers : (Filling(p)' <=> Filling(p)) /\ prod[p].seq \in Nat
  BY <1>2, <1>3 DEF Filling, Emptying, Inv, TypeOK
<1>7. /\ cons[c].seq < qHead /\ qTail <= next /\ next < qHead + Capacity
      /\ node[Slot(cons[c].seq)].head = cons[c].seq
      /\ node[Slot(cons[c].seq)].tail = cons[c].seq
      /\ node[Slot(cons[c].seq)].data = NoValue
  BY <1>1, <1>3, <1>6, QueueAssumption DEF Inv, ConsumerInv, At, next
<1>8. Counters' /\ ClaimsDiffer'
  BY <1>2, <1>3, <1>6 DEF Inv, Counters, ClaimsDiffer
<1>9. ASSUME NEW p \in Producers PROVE ProducerInv(p)'
  <2>1. ProducerInv(p)
    BY DEF Inv
  <2>2. Filling(p) => At(prod[p].seq)' = At(prod[p].seq)
    BY <1>2, <1>5, <1>6, ConsumerAlone DEF At
  <2>3. At(qTail).tail = qTail => At(qTail)'.tail = qTail
    <3>1. CASE Slot(qTail) = Slot(cons[c].seq)
      <4>1. ASSUME qTail # next PROVE FALSE
        <5>1. CASE qTail < qHead + Capacity
          BY <3>1, <4>1, <5>1, <1>1, <1>6, ConsumerAlone DEF next
        <5>2. CASE qTail = qHead + Capacity
          BY <5>2, <1>1, <1>7, QueueAssumption
        <5> QED BY <5>1, <5>2, <1>1, QueueAssumption
      <4> QED BY <3>1, <4>1, <1>2, <1>5 DEF At
    <3>2. CASE Slot(qTail) # Slot(cons[c].seq)
      BY <3>2, <1>1, <1>2, <1>5 DEF At
    <3> QED BY <3>1, <3>2
  <2> QED BY <2>1, <2>2, <2>3, <1>2, <1>6 DEF ProducerInv
<1>10. ASSUME NEW d \in Consumers PROVE ConsumerInv(d)'
  <2>1. ConsumerInv(d)
    BY DEF Inv
  <2>2. CASE d = c
    BY <2>2, <1>3, <1>6 DEF ConsumerInv
  <2>3. CASE d # c
    <3>1. Emptying(d) => At(cons[d].seq)' = At(cons[d].seq)
      BY <2>3, <1>1, <1>3, <1>5, <1>6, ConsumerAlone DEF At
    <3>2. At(qHead)'.head = At(qHead).head
      BY <1>1, <1>2, <1>5 DEF At
    <3> QED BY <2>1, <2>3, <3>1, <3>2, <1>2, <1>3, <1>6 DEF ConsumerInv
  <2> QED BY <2>2, <2>3
<1>11. NodesInv'
  <2>1. ASSUME NEW q \in Nat, qHead <= q, q < qTail PROVE ClaimedNode(q)'
    <3>1. ClaimedNode(q)
      BY <2>1 DEF Inv, NodesInv
    <3>2. q # next
      BY <2>1, <1>1, <1>7
    <3>3. At(q)' = At(q)
      BY <2>1, <3>2, <1>1, <1>5, <1>6, ConsumerAlone, QueueAssumption DEF At, next
    <3> QED BY <3>1, <3>3, <1>2, <1>6 DEF ClaimedNode
  <2>2. ASSUME NEW q \in Nat, qTail <= q, q < qHead + Capacity PROVE FreeNode(q)'
    <3>1. FreeNode(q)
      BY <2>2 DEF Inv, NodesInv
    <3>2. CASE q = next
      <4>1. At(q)'.tail = q /\ At(q)'.data = Unused(q)
        BY <3>2, <1>1, <1>5, <1>7, QueueAssumption DEF At, next, Unused
      <4>2. At(q)'.head < q
        BY <3>1, <3>2, <1>1, <1>5 DEF At, FreeNode
      <4> QED BY <4>1, <4>2 DEF FreeNode
    <3>3. CASE q # next
      <4>1. At(q)' = At(q)
        BY <2>2, <3>3, <1>1, <1>5, <1>6, ConsumerAlone, QueueAssumption DEF At, next
      <4>2. \A d \in Consumers : Emptying(d) /\ cons[d].seq + Capacity = q => d # c
        BY <3>3 DEF next
      <4> QED BY <3>1, <4>1, <4>2, <1>3, <1>6 DEF FreeNode
    <3> QED BY <3>2, <3>3
  <2> QED BY <2>1, <2>2, <1>2 DEF NodesInv
<1> QED BY <1>4, <1>8, <1>9, <1>10, <1>11 DEF Inv

(* Every step preserves it. *)
LEMMA NextInv == Inv /\ [Next]_vars => Inv'
<1> SUFFICES ASSUME Inv, [Next]_vars PROVE Inv'
  OBVIOUS
<1>1. ASSUME NEW p \in Producers, PushStep(p) PROVE Inv'
  BY <1>1, PushRefusedInv, PushTestInv, PushClaimInv, PushLostRaceInv, PushFillInv, PushPublishInv
  DEF PushStep
<1>2. ASSUME NEW p \in Producers, NEW v \in Values, PushBegin(p, v) PROVE Inv'
  BY <1>2, PushBeginInv
<1>3. ASSUME NEW c \in Consumers, PopStep(c) PROVE Inv'
  BY <1>3, PopRefusedInv, PopTestInv, PopClaimInv, PopLostRaceInv, PopRecheckInv, PopTakeInv,
     PopReleaseInv
  DEF PopStep
<1>4. ASSUME NEW c \in Consumers, PopBegin(c) PROVE Inv'
  BY <1>4, PopBeginInv
<1>5. CASE UNCHANGED vars
  BY <1>5 DEF vars, Inv, TypeOK, Counters, ClaimsDiffer, NodesInv, ClaimedNode, FreeNode, At,
              ProducerInv, ConsumerInv, Filling, Emptying
<1> QED BY <1>1, <1>2, <1>3, <1>4, <1>5 DEF Next

(* The invariant of every behaviour. *)
THEOREM InvariantHolds == Spec => []Inv
BY InitInv, NextInv, PTL DEF Spec

-----------------------------------------------------------------------------
(* TypeOK holds in every state. *)
THEOREM TypeCorrect == Spec => []TypeOK
<1>1. Inv => TypeOK
  BY DEF Inv
<1> QED BY <1>1, InvariantHolds, PTL

(* No two threads of any kind ever work on the same node. *)
THEOREM OwnersDiffer == Spec => []NodeHasOneOwner
<1>1. Inv => NodeHasOneOwner
  <2> SUFFICES ASSUME Inv PROVE NodeHasOneOwner
    OBVIOUS
  <2>1. ASSUME NEW p \in Producers, NEW q \in Producers, Filling(p), Filling(q), p # q
        PROVE  Slot(prod[p].seq) # Slot(prod[q].seq)
    BY <2>1, ProducerAlone
  <2>2. ASSUME NEW c \in Consumers, NEW d \in Consumers, Emptying(c), Emptying(d), c # d
        PROVE  Slot(cons[c].seq) # Slot(cons[d].seq)
    BY <2>2, ConsumerAlone
  <2>3. ASSUME NEW p \in Producers, NEW c \in Consumers, Filling(p), Emptying(c)
        PROVE  Slot(prod[p].seq) # Slot(cons[c].seq)
    BY <2>3, ConsumerAlone
  <2> QED BY <2>1, <2>2, <2>3 DEF NodeHasOneOwner
<1> QED BY <1>1, InvariantHolds, PTL

(* What a consumer is about to take is the value that was claimed for its number. *)
LEMMA TakesClaimed ==
  ASSUME NEW c \in Consumers, Inv, cons[c].at \in {"recheck", "take"}
  PROVE  /\ node[Slot(cons[c].seq)].head = cons[c].seq
         /\ node[Slot(cons[c].seq)].data = claimed[cons[c].seq + 1]
         /\ claimed[cons[c].seq + 1] \in Values
<1>1. Emptying(c) /\ ConsumerInv(c) /\ cons[c].seq \in Nat
  BY DEF Emptying, Inv, TypeOK
<1>2. cons[c].seq < qHead /\ At(cons[c].seq).head = cons[c].seq
      /\ At(cons[c].seq).data = claimed[cons[c].seq + 1]
  BY <1>1 DEF ConsumerInv
<1>3. cons[c].seq + 1 \in 1 .. Len(claimed) /\ claimed \in Seq(Values)
  BY <1>1, <1>2 DEF Inv, TypeOK, Counters
<1> QED BY <1>2, <1>3 DEF At

(* Each pushed value lives once, for any number of threads and any capacity: a push finds raw      *)
(* memory or, on the first lap, the object of the array, and a pop takes and destroys a pushed value. *)
THEOREM PushedAlwaysLiveOnce == Spec => []PushedLiveOnce
<1>1. Inv => PushedLiveOnce
  <2> SUFFICES ASSUME Inv PROVE PushedLiveOnce
    OBVIOUS
  <2>1. ASSUME NEW p \in Producers, prod[p].at = "fill"
        PROVE  node[Slot(prod[p].seq)].data = Unused(prod[p].seq)
    BY <2>1 DEF Inv, ProducerInv, Filling, At
  <2>2. ASSUME NEW c \in Consumers, cons[c].at = "take"
        PROVE  node[Slot(cons[c].seq)].data \in Values
    BY <2>2, TakesClaimed, QueueAssumption
  <2> QED BY <2>1, <2>2 DEF PushedLiveOnce
<1> QED BY <1>1, InvariantHolds, PTL

(* The branch of pop that would lose a value is dead. *)
THEOREM SecondLookNeverFails == Spec => []SecondLookPasses
<1>1. Inv => SecondLookPasses
  BY TakesClaimed DEF SecondLookPasses
<1> QED BY <1>1, InvariantHolds, PTL

(* The nodes are safe: owners, lifetimes and the second look together, for any number of threads *)
(* and any capacity (push and pop of include/lock_free_queue.hpp).                              *)
THEOREM NodesAlwaysSafe == Spec => []NodesSafe
<1>1. NodeHasOneOwner /\ PushedLiveOnce /\ SecondLookPasses => NodesSafe
  BY DEF NodesSafe
<1> QED BY <1>1, OwnersDiffer, PushedAlwaysLiveOnce, SecondLookNeverFails, PTL

(* A push is refused only for one of the three reasons. *)
THEOREM PushRefusals == Spec => RefusedPushHasReason
<1> DEFINE Reason(p) ==
      \/ qTail - qHead = Capacity
      \/ \E c \in Consumers : Emptying(c) /\ cons[c].seq = prod[p].seq - Capacity
      \/ MultiProducer /\ qTail > prod[p].seq
<1>1. ASSUME Inv, NEW p \in Producers, PushRefused(p) PROVE Reason(p)
  <2>1. /\ prod[p].at = "test" /\ At(prod[p].seq).tail # prod[p].seq
        /\ prod[p].seq <= qTail /\ (MultiProducer \/ prod[p].seq = qTail)
    BY <1>1 DEF PushRefused, At, Inv, ProducerInv
  <2>2. prod[p].seq \in Nat /\ qTail \in Nat /\ qHead \in Nat /\ qHead <= qTail
        /\ qTail <= qHead + Capacity /\ \A c \in Consumers : cons[c].seq \in Nat
    BY <1>1 DEF Inv, TypeOK, Counters
  <2>3. CASE prod[p].seq < qTail
    BY <2>1, <2>2, <2>3
  <2>4. CASE prod[p].seq = qTail /\ qTail < qHead + Capacity
    <3>1. FreeNode(qTail)
      BY <2>2, <2>4, <1>1 DEF Inv, NodesInv
    <3>2. PICK c \in Consumers : Emptying(c) /\ cons[c].seq + Capacity = qTail
      BY <3>1, <2>1, <2>4 DEF FreeNode
    <3> QED BY <3>2, <2>2, <2>4, QueueAssumption
  <2>5. CASE qTail = qHead + Capacity
    BY <2>2, <2>5, QueueAssumption
  <2> QED BY <2>1, <2>2, <2>3, <2>4, <2>5, QueueAssumption
<1>2. Inv /\ [Next]_vars => [\A p \in Producers : PushRefused(p) => Reason(p)]_vars
  BY <1>1
<1> QED BY <1>2, InvariantHolds, PTL DEF Spec, RefusedPushHasReason

(* A pop is refused only for one of the three reasons. *)
THEOREM PopRefusals == Spec => RefusedPopHasReason
<1> DEFINE Reason(c) ==
      \/ qHead = qTail
      \/ \E p \in Producers : Filling(p) /\ prod[p].seq = cons[c].seq
      \/ MultiConsumer /\ qHead > cons[c].seq
<1>1. ASSUME Inv, NEW c \in Consumers, PopRefused(c) PROVE Reason(c)
  <2>1. /\ cons[c].at = "test" /\ At(cons[c].seq).head # cons[c].seq
        /\ cons[c].seq <= qHead /\ (MultiConsumer \/ cons[c].seq = qHead)
    BY <1>1 DEF PopRefused, At, Inv, ConsumerInv
  <2>2. cons[c].seq \in Nat /\ qTail \in Nat /\ qHead \in Nat /\ qHead <= qTail
    BY <1>1 DEF Inv, TypeOK, Counters
  <2>3. CASE cons[c].seq < qHead
    BY <2>1, <2>2, <2>3
  <2>4. CASE cons[c].seq = qHead /\ qHead < qTail
    <3>1. ClaimedNode(qHead)
      BY <2>2, <2>4, <1>1 DEF Inv, NodesInv
    <3> QED BY <3>1, <2>1, <2>4 DEF ClaimedNode
  <2> QED BY <2>1, <2>2, <2>3, <2>4
<1>2. Inv /\ [Next]_vars => [\A c \in Consumers : PopRefused(c) => Reason(c)]_vars
  BY <1>1
<1> QED BY <1>2, InvariantHolds, PTL DEF Spec, RefusedPopHasReason

(* Every refusal of push and pop has its reason. *)
THEOREM RefusalsAlwaysHaveReason == Spec => RefusalsHaveReason
BY PushRefusals, PopRefusals DEF RefusalsHaveReason

-----------------------------------------------------------------------------
(* The refinement *)

abstract == <<Contents, Removed, Returned>>

(* A step that advances neither end and by which no consumer takes its value changes nothing the *)
(* abstract queue knows of.                                                                      *)
LEMMA QuietRefines ==
  ASSUME Inv, UNCHANGED <<qTail, qHead, claimed>>,
         \A c \in Consumers : /\ cons'[c].result = cons[c].result
                              /\ cons'[c].at \in {"recheck", "take"} <=>
                                   cons[c].at \in {"recheck", "take"}
                              /\ cons[c].at \in {"recheck", "take"} => cons'[c].seq = cons[c].seq
  PROVE  UNCHANGED abstract
<1>1. Contents' = Contents
  BY DEF Contents
<1>2. Removed' = Removed
  BY DEF Removed
<1>3. Returned' = Returned
  BY DEF Returned
<1> QED BY <1>1, <1>2, <1>3 DEF abstract

(* The claim of a push appends its value. *)
LEMMA PushClaimRefines ==
  ASSUME NEW p \in Producers, Inv, PushClaim(p)
  PROVE  \E v \in Values : Queue!Put(v)
<1> DEFINE v == prod[p].data
<1>1. v \in Values
  BY DEF Inv, ProducerInv, PushClaim
<1>2. /\ claimed' = Append(claimed, v) /\ qTail' = qTail + 1
      /\ UNCHANGED <<qHead, cons>>
  BY ClaimedIsFree DEF PushClaim
<1>3. /\ qTail \in Nat /\ qHead \in Nat /\ qHead <= qTail /\ qTail < qHead + Capacity
      /\ Len(claimed) = qTail /\ claimed \in Seq(Values)
  BY ClaimedIsFree DEF Inv, TypeOK, Counters
<1>4. /\ claimed' \in Seq(Values) /\ Len(claimed') = qTail + 1
      /\ \A i \in 1 .. qTail : claimed'[i] = claimed[i]
      /\ claimed'[qTail + 1] = v
  BY <1>1, <1>2, <1>3, AppendProperties
<1>5. /\ Contents \in Seq(Values) /\ Len(Contents) = qTail - qHead
      /\ \A i \in 1 .. qTail - qHead : Contents[i] = claimed[qHead + i]
  <2>1. \A i \in qHead + 1 .. qTail : claimed[i] \in Values
    BY <1>3
  <2>2. /\ Contents \in Seq(Values)
        /\ Len(Contents) = IF qHead + 1 <= qTail THEN qTail - (qHead + 1) + 1 ELSE 0
        /\ \A i \in 1 .. qTail - (qHead + 1) + 1 : Contents[i] = claimed[qHead + 1 + i - 1]
    BY <2>1, <1>3, SubSeqProperties DEF Contents
  <2>3. qTail - (qHead + 1) + 1 = qTail - qHead /\ (~ qHead + 1 <= qTail => qTail - qHead = 0)
    BY <1>3
  <2>4. \A i \in 1 .. qTail - qHead : qHead + 1 + i - 1 = qHead + i
    BY <1>3
  <2> QED BY <2>2, <2>3, <2>4
<1>6. /\ Contents' \in Seq(Values) /\ Len(Contents') = qTail + 1 - qHead
      /\ \A i \in 1 .. qTail + 1 - qHead : Contents'[i] = claimed'[qHead + i]
  <2>1. \A i \in qHead + 1 .. qTail + 1 : claimed'[i] \in Values
    BY <1>3, <1>4
  <2>2. Contents' = SubSeq(claimed', qHead + 1, qTail + 1)
    BY <1>2 DEF Contents
  <2>3. /\ Contents' \in Seq(Values)
        /\ Len(Contents') = IF qHead + 1 <= qTail + 1 THEN qTail + 1 - (qHead + 1) + 1 ELSE 0
        /\ \A i \in 1 .. qTail + 1 - (qHead + 1) + 1 : Contents'[i] = claimed'[qHead + 1 + i - 1]
    BY <2>1, <2>2, <1>3, SubSeqProperties
  <2> QED BY <2>3, <1>3
<1>7. Contents' = Append(Contents, v)
  <2>1. /\ Append(Contents, v) \in Seq(Values) /\ Len(Append(Contents, v)) = qTail - qHead + 1
        /\ \A i \in 1 .. qTail - qHead : Append(Contents, v)[i] = Contents[i]
        /\ Append(Contents, v)[qTail - qHead + 1] = v
    BY <1>1, <1>5, AppendProperties
  <2>2. ASSUME NEW i \in 1 .. qTail + 1 - qHead PROVE Contents'[i] = Append(Contents, v)[i]
    <3>1. CASE i \in 1 .. qTail - qHead
      <4>1. qHead + i \in 1 .. qTail
        BY <3>1, <1>3
      <4> QED BY <3>1, <4>1, <2>1, <1>4, <1>5, <1>6
    <3>2. CASE i = qTail - qHead + 1
      <4>1. qHead + i = qTail + 1
        BY <3>2, <1>3
      <4> QED BY <3>2, <4>1, <2>1, <1>4, <1>6
    <3>3. i \in 1 .. qTail - qHead \/ i = qTail - qHead + 1
      BY <1>3
    <3> QED BY <3>1, <3>2, <3>3
  <2>3. Len(Contents') = Len(Append(Contents, v))
    BY <1>3, <1>6, <2>1
  <2> QED BY <2>1, <2>2, <2>3, <1>6, SeqEqual
<1>8. Removed' = Removed
  <2>1. ASSUME NEW c \in Consumers, cons[c].at \in {"recheck", "take"}
        PROVE  claimed'[cons[c].seq + 1] = claimed[cons[c].seq + 1]
    <3>1. cons[c].seq \in Nat /\ cons[c].seq < qHead
      BY <2>1 DEF Inv, TypeOK, ConsumerInv, Emptying
    <3> QED BY <3>1, <1>3, <1>4
  <2> QED BY <2>1, <1>2 DEF Removed
<1>9. Returned' = Returned
  BY <1>2 DEF Returned
<1>10. Len(Contents) < Capacity
  BY <1>3, <1>5, QueueAssumption
<1>11. Queue!Put(v)
  BY <1>7, <1>8, <1>9, <1>10 DEF Queue!Put
<1> QED BY <1>1, <1>11

(* The claim of a pop removes the first value. *)
LEMMA PopClaimRefines ==
  ASSUME NEW c \in Consumers, Inv, PopClaim(c)
  PROVE  Queue!Get(c)
<1>1. /\ cons[c].at = "claim" /\ cons'[c].at \in {"recheck", "take"} /\ cons'[c].seq = qHead
      /\ cons'[c].result = cons[c].result
      /\ \A d \in Consumers \ {c} : cons'[d] = cons[d]
  BY ClaimedIsFilled DEF Inv, TypeOK, PopClaim, AfterClaim
<1>2. qHead' = qHead + 1 /\ UNCHANGED <<qTail, claimed>>
  BY ClaimedIsFilled DEF PopClaim
<1>3. /\ qTail \in Nat /\ qHead \in Nat /\ qHead < qTail
      /\ Len(claimed) = qTail /\ claimed \in Seq(Values)
  BY ClaimedIsFilled DEF Inv, TypeOK, Counters
<1>4. qHead + 1 \in 1 .. Len(claimed) /\ qTail \in qHead + 1 .. Len(claimed)
  BY <1>3
<1>5. Head(Contents) = claimed[qHead + 1] /\ Tail(Contents) = SubSeq(claimed, qHead + 1 + 1, qTail)
  BY <1>3, <1>4, HeadTailOfSubSeq DEF Contents
<1>6. Contents' = Tail(Contents)
  BY <1>2, <1>5 DEF Contents
<1>7. Contents # <<>>
  <2>1. \A i \in qHead + 1 .. qTail : claimed[i] \in Values
    BY <1>3
  <2>2. Len(Contents) = IF qHead + 1 <= qTail THEN qTail - (qHead + 1) + 1 ELSE 0
    BY <2>1, <1>3, SubSeqProperties DEF Contents
  <2> QED BY <2>2, <1>3
<1>8. Removed[c] = NoValue
  BY <1>1 DEF Removed
<1>9. Removed' = [Removed EXCEPT ![c] = Head(Contents)]
  BY <1>1, <1>2, <1>5 DEF Removed
<1>10. Returned' = Returned
  BY <1>1 DEF Returned
<1> QED BY <1>6, <1>7, <1>8, <1>9, <1>10 DEF Queue!Get

(* Copying the value out returns it. *)
LEMMA PopTakeRefines ==
  ASSUME NEW c \in Consumers, Inv, PopTake(c)
  PROVE  Queue!Return(c)
<1>1. /\ cons[c].at = "take" /\ cons'[c].at = "release"
      /\ cons'[c].result = node[Slot(cons[c].seq)].data
      /\ \A d \in Consumers \ {c} : cons'[d] = cons[d]
      /\ UNCHANGED <<qTail, qHead, claimed>>
  BY DEF Inv, TypeOK, PopTake
<1>2. Removed[c] = node[Slot(cons[c].seq)].data /\ Removed[c] \in Values
  BY <1>1, TakesClaimed DEF Removed
<1>3. Returned' = [Returned EXCEPT ![c] = Removed[c]]
  BY <1>1, <1>2 DEF Returned
<1>4. Removed' = [Removed EXCEPT ![c] = NoValue]
  BY <1>1 DEF Removed
<1>5. Contents' = Contents
  BY <1>1 DEF Contents
<1> QED BY <1>2, <1>3, <1>4, <1>5, QueueAssumption DEF Queue!Return

(* Every step is a step of the abstract queue or changes nothing of it. *)
LEMMA NextRefines == Inv /\ [Next]_vars => [Queue!Next]_abstract
<1> SUFFICES ASSUME Inv, [Next]_vars PROVE [Queue!Next]_abstract
  OBVIOUS
<1>1. ASSUME UNCHANGED <<qTail, qHead, claimed, cons>> PROVE UNCHANGED abstract
  BY <1>1, QuietRefines
<1>2. ASSUME NEW p \in Producers, PushStep(p) \/ \E v \in Values : PushBegin(p, v)
      PROVE  [Queue!Next]_abstract
  <2>1. CASE PushClaim(p)
    BY <2>1, PushClaimRefines DEF Queue!Next
  <2>2. CASE ~ PushClaim(p)
    <3>1. UNCHANGED <<qTail, qHead, claimed, cons>>
      BY <1>2, <2>2 DEF PushStep, PushBegin, PushRefused, PushTest, PushLostRace, PushFill,
                          PushPublish
    <3> QED BY <3>1, <1>1
  <2> QED BY <2>1, <2>2
<1>3. ASSUME NEW c \in Consumers, PopStep(c) \/ PopBegin(c)
      PROVE  [Queue!Next]_abstract
  <2>1. CASE PopClaim(c)
    BY <2>1, PopClaimRefines DEF Queue!Next
  <2>2. CASE PopTake(c)
    BY <2>2, PopTakeRefines DEF Queue!Next
  <2>3. CASE PopBegin(c) \/ PopRefused(c) \/ PopTest(c) \/ PopLostRace(c) \/ PopRelease(c)
    <3>1. /\ UNCHANGED <<qTail, qHead, claimed>>
          /\ cons'[c].result = cons[c].result
          /\ cons[c].at \notin {"recheck", "take"} /\ cons'[c].at \notin {"recheck", "take"}
          /\ \A d \in Consumers \ {c} : cons'[d] = cons[d]
      BY <2>3 DEF Inv, TypeOK, PopBegin, PopRefused, PopTest, PopLostRace, PopRelease
    <3>2. UNCHANGED abstract
      BY <3>1, QuietRefines
    <3> QED BY <3>2
  <2>4. CASE PopRecheck(c)
    <3>1. node[Slot(cons[c].seq)].head = cons[c].seq
      BY <2>4, TakesClaimed DEF PopRecheck
    <3>2. /\ UNCHANGED <<qTail, qHead, claimed>>
          /\ cons'[c].result = cons[c].result /\ cons'[c].seq = cons[c].seq
          /\ cons[c].at = "recheck" /\ cons'[c].at = "take"
          /\ \A d \in Consumers \ {c} : cons'[d] = cons[d]
      BY <2>4, <3>1 DEF Inv, TypeOK, PopRecheck
    <3>3. UNCHANGED abstract
      BY <3>2, QuietRefines
    <3> QED BY <3>3
  <2> QED BY <1>3, <2>1, <2>2, <2>3, <2>4 DEF PopStep
<1>4. CASE UNCHANGED vars
  BY <1>4, <1>1 DEF vars
<1> QED BY <1>2, <1>3, <1>4 DEF Next

(* A new queue is empty. *)
LEMMA InitRefines == Init => Queue!Init
<1> SUFFICES ASSUME Init PROVE Queue!Init
  OBVIOUS
<1>1. Contents = <<>>
  BY SubSeqEmpty DEF Init, Contents
<1>2. Removed = [c \in Consumers |-> NoValue]
  BY DEF Init, Removed
<1>3. Returned = [c \in Consumers |-> NoValue]
  BY DEF Init, Returned
<1> QED BY <1>1, <1>2, <1>3 DEF Queue!Init

(* The lock-free queue is a queue: for any number of threads every value pushed is removed once, *)
(* in the order in which the tail was advanced for it, and returned by the consumer that removed *)
(* it.                                                                                           *)
THEOREM FifoOrderHolds == Spec => FifoOrder
<1>1. Init => Queue!Init
  BY InitRefines
<1>2. Inv /\ [Next]_vars => [Queue!Next]_<<Contents, Removed, Returned>>
  BY NextRefines DEF abstract
<1> QED BY <1>1, <1>2, InvariantHolds, PTL DEF Spec, FifoOrder, Queue!Spec
=============================================================================
