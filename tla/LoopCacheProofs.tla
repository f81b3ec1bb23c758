-------------------------- MODULE LoopCacheProofs ---------------------------
(***************************************************************************)
(* Theorems about LoopCache: for every size, the two pointers stay inside  *)
(* the buffer, the two threads' areas stay apart, and the cache is a       *)
(* queue of bytes.                                                         *)
(***************************************************************************)
EXTENDS LoopCache, SequenceTheorems, TLAPS

(* The inductive invariant: where the pointers are, what each thread was promised, and what the *)
(* bytes already copied are.                                                                   *)
Inv == TypeOK /\ AreasHold /\ BytesInPlace

(* The part of TypeOK the arithmetic needs. *)
Positions == size \in Nat \ {0} /\ head \in 0 .. size - 1 /\ tail \in 0 .. size - 1

(* It follows from the types. *)
LEMMA TypePositions == TypeOK => Positions
BY CacheAssumption DEF TypeOK, Positions

(* Moving forward by less than the size stays inside the buffer. *)
LEMMA WrapRange ==
  ASSUME Positions, NEW from \in 0 .. size - 1, NEW i \in 0 .. size
  PROVE  Wrap(from, i) \in 0 .. size - 1
BY DEF Positions, Wrap

(* Moving without reaching the end. *)
LEMMA WrapShort ==
  ASSUME Positions, NEW from \in 0 .. size - 1, NEW i \in Nat, from + i < size
  PROVE  Wrap(from, i) = from + i
BY DEF Positions, Wrap

(* Moving in two stages. *)
LEMMA WrapWrap ==
  ASSUME Positions, NEW from \in 0 .. size - 1, NEW i \in Nat, NEW j \in Nat, i + j <= size
  PROVE  Wrap(Wrap(from, i), j) = Wrap(from, i + j)
BY DEF Positions, Wrap

(* Different distances lead to different places. *)
LEMMA WrapInjective ==
  ASSUME Positions, NEW from \in 0 .. size - 1,
         NEW i \in 0 .. size - 1, NEW j \in 0 .. size - 1, i # j
  PROVE  Wrap(from, i) # Wrap(from, j)
BY DEF Positions, Wrap

(* What the code computes as used is the distance from head to tail. *)
LEMMA UsedRange ==
  ASSUME Positions
  PROVE  Used \in 0 .. size - 1 /\ tail = Wrap(head, Used)
BY DEF Positions, Used, Dist, Wrap

(* Moving tail by n makes n bytes more used, *)
LEMMA UsedPushed ==
  ASSUME Positions, NEW n \in Nat, Used + n < size,
         size' = size, head' = head, tail' = Wrap(tail, n)
  PROVE  Used' = Used + n /\ Positions'
BY DEF Positions, Used, Dist, Wrap

(* and moving head by n makes n fewer. *)
LEMMA UsedPopped ==
  ASSUME Positions, NEW n \in Nat, n <= Used,
         size' = size, tail' = tail, head' = Wrap(head, n)
  PROVE  Used' = Used - n /\ Positions'
BY DEF Positions, Used, Dist, Wrap

(* Cutting an area to what is there. *)
LEMMA AreaBounds ==
  ASSUME Positions, NEW from \in 0 .. size - 1, NEW want \in Nat, NEW n \in Nat
  PROVE  /\ Contiguous(from, AtMost(want, n)) \in Nat
         /\ n < size => /\ Contiguous(from, AtMost(want, n)) <= n
                        /\ from + Contiguous(from, AtMost(want, n)) <= size
BY DEF Positions, Contiguous, AtMost

(* The state a new or renewed cache starts in. *)
Fresh ==
  /\ size \in Sizes /\ head = 0 /\ tail = 0 /\ buf \in [0 .. size - 1 -> Bytes]
  /\ prod = Idle /\ cons = Idle

(* It has the invariant. *)
LEMMA FreshInv == Fresh => Inv
<1> SUFFICES ASSUME Fresh PROVE Inv
  OBVIOUS
<1> USE DEF Fresh
<1>1. size \in Nat \ {0}
  BY CacheAssumption
<1>2. TypeOK
  BY <1>1 DEF TypeOK, Idle
<1>3. AreasHold
  BY <1>1 DEF AreasHold, Used, Dist, Idle
<1>4. BytesInPlace
  BY DEF BytesInPlace, Idle
<1> QED  BY <1>2, <1>3, <1>4 DEF Inv

(* Every size starts with the invariant. *)
LEMMA InitInv == Init => Inv
BY FreshInv DEF Init, Fresh

(* The calls that only decide: the areas they are given are theirs. *)
LEMMA BeginInv ==
  ASSUME Inv,
         \/ \E n \in Lens : PushData(n) \/ PopData(n) \/ CopyData(n)
         \/ \E want \in Wants : GetFree(want) \/ GetData(want)
  PROVE  Inv'
<1>a. TypeOK /\ AreasHold /\ BytesInPlace /\ Positions
  BY TypePositions DEF Inv
<1>b. Used \in 0 .. size - 1 /\ head \in 0 .. size - 1 /\ tail \in 0 .. size - 1 /\ size \in Nat
  BY <1>a, UsedRange DEF Positions
<1>c. UNCHANGED <<size, head, tail, buf>>
  BY DEF PushData, PopData, CopyData, GetFree, GetData
<1>d. Used' = Used
  BY <1>c DEF Used, Dist
<1>1. ASSUME NEW at \in {"copy", "fill"}, NEW limit \in Nat, Used + limit < size,
             at = "fill" => tail + limit <= size,
             prod.at = "idle", cons' = cons,
             prod' = [at |-> at, limit |-> limit, data |-> <<>>]
      PROVE  Inv'
  <2>1. TypeOK'
    BY <1>a, <1>c, <1>1 DEF TypeOK
  <2>2. AreasHold'
    BY <1>a, <1>c, <1>d, <1>1 DEF AreasHold
  <2>3. BytesInPlace'
    BY <1>a, <1>c, <1>1 DEF BytesInPlace, Wrap
  <2> QED  BY <2>1, <2>2, <2>3 DEF Inv
<1>2. ASSUME NEW at \in {"take", "copy", "use"}, NEW limit \in Nat, limit <= Used,
             at = "use" => head + limit <= size,
             cons.at = "idle", prod' = prod,
             cons' = [at |-> at, limit |-> limit, data |-> <<>>]
      PROVE  Inv'
  <2>1. TypeOK'
    BY <1>a, <1>c, <1>2 DEF TypeOK
  <2>2. AreasHold'
    BY <1>a, <1>c, <1>d, <1>2 DEF AreasHold
  <2>3. BytesInPlace'
    BY <1>a, <1>c, <1>2 DEF BytesInPlace, Wrap
  <2> QED  BY <2>1, <2>2, <2>3 DEF Inv
<1>3. ASSUME NEW n \in Lens, PushData(n)
      PROVE  Inv'
  <2>1. n \in Nat /\ Used + n < size
    BY <1>3, <1>b, CacheAssumption DEF PushData
  <2> QED  BY <1>1, <1>3, <2>1 DEF PushData
<1>4. ASSUME NEW n \in Lens, PopData(n) \/ CopyData(n)
      PROVE  Inv'
  <2>1. n \in Nat
    BY CacheAssumption
  <2> QED  BY <1>2, <1>4, <2>1 DEF PopData, CopyData
<1>5. ASSUME NEW want \in Wants, GetFree(want)
      PROVE  Inv'
  <2> DEFINE limit == Contiguous(tail, AtMost(want, FreeSize))
  <2>1. FreeSize \in Nat /\ FreeSize < size /\ Used + FreeSize < size
    BY <1>b DEF FreeSize
  <2>2. limit \in Nat /\ limit <= FreeSize /\ tail + limit <= size
    BY <1>a, <1>b, <2>1, AreaBounds, CacheAssumption
  <2>3. Used + limit < size
    BY <1>b, <2>1, <2>2
  <2> HIDE DEF limit
  <2>4. prod.at = "idle" /\ cons' = cons /\ prod' = [at |-> "fill", limit |-> limit, data |-> <<>>]
    BY <1>5 DEF GetFree, limit
  <2> QED  BY <1>1, <2>2, <2>3, <2>4
<1>6. ASSUME NEW want \in Wants, GetData(want)
      PROVE  Inv'
  <2> DEFINE limit == Contiguous(head, AtMost(want, Used))
  <2>1. limit \in Nat /\ limit <= Used /\ head + limit <= size
    BY <1>a, <1>b, AreaBounds, CacheAssumption
  <2> HIDE DEF limit
  <2>2. cons.at = "idle" /\ prod' = prod /\ cons' = [at |-> "use", limit |-> limit, data |-> <<>>]
    BY <1>6 DEF GetData, limit
  <2> QED  BY <1>2, <2>1, <2>2
<1> QED  BY <1>3, <1>4, <1>5, <1>6

(* The place the producer stores its next byte at, on either path. *)
Place == IF prod.at = "copy" THEN Wrap(tail, Len(prod.data)) ELSE tail + Len(prod.data)

(* Storing a byte leaves the bytes between the pointers alone. *)
LEMMA StoreByteInv ==
  ASSUME Inv, NEW v \in Bytes, StoreByte(v)
  PROVE  /\ Inv'
         /\ \A i \in 1 .. Used : buf'[Wrap(head, i - 1)] = buf[Wrap(head, i - 1)]
<1> DEFINE k == Len(prod.data)
<1>a. TypeOK /\ AreasHold /\ BytesInPlace /\ Positions
  BY TypePositions DEF Inv
<1>b. /\ Used \in 0 .. size - 1 /\ head \in 0 .. size - 1 /\ tail \in 0 .. size - 1 /\ size \in Nat \ {0}
      /\ tail = Wrap(head, Used)
  BY <1>a, UsedRange DEF Positions
<1>c. prod.data \in Seq(Bytes) /\ k \in Nat /\ prod.limit \in Nat
  BY <1>a DEF TypeOK
<1>d. k < prod.limit /\ Used + prod.limit < size
  BY <1>a DEF StoreByte, AreasHold
<1>i. k \in 0 .. size /\ \A i \in 0 .. size - 1 : i \in 0 .. size
  BY <1>b, <1>c, <1>d
<1>e. Place = Wrap(tail, k)
  <2>1. CASE prod.at = "copy"
    BY <2>1 DEF Place
  <2>2. CASE prod.at # "copy"
    <3>1. prod.at = "fill"
      BY <1>a, <2>2 DEF StoreByte, TypeOK
    <3>2. tail + k < size
      BY <1>a, <1>b, <1>c, <1>d, <3>1 DEF AreasHold
    <3>3. Wrap(tail, k) = tail + k
      BY <1>a, <1>b, <1>c, <3>2, WrapShort
    <3>4. Place = tail + k
      BY <2>2 DEF Place
    <3> QED  BY <3>3, <3>4
  <2> QED  BY <2>1, <2>2
<1>f. /\ buf' = [buf EXCEPT ![Wrap(tail, k)] = v]
      /\ prod' = [prod EXCEPT !.data = Append(prod.data, v)]
      /\ UNCHANGED <<size, head, tail, cons>>
  BY <1>e DEF StoreByte, Place
<1>g. Wrap(tail, k) \in 0 .. size - 1
  BY <1>a, <1>b, <1>i, WrapRange
<1>h. /\ Append(prod.data, v) \in Seq(Bytes) /\ Len(Append(prod.data, v)) = k + 1
      /\ \A i \in 1 .. k : Append(prod.data, v)[i] = prod.data[i]
      /\ Append(prod.data, v)[k + 1] = v
  BY <1>c, AppendProperties
<1>1. \A i \in 1 .. Used : buf'[Wrap(head, i - 1)] = buf[Wrap(head, i - 1)]
  <2> TAKE i \in 1 .. Used
  <2>1. Wrap(tail, k) = Wrap(head, Used + k)
    BY <1>a, <1>b, <1>c, <1>d, WrapWrap
  <2>2. i - 1 \in 0 .. size - 1 /\ Used + k \in 0 .. size - 1 /\ i - 1 # Used + k
    BY <1>b, <1>c, <1>d
  <2>3. Wrap(head, i - 1) # Wrap(tail, k) /\ Wrap(head, i - 1) \in 0 .. size - 1
    BY <1>a, <1>b, <1>i, <2>1, <2>2, WrapInjective, WrapRange
  <2> QED  BY <1>f, <2>3, <1>a DEF TypeOK
<1>2. TypeOK'
  BY <1>a, <1>f, <1>g, <1>h DEF TypeOK
<1>3. AreasHold'
  <2>1. Used' = Used
    BY <1>f DEF Used, Dist
  <2>2. prod'.at = prod.at /\ prod'.limit = prod.limit /\ Len(prod'.data) = k + 1
    BY <1>a, <1>f, <1>h DEF TypeOK
  <2> QED  BY <1>a, <1>c, <1>d, <1>f, <2>1, <2>2 DEF AreasHold
<1>4. BytesInPlace'
  <2>1. prod'.at # "idle" /\ prod'.data = Append(prod.data, v)
    BY <1>a, <1>f DEF StoreByte, TypeOK
  <2>2. ASSUME NEW i \in 1 .. k + 1
        PROVE  prod'.data[i] = buf'[Wrap(tail, i - 1)]
    <3>1. CASE i = k + 1
      BY <1>a, <1>c, <1>f, <1>g, <1>h, <2>1, <3>1 DEF TypeOK
    <3>2. CASE i # k + 1
      <4>1. i \in 1 .. k /\ i - 1 \in 0 .. size - 1 /\ k \in 0 .. size - 1 /\ i - 1 # k
        BY <1>b, <1>c, <1>d, <3>2
      <4>2. Wrap(tail, i - 1) # Wrap(tail, k) /\ Wrap(tail, i - 1) \in 0 .. size - 1
        BY <1>a, <1>b, <1>i, <4>1, WrapInjective, WrapRange
      <4>3. prod'.data[i] = buf[Wrap(tail, i - 1)]
        BY <1>a, <1>h, <2>1, <4>1 DEF BytesInPlace
      <4> QED  BY <1>a, <1>f, <4>2, <4>3 DEF TypeOK
    <3> QED  BY <3>1, <3>2
  <2>3. \A i \in 1 .. Len(cons.data) : cons.data[i] = buf'[Wrap(head, i - 1)]
    <3>1. Len(cons.data) \in Nat /\ Len(cons.data) <= Used
      BY <1>a, <1>b DEF TypeOK, AreasHold
    <3> QED  BY <1>a, <1>1, <1>b, <3>1 DEF BytesInPlace
  <2>4. Wrap(tail, 0)' = Wrap(tail, 0)
    BY <1>f DEF Wrap
  <2>5. \A i \in 1 .. Len(prod'.data) : prod'.data[i] = buf'[Wrap(tail, i - 1)']
    BY <1>f, <1>h, <2>1, <2>2 DEF Wrap
  <2>6. \A i \in 1 .. Len(cons'.data) : cons'.data[i] = buf'[Wrap(head, i - 1)']
    BY <1>f, <2>3 DEF Wrap
  <2>7. cons'.at = "idle" => cons' = Idle'
    BY <1>a, <1>f DEF BytesInPlace, Idle
  <2> QED  BY <2>1, <2>5, <2>6, <2>7 DEF BytesInPlace
<1> QED  BY <1>1, <1>2, <1>3, <1>4 DEF Inv

(* A fresh cache is empty. *)
UsedIsZero == Used = 0

(* As the code computes it. *)
LEMMA UsedFresh == Fresh => UsedIsZero
BY CacheAssumption DEF Fresh, UsedIsZero, Used, Dist

(* Moving tail over the bytes stored uncovers them, and disturbs nothing else. *)
LEMMA PushInv ==
  ASSUME Inv, PushDataEnd \/ Push
  PROVE  /\ Inv' /\ Used' = Used + Len(prod.data)
         /\ Len(prod.data) \in Nat /\ Used + Len(prod.data) < size
         /\ tail' = Wrap(tail, Len(prod.data)) /\ UNCHANGED <<size, head, buf, cons>>
<1> DEFINE k == Len(prod.data)
<1>a. TypeOK /\ AreasHold /\ BytesInPlace /\ Positions
  BY TypePositions DEF Inv
<1>b. tail' = Wrap(tail, k) /\ prod' = Idle /\ UNCHANGED <<size, head, buf, cons>>
  BY DEF PushDataEnd, Push
<1>c. k \in Nat /\ Used + k < size
  <2>1. prod.data \in Seq(Bytes) /\ prod.limit \in Nat /\ k <= prod.limit /\ Used + prod.limit < size
    BY <1>a DEF TypeOK, AreasHold
  <2>2. Used \in Nat /\ size \in Nat
    BY <1>a, UsedRange DEF Positions
  <2> QED  BY <2>1, <2>2
<1>d. Used' = Used + k /\ Positions'
  BY <1>a, <1>b, <1>c, UsedPushed
<1>1. TypeOK'
  <2>1. tail' \in 0 .. size - 1
    BY <1>b, <1>d DEF Positions
  <2> QED  BY <1>a, <1>b, <2>1 DEF TypeOK, Idle
<1>2. AreasHold'
  <2>1. Used' \in 0 .. size - 1 /\ Used \in Nat
    BY <1>a, <1>b, <1>d, <1>c, UsedRange DEF Positions
  <2>2. prod'.limit = 0 /\ prod'.at = "idle" /\ Len(prod'.data) = 0
    BY <1>b DEF Idle
  <2>3. cons.limit \in Nat /\ cons.limit <= Used
    BY <1>a DEF TypeOK, AreasHold
  <2> QED  BY <1>a, <1>b, <1>c, <1>d, <2>1, <2>2, <2>3 DEF AreasHold, Positions
<1>3. BytesInPlace'
  BY <1>a, <1>b DEF BytesInPlace, Wrap, Idle
<1> QED  BY <1>1, <1>2, <1>3, <1>b, <1>c, <1>d DEF Inv

(* Reading a byte of the consumer's area. *)
LEMMA LoadByteInv ==
  ASSUME Inv, LoadByte
  PROVE  /\ Inv' /\ Len(cons.data) \in Nat /\ Len(cons.data) < Used
         /\ cons'.data = Append(cons.data, buf[Wrap(head, Len(cons.data))])
         /\ UNCHANGED <<size, head, tail, buf, prod>>
<1> DEFINE k == Len(cons.data)
<1>a. TypeOK /\ AreasHold /\ BytesInPlace /\ Positions
  BY TypePositions DEF Inv
<1>b. Used \in 0 .. size - 1 /\ head \in 0 .. size - 1 /\ size \in Nat \ {0}
  BY <1>a, UsedRange DEF Positions
<1>c. cons.data \in Seq(Bytes) /\ k \in Nat /\ cons.limit \in Nat
  BY <1>a DEF TypeOK
<1>d. k < cons.limit /\ cons.limit <= Used /\ k < Used /\ k \in 0 .. size
  <2>1. k < cons.limit /\ cons.limit <= Used
    BY <1>a DEF LoadByte, AreasHold
  <2> QED  BY <1>b, <1>c, <2>1
<1>e. (IF cons.at = "use" THEN head + k ELSE Wrap(head, k)) = Wrap(head, k)
  <2>1. CASE cons.at = "use"
    <3>1. head + k < size
      BY <1>a, <1>b, <1>c, <1>d, <2>1 DEF AreasHold
    <3>2. Wrap(head, k) = head + k
      BY <1>b, <1>c, <3>1 DEF Wrap
    <3> QED  BY <3>2
  <2>2. CASE cons.at # "use"
    BY <2>2
  <2> QED  BY <2>1, <2>2
<1> DEFINE v == buf[Wrap(head, k)]
<1>f. cons' = [cons EXCEPT !.data = Append(cons.data, v)] /\ UNCHANGED <<size, head, tail, buf, prod>>
  BY <1>e DEF LoadByte
<1>g. v \in Bytes
  <2>1. Wrap(head, k) \in 0 .. size - 1
    BY <1>a, <1>b, <1>d, WrapRange
  <2> QED  BY <1>a, <2>1 DEF TypeOK
<1>h. /\ Append(cons.data, v) \in Seq(Bytes) /\ Len(Append(cons.data, v)) = k + 1
      /\ \A i \in 1 .. k : Append(cons.data, v)[i] = cons.data[i]
      /\ Append(cons.data, v)[k + 1] = v
  BY <1>c, <1>g, AppendProperties
<1>i. /\ cons'.data = Append(cons.data, v) /\ cons'.at = cons.at /\ cons'.limit = cons.limit
      /\ cons'.at # "idle"
  BY <1>a, <1>f DEF TypeOK, LoadByte
<1> HIDE DEF v
<1>1. TypeOK'
  BY <1>a, <1>f, <1>h DEF TypeOK
<1>2. AreasHold'
  <2>1. Used' = Used
    BY <1>f DEF Used, Dist
  <2> QED  BY <1>a, <1>c, <1>d, <1>f, <1>h, <1>i, <2>1 DEF AreasHold
<1>3. BytesInPlace'
  <2>1. ASSUME NEW i \in 1 .. k + 1
        PROVE  cons'.data[i] = buf[Wrap(head, i - 1)]
    <3>1. CASE i = k + 1
      BY <1>c, <1>h, <1>i, <3>1 DEF v
    <3>2. CASE i # k + 1
      <4>1. i \in 1 .. k
        BY <1>c, <3>2
      <4> QED  BY <1>a, <1>h, <1>i, <4>1 DEF BytesInPlace
    <3> QED  BY <3>1, <3>2
  <2>2. \A i \in 1 .. Len(cons'.data) : cons'.data[i] = buf[Wrap(head, i - 1)]
    BY <1>h, <1>i, <2>1
  <2> QED  BY <1>a, <1>f, <1>i, <2>2 DEF BytesInPlace, Wrap, Idle
<1> QED  BY <1>1, <1>2, <1>3, <1>c, <1>d, <1>f, <1>i DEF Inv, v

(* Moving head over bytes already read. *)
LEMMA PopInv ==
  ASSUME Inv, NEW n \in Nat, n <= Len(cons.data), head' = Wrap(head, n), cons' = Idle,
         UNCHANGED <<size, tail, buf, prod>>
  PROVE  Inv' /\ Used' = Used - n /\ n <= Used
<1>a. TypeOK /\ AreasHold /\ BytesInPlace /\ Positions
  BY TypePositions DEF Inv
<1>b. n <= Used /\ Used \in 0 .. size - 1 /\ size \in Nat
  <2>1. Len(cons.data) \in Nat /\ cons.limit \in Nat /\ Len(cons.data) <= cons.limit /\ cons.limit <= Used
    BY <1>a DEF TypeOK, AreasHold
  <2>2. Used \in 0 .. size - 1 /\ size \in Nat
    BY <1>a, UsedRange DEF Positions
  <2> QED  BY <2>1, <2>2
<1>c. Used' = Used - n /\ Positions'
  BY <1>a, <1>b, UsedPopped
<1>1. TypeOK'
  <2>1. head' \in 0 .. size - 1
    BY <1>c DEF Positions
  <2> QED  BY <1>a, <2>1 DEF TypeOK, Idle
<1>2. AreasHold'
  <2>1. cons'.limit = 0 /\ cons'.at = "idle" /\ Len(cons'.data) = 0
    BY DEF Idle
  <2>2. prod.limit \in Nat
    BY <1>a DEF TypeOK
  <2> QED  BY <1>a, <1>b, <1>c, <2>1, <2>2 DEF AreasHold
<1>3. BytesInPlace'
  BY <1>a DEF BytesInPlace, Wrap, Idle
<1> QED  BY <1>1, <1>2, <1>3, <1>b, <1>c DEF Inv

(* The two actions that do so. *)
LEMMA PopSteps ==
  ASSUME Inv, PopDataEnd \/ \E n \in Counts : Pop(n)
  PROVE  \E n \in Nat : /\ n <= Len(cons.data) /\ head' = Wrap(head, n) /\ cons' = Idle
                        /\ UNCHANGED <<size, tail, buf, prod>>
<1>1. Len(cons.data) \in Nat
  BY DEF Inv, TypeOK
<1> QED  BY <1>1, CacheAssumption DEF PopDataEnd, Pop

(* Every step keeps the invariant. *)
LEMMA NextInv == Inv /\ [Next]_vars => Inv'
<1> SUFFICES ASSUME Inv, [Next]_vars PROVE Inv'
  OBVIOUS
<1>1. CASE Produce
  BY <1>1, BeginInv, StoreByteInv, PushInv DEF Produce
<1>2. CASE Consume
  <2>1. CASE PopDataEnd \/ \E n \in Counts : Pop(n)
    BY <2>1, PopSteps, PopInv
  <2> QED  BY <1>2, <2>1, BeginInv, LoadByteInv DEF Consume
<1>3. CASE Renew
  <2>1. TypeOK /\ BytesInPlace
    BY DEF Inv
  <2>a. PICK n \in Sizes : \E memory \in [0 .. n - 1 -> Bytes] : Reset(n, memory)
    BY <1>3, <2>1 DEF Renew, TypeOK
  <2>2. PICK memory \in [0 .. n - 1 -> Bytes] : Reset(n, memory)
    BY <2>a
  <2>3. Fresh'
    BY <2>1, <2>2 DEF Fresh, Reset, BytesInPlace, Idle
  <2> QED  BY <2>3, FreshInv, PTL
<1>4. CASE UNCHANGED vars
  BY <1>4 DEF vars, Inv, TypeOK, AreasHold, BytesInPlace, Used, Dist, Wrap, Idle
<1> QED  BY <1>1, <1>2, <1>3, <1>4 DEF Next

(* For every size and every length asked for, neither pointer leaves the buffer: a block that   *)
(* ends exactly at cache_end leaves the pointer at cache_begin.                                *)
THEOREM TypeCorrect == Spec => []TypeOK
<1>1. Inv => TypeOK
  BY DEF Inv
<1> QED  BY <1>1, InitInv, NextInv, PTL DEF Spec

(* For every size, the areas get_free, push_data, get_data and pop_data work on stay apart from *)
(* the other thread's, inside the buffer, and theirs until the pointer is moved.               *)
THEOREM AreasAlwaysHold == Spec => []AreasHold
<1>1. Inv => AreasHold
  BY DEF Inv
<1> QED  BY <1>1, InitInv, NextInv, PTL DEF Spec

(* For every size, the bytes a reader gets are those a writer stored, at the place where they    *)
(* were stored, whichever of the two moves its pointer in between.                              *)
THEOREM BytesAlwaysInPlace == Spec => []BytesInPlace
<1>1. Inv => BytesInPlace
  BY DEF Inv
<1> QED  BY <1>1, InitInv, NextInv, PTL DEF Spec

(* The bytes between the pointers, as a sequence. *)
ContentsAre ==
  /\ Contents \in Seq(Bytes) /\ Len(Contents) = Used /\ Used \in Nat
  /\ \A i \in 1 .. Used : Contents[i] = buf[Wrap(head, i - 1)]

(* Its length is what the code computes as used. *)
LEMMA ContentsLemma == Inv => ContentsAre
<1> SUFFICES ASSUME Inv PROVE ContentsAre
  OBVIOUS
<1>1. TypeOK /\ Positions
  BY TypePositions DEF Inv
<1>2. Used \in 0 .. size - 1 /\ size \in Nat /\ head \in 0 .. size - 1
  BY <1>1, UsedRange DEF Positions
<1>3. \A i \in 1 .. Used : buf[Wrap(head, i - 1)] \in Bytes
  <2> TAKE i \in 1 .. Used
  <2>1. i - 1 \in 0 .. size
    BY <1>2
  <2>2. Wrap(head, i - 1) \in 0 .. size - 1
    BY <1>1, <1>2, <2>1, WrapRange
  <2> QED  BY <1>1, <2>2 DEF TypeOK
<1>4. Used \in Nat
  BY <1>2
<1> DEFINE e(i) == buf[Wrap(head, i - 1)]
<1>5. Contents = [i \in 1 .. Used |-> e(i)]
  BY DEF Contents
<1>6. \A i \in 1 .. Used : e(i) \in Bytes
  BY <1>3
<1> HIDE DEF e
<1>7. [i \in 1 .. Used |-> e(i)] \in Seq(Bytes) /\ Len([i \in 1 .. Used |-> e(i)]) = Used
  BY <1>4, <1>6
<1>8. \A i \in 1 .. Used : Contents[i] = e(i)
  BY <1>5
<1> QED  BY <1>4, <1>5, <1>7, <1>8 DEF ContentsAre, e

(* A step that leaves the pointers and the bytes between them leaves the contents. *)
LEMMA ContentsKept ==
  ASSUME Inv, UNCHANGED <<size, head, tail>>,
         \A i \in 1 .. Used : buf'[Wrap(head, i - 1)] = buf[Wrap(head, i - 1)]
  PROVE  Contents' = Contents
BY DEF Contents, Used, Dist, Wrap

(* What the map makes of each step: the calls that only decide are stutters, *)
LEMMA BeginRefines ==
  ASSUME Inv,
         \/ \E n \in Lens : PushData(n) \/ PopData(n) \/ CopyData(n)
         \/ \E want \in Wants : GetFree(want) \/ GetData(want)
  PROVE  UNCHANGED <<Contents, size, prod.data, cons.data>>
<1>1. UNCHANGED <<size, head, tail, buf>>
  BY DEF PushData, PopData, CopyData, GetFree, GetData
<1>2. Contents' = Contents
  BY <1>1, ContentsKept
<1>3. (prod.at = "idle" => prod.data = <<>>) /\ (cons.at = "idle" => cons.data = <<>>)
  BY DEF Inv, BytesInPlace, Idle
<1>4. prod'.data = prod.data /\ cons'.data = cons.data
  BY <1>3 DEF PushData, PopData, CopyData, GetFree, GetData
<1> QED  BY <1>1, <1>2, <1>4

(* storing a byte writes one, *)
LEMMA StoreRefines ==
  ASSUME Inv, NEW v \in Bytes, StoreByte(v)
  PROVE  Queue!Write(v)
<1>1. UNCHANGED <<size, head, tail, cons>>
  BY DEF StoreByte
<1>2. Contents' = Contents
  BY <1>1, StoreByteInv, ContentsKept
<1>3. prod'.data = Append(prod.data, v)
  BY DEF StoreByte, Inv, TypeOK
<1> QED  BY <1>1, <1>2, <1>3 DEF Queue!Write

(* moving tail appends what was written, *)
LEMMA PushRefines ==
  ASSUME Inv, PushDataEnd \/ Push
  PROVE  Queue!Push
<1> DEFINE k == Len(prod.data)
<1>a. /\ Inv' /\ Used' = Used + k /\ k \in Nat /\ Used + k < size
      /\ tail' = Wrap(tail, k) /\ UNCHANGED <<size, head, buf, cons>>
  BY PushInv
<1>b. ContentsAre /\ ContentsAre'
  BY <1>a, ContentsLemma, PTL
<1>c. Positions /\ prod.data \in Seq(Bytes) /\ BytesInPlace
  BY TypePositions DEF Inv, TypeOK
<1>d. prod'.data = <<>>
  BY DEF PushDataEnd, Push, Idle
<1>e. /\ Used \in 0 .. size - 1 /\ head \in 0 .. size - 1 /\ size \in Nat
      /\ tail = Wrap(head, Used)
  BY <1>c, UsedRange DEF Positions
<1>1. Contents' = Contents \o prod.data
  <2>1. /\ Contents \o prod.data \in Seq(Bytes)
        /\ Len(Contents \o prod.data) = Used + k
        /\ \A i \in 1 .. Used + k :
             (Contents \o prod.data)[i] = IF i <= Used THEN Contents[i] ELSE prod.data[i - Used]
    BY <1>b, <1>c, ConcatProperties DEF ContentsAre
  <2>2. Contents' \in Seq(Bytes) /\ Len(Contents') = Used + k
    BY <1>a, <1>b DEF ContentsAre
  <2>3. ASSUME NEW i \in 1 .. Used + k
        PROVE  Contents'[i] = (Contents \o prod.data)[i]
    <3>1. Contents'[i] = buf[Wrap(head, i - 1)]
      BY <1>a, <1>b DEF ContentsAre, Wrap
    <3>2. CASE i <= Used
      <4>1. i \in 1 .. Used
        BY <1>e, <3>2
      <4>2. Contents[i] = buf[Wrap(head, i - 1)]
        BY <1>b, <4>1 DEF ContentsAre
      <4> QED  BY <2>1, <3>1, <3>2, <4>2
    <3>3. CASE ~(i <= Used)
      <4> DEFINE j == i - Used
      <4>1. j \in 1 .. k /\ j - 1 \in Nat /\ Used + (j - 1) = i - 1 /\ Used + (j - 1) <= size
            /\ Used \in Nat
        BY <1>a, <1>e, <3>3
      <4>2. prod.data[j] = buf[Wrap(tail, j - 1)]
        BY <1>c, <4>1 DEF BytesInPlace
      <4> HIDE DEF j
      <4>3. Wrap(tail, j - 1) = Wrap(head, Used + (j - 1))
        BY <1>c, <1>e, <4>1, WrapWrap
      <4>4. (Contents \o prod.data)[i] = prod.data[j]
        BY <2>1, <3>3 DEF j
      <4> QED  BY <3>1, <4>1, <4>2, <4>3, <4>4
    <3> QED  BY <3>2, <3>3
  <2>4. Len(Contents') = Len(Contents \o prod.data)
    BY <2>1, <2>2
  <2>5. \A i \in 1 .. Len(Contents') : Contents'[i] = (Contents \o prod.data)[i]
    BY <2>2, <2>3
  <2> QED  BY <2>1, <2>2, <2>4, <2>5, SeqEqual
<1>2. Len(Contents) + k < size
  BY <1>a, <1>b DEF ContentsAre
<1> QED  BY <1>a, <1>d, <1>1, <1>2 DEF Queue!Push

(* reading a byte looks at the next one of the queue, *)
LEMMA LoadRefines ==
  ASSUME Inv, LoadByte
  PROVE  Queue!Look
<1> DEFINE k == Len(cons.data)
<1>a. /\ k \in Nat /\ k < Used
      /\ cons'.data = Append(cons.data, buf[Wrap(head, k)])
      /\ UNCHANGED <<size, head, tail, buf, prod>>
  BY LoadByteInv
<1>b. ContentsAre
  BY ContentsLemma
<1>1. Contents' = Contents
  BY <1>a, ContentsKept
<1>2. k + 1 \in 1 .. Used /\ (k + 1) - 1 = k
  BY <1>a, <1>b DEF ContentsAre
<1>3. Contents[k + 1] = buf[Wrap(head, k)]
  BY <1>b, <1>2 DEF ContentsAre
<1>4. k < Len(Contents)
  BY <1>a, <1>b DEF ContentsAre
<1> QED  BY <1>a, <1>1, <1>3, <1>4 DEF Queue!Look

(* and moving head drops bytes already looked at. *)
LEMMA PopRefines ==
  ASSUME Inv, NEW n \in Nat, n <= Len(cons.data), head' = Wrap(head, n), cons' = Idle,
         UNCHANGED <<size, tail, buf, prod>>
  PROVE  Queue!Drop(n)
<1>a. Inv' /\ Used' = Used - n /\ n <= Used
  BY PopInv
<1>b. ContentsAre /\ ContentsAre'
  BY <1>a, ContentsLemma, PTL
<1>c. Positions
  BY TypePositions DEF Inv
<1>d. Used \in 0 .. size - 1 /\ head \in 0 .. size - 1 /\ size \in Nat
  BY <1>c, UsedRange DEF Positions
<1>1. Contents' = SubSeq(Contents, n + 1, Used)
  <2>1. n + 1 \in Int /\ Used \in Int /\ \A i \in n + 1 .. Used : Contents[i] \in Bytes
    <3>1. \A i \in 1 .. Len(Contents) : Contents[i] \in Bytes
      BY <1>b, ElementOfSeq DEF ContentsAre
    <3> QED  BY <1>b, <1>d, <3>1 DEF ContentsAre
  <2> DEFINE rest == SubSeq(Contents, n + 1, Used)
  <2>2. /\ rest \in Seq(Bytes)
        /\ Len(rest) = IF n + 1 <= Used THEN Used - (n + 1) + 1 ELSE 0
        /\ \A i \in 1 .. Used - (n + 1) + 1 : rest[i] = Contents[(n + 1) + i - 1]
    BY <2>1, SubSeqProperties
  <2> HIDE DEF rest
  <2>3. Contents' \in Seq(Bytes) /\ Len(Contents') = Used - n /\ Len(rest) = Used - n
    BY <1>a, <1>b, <1>d, <2>2 DEF ContentsAre
  <2>4. ASSUME NEW i \in 1 .. Used - n
        PROVE  Contents'[i] = rest[i]
    <3>1. Contents'[i] = buf[Wrap(Wrap(head, n), i - 1)]
      <4>1. i \in 1 .. Used'
        BY <1>a
      <4>2. Contents'[i] = buf'[Wrap(head, i - 1)']
        BY <1>b, <4>1 DEF ContentsAre
      <4> QED  BY <4>2 DEF Wrap
    <3>2. i - 1 \in Nat /\ n + (i - 1) <= size /\ n + i \in 1 .. Used /\ (n + i) - 1 = n + (i - 1)
          /\ (n + 1) + i - 1 = n + i /\ i \in 1 .. Used - (n + 1) + 1
      BY <1>a, <1>d
    <3>3. Wrap(Wrap(head, n), i - 1) = Wrap(head, n + (i - 1))
      BY <1>c, <1>d, <3>2, WrapWrap
    <3>4. Contents[n + i] = buf[Wrap(head, n + (i - 1))]
      BY <1>b, <3>2 DEF ContentsAre
    <3>5. rest[i] = Contents[n + i]
      BY <2>2, <3>2
    <3> QED  BY <3>1, <3>3, <3>4, <3>5
  <2>5. \A i \in 1 .. Len(Contents') : Contents'[i] = rest[i]
    BY <2>3, <2>4
  <2> QED  BY <2>2, <2>3, <2>5, SeqEqual DEF rest
<1>2. Contents' = SubSeq(Contents, n + 1, Len(Contents))
  BY <1>b, <1>1 DEF ContentsAre
<1> QED  BY <1>2 DEF Queue!Drop, Idle

(* Renewing the cache clears the queue. *)
LEMMA RenewRefines ==
  ASSUME Inv, Renew
  PROVE  \E n \in Sizes : Queue!Clear(n)
<1>1. TypeOK /\ BytesInPlace
  BY DEF Inv
<1>2. PICK n \in Sizes : \E memory \in [0 .. n - 1 -> Bytes] : Reset(n, memory)
  BY <1>1 DEF Renew, TypeOK
<1>3. PICK memory \in [0 .. n - 1 -> Bytes] : Reset(n, memory)
  BY <1>2
<1>4. Fresh'
  BY <1>1, <1>3 DEF Fresh, Reset, BytesInPlace, Idle
<1>5. ContentsAre' /\ Inv'
  BY <1>4, FreshInv, ContentsLemma, PTL
<1>6. size' = n /\ prod.data = <<>> /\ cons.data = <<>> /\ prod' = prod /\ cons' = cons
      /\ head' = 0 /\ tail' = 0 /\ n \in Nat
  BY <1>1, <1>3, CacheAssumption DEF Reset, BytesInPlace, Idle
<1>7. Contents' = <<>>
  <2>1. Used' = 0
    <3>1. UsedIsZero'
      BY <1>4, UsedFresh, PTL
    <3> QED  BY <3>1 DEF UsedIsZero
  <2> QED  BY <1>5, <2>1, EmptySeq DEF ContentsAre
<1> QED  BY <1>6, <1>7 DEF Queue!Clear

(* Every step of the cache is a step of the queue or a stutter. *)
LEMMA NextRefines ==
  ASSUME Inv, [Next]_vars
  PROVE  [Queue!Next]_<<Contents, size, prod.data, cons.data>>
<1>1. CASE Produce
  BY <1>1, BeginRefines, StoreRefines, PushRefines DEF Produce, Queue!Next
<1>2. CASE Consume
  <2>1. CASE PopDataEnd \/ \E n \in Counts : Pop(n)
    <3>1. PICK n \in Nat : /\ n <= Len(cons.data) /\ head' = Wrap(head, n) /\ cons' = Idle
                           /\ UNCHANGED <<size, tail, buf, prod>>
      BY <2>1, PopSteps
    <3>2. Queue!Drop(n)
      BY <3>1, PopRefines
    <3>3. n \in 0 .. Len(cons.data)
      BY <3>1 DEF Inv, TypeOK
    <3> QED  BY <3>2, <3>3 DEF Queue!Next
  <2> QED  BY <1>2, <2>1, BeginRefines, LoadRefines DEF Consume, Queue!Next
<1>3. CASE Renew
  BY <1>3, RenewRefines DEF Queue!Next
<1>4. CASE UNCHANGED vars
  BY <1>4 DEF vars, Contents, Used, Dist, Wrap
<1> QED  BY <1>1, <1>2, <1>3, <1>4 DEF Next

(* A new cache is an empty queue. *)
LEMMA InitRefines == Init => Queue!Init
<1> SUFFICES ASSUME Init PROVE Queue!Init
  OBVIOUS
<1>1. Fresh /\ ContentsAre /\ size \in Nat
  BY FreshInv, ContentsLemma, CacheAssumption DEF Init, Fresh
<1>2. Used = 0
  BY <1>1, UsedFresh DEF UsedIsZero
<1>3. Contents = <<>>
  BY <1>1, <1>2, EmptySeq DEF ContentsAre
<1> QED  BY <1>3 DEF Queue!Init, Init, Idle

(* For every size, length and alphabet, loop_cache is a first-in first-out queue of bytes: the  *)
(* consumer gets the bytes the producer stored, each once and in order, however the two threads *)
(* interleave.                                                                                 *)
THEOREM FifoOrderHolds == Spec => FifoOrder
<1>1. Init => Queue!Init
  BY InitRefines
<1>2. Inv /\ [Next]_vars => [Queue!Next]_<<Contents, size, prod.data, cons.data>>
  BY NextRefines
<1> QED  BY <1>1, <1>2, InitInv, NextInv, PTL DEF Spec, FifoOrder, Queue!Spec
=============================================================================
