----------------------------- MODULE LoopCache ------------------------------
(***************************************************************************)
(* The ring buffer of src/loop_cache.c as its two threads use it: a        *)
(* producer that moves tail and a consumer that moves head.  Both are      *)
(* plain fields; a thread reads the other's once per call, so what it      *)
(* knows of it is old by the time it copies bytes or stores its own.  The  *)
(* bytes are copied one at a time, in between the other thread's steps,    *)
(* and the pointer is stored after them (the stores of one thread are      *)
(* seen in order: the compiler may not move bytes across the pointer,      *)
(* which they might alias, and x86 keeps the order of stores).             *)
(*                                                                         *)
(* Positions are offsets from cache_begin; cache_end is offset size.       *)
(***************************************************************************)
EXTENDS Integers, Sequences

CONSTANTS
  Bytes,    \* the values of a byte
  Sizes,    \* sizes a cache is created or reset with
  Lens,     \* lengths given to push_data, pop_data and copy_data
  Wants,    \* lengths asked of get_free and get_data, 0 for as much as there is
  Counts,   \* lengths given to loop_cache_push and loop_cache_pop, 0 for no call
  Entry     \* the length of the messages a cache is used for, if it is used for messages

ASSUME CacheAssumption ==
  /\ Sizes \subseteq Nat \ {0}
  /\ Lens \subseteq Nat /\ Wants \subseteq Nat /\ Counts \subseteq Nat
  /\ Entry \in Nat

VARIABLES
  size, head, tail,   \* of st_loop_cache
  buf,                \* the bytes from cache_begin to cache_end
  prod,               \* the call the producer is in, and the bytes it has stored
  cons                \* the call the consumer is in, and the bytes it has read

vars == <<size, head, tail, buf, prod, cons>>

Idle == [at |-> "idle", limit |-> 0, data |-> <<>>]

Init ==
  /\ size \in Sizes
  /\ head = 0 /\ tail = 0
  /\ buf \in [0 .. size - 1 -> Bytes]
  /\ prod = Idle /\ cons = Idle

-----------------------------------------------------------------------------
Dist == tail + size - head
Used == IF Dist >= size THEN Dist - size ELSE Dist

\* Mutant: no byte is kept free.
FreeSize_NoSpare == size - Used

FreeSize == size - Used - 1

\* Mutant: a pointer may stay at cache_end.
Wrap_KeepsEnd(from, i) == IF from + i > size THEN i - (size - from) ELSE from + i

\* The offset i bytes after from, for i up to size.
Wrap(from, i) == IF from + i >= size THEN i - (size - from) ELSE from + i

\* How many of n bytes lie before cache_end.
Contiguous(from, n) == IF from + n >= size THEN size - from ELSE n

\* What an area of at most n bytes is cut to: 0 asks for all of them.
AtMost(want, n) == IF want # 0 /\ want <= n THEN want ELSE n

(* The producer *)

\* Mutant: the test lets the cache fill up.
PushData_NoSpare(n) ==
  /\ prod.at = "idle"
  /\ n + Used <= size
  /\ prod' = [at |-> "copy", limit |-> n, data |-> <<>>]
  /\ UNCHANGED <<size, head, tail, buf, cons>>

\* loop_cache_push_data, from its test to its copying; a refused call changes nothing.
PushData(n) ==
  /\ prod.at = "idle"
  /\ n + Used + 1 <= size
  /\ prod' = [at |-> "copy", limit |-> n, data |-> <<>>]
  /\ UNCHANGED <<size, head, tail, buf, cons>>

\* loop_cache_get_free
GetFree(want) ==
  /\ prod.at = "idle"
  /\ prod' = [at |-> "fill", limit |-> Contiguous(tail, AtMost(want, FreeSize)), data |-> <<>>]
  /\ UNCHANGED <<size, head, tail, buf, cons>>

\* A byte is stored: by memcpy in push_data, by the caller after get_free.
StoreByte(v) ==
  /\ prod.at # "idle" /\ Len(prod.data) < prod.limit
  /\ buf' = [buf EXCEPT ![IF prod.at = "copy" THEN Wrap(tail, Len(prod.data))
                          ELSE tail + Len(prod.data)] = v]
  /\ prod' = [prod EXCEPT !.data = Append(@, v)]
  /\ UNCHANGED <<size, head, tail, cons>>

\* Mutant: tail is moved before the copying is done.
PushDataEnd_Early ==
  /\ prod.at = "copy"
  /\ tail' = Wrap(tail, prod.limit)
  /\ prod' = Idle
  /\ UNCHANGED <<size, head, buf, cons>>

\* push_data stores the new tail.
PushDataEnd ==
  /\ prod.at = "copy" /\ Len(prod.data) = prod.limit
  /\ tail' = Wrap(tail, Len(prod.data))
  /\ prod' = Idle
  /\ UNCHANGED <<size, head, buf, cons>>

\* loop_cache_push of what was stored after get_free.
Push ==
  /\ prod.at = "fill" /\ Len(prod.data) \in Counts
  /\ Len(prod.data) + Used + 1 <= size
  /\ tail' = Wrap(tail, Len(prod.data))
  /\ prod' = Idle
  /\ UNCHANGED <<size, head, buf, cons>>

(* The consumer *)

\* loop_cache_pop_data and loop_cache_copy_data, from their test to their copying
PopData(n) ==
  /\ cons.at = "idle"
  /\ n <= Used
  /\ cons' = [at |-> "take", limit |-> n, data |-> <<>>]
  /\ UNCHANGED <<size, head, tail, buf, prod>>

CopyData(n) ==
  /\ cons.at = "idle"
  /\ n <= Used
  /\ cons' = [at |-> "copy", limit |-> n, data |-> <<>>]
  /\ UNCHANGED <<size, head, tail, buf, prod>>

\* loop_cache_get_data
GetData(want) ==
  /\ cons.at = "idle"
  /\ cons' = [at |-> "use", limit |-> Contiguous(head, AtMost(want, Used)), data |-> <<>>]
  /\ UNCHANGED <<size, head, tail, buf, prod>>

\* A byte is read: by memcpy, or by the caller after get_data.
LoadByte ==
  /\ cons.at # "idle" /\ Len(cons.data) < cons.limit
  /\ cons' = [cons EXCEPT !.data = Append(@,
       buf[IF cons.at = "use" THEN head + Len(cons.data) ELSE Wrap(head, Len(cons.data))])]
  /\ UNCHANGED <<size, head, tail, buf, prod>>

\* pop_data stores the new head.
PopDataEnd ==
  /\ cons.at = "take" /\ Len(cons.data) = cons.limit
  /\ head' = Wrap(head, Len(cons.data))
  /\ cons' = Idle
  /\ UNCHANGED <<size, tail, buf, prod>>

\* loop_cache_pop of some of the bytes seen after get_data or copy_data.
Pop(n) ==
  /\ cons.at \in {"use", "copy"} /\ (cons.at = "copy" => Len(cons.data) = cons.limit)
  /\ n <= Len(cons.data) /\ n <= Used
  /\ head' = Wrap(head, n)
  /\ cons' = Idle
  /\ UNCHANGED <<size, tail, buf, prod>>

\* loop_cache_reinit, or loop_cache_reset with other memory, by the owner of both ends.
Reset(n, memory) ==
  /\ prod.at = "idle" /\ cons.at = "idle"
  /\ size' = n /\ buf' = memory
  /\ head' = 0 /\ tail' = 0
  /\ UNCHANGED <<prod, cons>>

Produce ==
  \/ \E n \in Lens : PushData(n)
  \/ \E want \in Wants : GetFree(want)
  \/ \E v \in Bytes : StoreByte(v)
  \/ PushDataEnd \/ Push

Consume ==
  \/ \E n \in Lens : PopData(n) \/ CopyData(n)
  \/ \E want \in Wants : GetData(want)
  \/ LoadByte \/ PopDataEnd
  \/ \E n \in Counts : Pop(n)

Renew ==
  \/ Reset(size, buf)
  \/ \E n \in Sizes : \E memory \in [0 .. n - 1 -> Bytes] : Reset(n, memory)

Next == Produce \/ Consume \/ Renew

Spec == Init /\ [][Next]_vars

-----------------------------------------------------------------------------
(* Properties *)

\* The type invariant: neither pointer ever rests at cache_end.
TypeOK ==
  /\ size \in Sizes
  /\ head \in 0 .. size - 1 /\ tail \in 0 .. size - 1
  /\ buf \in [0 .. size - 1 -> Bytes]
  /\ prod \in [at : {"idle", "copy", "fill"}, limit : Nat, data : Seq(Bytes)]
  /\ cons \in [at : {"idle", "take", "copy", "use"}, limit : Nat, data : Seq(Bytes)]

\* The areas the two threads work on stay apart and inside the buffer, and the room or the data a
\* thread was promised is still there when it moves its pointer: the loop_cache_push and
\* loop_cache_pop that follow a get never refuse, which every caller takes for granted
\* (CRUSH_CODE otherwise).
AreasHold ==
  /\ Used + prod.limit < size
  /\ cons.limit <= Used
  /\ Len(prod.data) <= prod.limit /\ Len(cons.data) <= cons.limit
  /\ prod.at = "fill" => tail + prod.limit <= size
  /\ cons.at = "use" => head + cons.limit <= size

\* What the producer has stored so far is where tail will uncover it, whatever the consumer does
\* meanwhile, and what the consumer has read is still what lies at head.
BytesInPlace ==
  /\ prod.at = "idle" => prod = Idle
  /\ cons.at = "idle" => cons = Idle
  /\ \A i \in 1 .. Len(prod.data) : prod.data[i] = buf[Wrap(tail, i - 1)]
  /\ \A i \in 1 .. Len(cons.data) : cons.data[i] = buf[Wrap(head, i - 1)]

\* Used for messages of one length that divides the size, the cache never splits one: an area
\* get_free or get_data returns is short only when the cache is full or empty, which is how
\* epoll_tcp.c and iocp_tcp.c tell.
EntriesWhole == tail + Entry <= size /\ head + Entry <= size

\* The bytes between the pointers.
Contents == [i \in 1 .. Used |-> buf[Wrap(head, i - 1)]]

\* The cache is a queue of bytes: each comes out once, in order, unchanged.
Queue == INSTANCE ByteQueue WITH queue <- Contents, input <- prod.data, output <- cons.data
FifoOrder == Queue!Spec
=============================================================================
