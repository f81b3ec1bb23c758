---------------------------- MODULE LockFreeSpsc ----------------------------
(***************************************************************************)
(* LockFreeLoopQueue<T, false, false> of include/lock_free_queue.hpp: one  *)
(* producer, one consumer, and nodes without sequence numbers.  _tail and  *)
(* _head are indices into the ring, each stored by one thread; a node      *)
(* stays empty to tell a full ring from an empty one.                      *)
(***************************************************************************)
EXTENDS Integers, Sequences

CONSTANTS
  Capacity,     \* _capacity
  Values,
  NoValue,      \* raw memory: what pop's ~T() leaves
  Blank         \* the T that new Node[_capacity] default-constructs in every node

SpscAssumption ==
  /\ Capacity \in Nat \ {0}
  /\ NoValue \notin Values /\ Blank \notin Values \cup {NoValue}

VARIABLES
  data,         \* _queue
  qTail,        \* _tail
  qHead,        \* _head
  push,         \* the step push is at, and its argument
  pop,          \* the step pop is at
  result        \* what pop returned last

vars == <<data, qTail, qHead, push, pop, result>>

Init ==
  /\ data = [i \in 0 .. Capacity - 1 |-> Blank]
  /\ qTail = 0 /\ qHead = 0
  /\ push = [at |-> "idle", data |-> NoValue]
  /\ pop = "idle"
  /\ result = NoValue

\* Mutant: the index runs off the ring.
_increment_NoMask(idx) == idx + 1

_increment(idx) == (idx + 1) % Capacity

\* Mutant: no node is kept empty.
PushBegin_NoSpare(v) ==
  /\ push.at = "idle"
  /\ push' = [at |-> "fill", data |-> v]
  /\ UNCHANGED <<data, qTail, qHead, pop, result>>

\* push up to its test of the consumer's index; a refused call changes nothing.
PushBegin(v) ==
  /\ push.at = "idle" /\ _increment(qTail) # qHead
  /\ push' = [at |-> "fill", data |-> v]
  /\ UNCHANGED <<data, qTail, qHead, pop, result>>

\* The value is constructed in the node by placement new, over whatever is there.
PushFill ==
  /\ push.at = "fill"
  /\ data' = [data EXCEPT ![qTail] = push.data]
  /\ push' = [push EXCEPT !.at = "publish"]
  /\ UNCHANGED <<qTail, qHead, pop, result>>

PushPublish ==
  /\ push.at = "publish"
  /\ qTail' = _increment(qTail)
  /\ push' = [at |-> "idle", data |-> NoValue]
  /\ UNCHANGED <<data, qHead, pop, result>>

\* Mutant: an empty ring is not noticed.
PopBegin_Blind ==
  /\ pop = "idle"
  /\ pop' = "take"
  /\ UNCHANGED <<data, qTail, qHead, push, result>>

\* pop up to its test of the producer's index
PopBegin ==
  /\ pop = "idle" /\ qHead # qTail
  /\ pop' = "take"
  /\ UNCHANGED <<data, qTail, qHead, push, result>>

\* The value is copied out and destroyed in the ring.
PopTake ==
  /\ pop = "take"
  /\ result' = data[qHead]
  /\ data' = [data EXCEPT ![qHead] = NoValue]
  /\ pop' = "release"
  /\ UNCHANGED <<qTail, qHead, push>>

PopRelease ==
  /\ pop = "release"
  /\ qHead' = _increment(qHead)
  /\ pop' = "idle"
  /\ UNCHANGED <<data, qTail, push, result>>

Next ==
  \/ \E v \in Values : PushBegin(v)
  \/ PushFill \/ PushPublish
  \/ PopBegin \/ PopTake \/ PopRelease

Spec == Init /\ [][Next]_vars

-----------------------------------------------------------------------------
(* Properties *)

\* The type invariant: neither index leaves the ring.
TypeOK ==
  /\ data \in [0 .. Capacity - 1 -> Values \cup {NoValue, Blank}]
  /\ qTail \in 0 .. Capacity - 1 /\ qHead \in 0 .. Capacity - 1
  /\ push \in [at : {"idle", "fill", "publish"}, data : Values \cup {NoValue}]
  /\ pop \in {"idle", "take", "release"}
  /\ result \in Values \cup {NoValue, Blank}

\* Each pushed value lives once, wherever the two threads are in their calls: a push never constructs
\* its value over another pushed one (the object a node was made with it does overwrite, without a
\* destructor), and a pop destroys a pushed value, never that object and never raw memory.
PushedLiveOnce ==
  /\ push.at = "fill" => data[qTail] \notin Values
  /\ pop = "take" => data[qHead] \in Values

\* The values pop has not yet begun to remove.
Front == IF pop = "idle" THEN qHead ELSE _increment(qHead)
Items == [i \in 1 .. (qTail - Front) % Capacity |-> data[(Front + i - 1) % Capacity]]

\* The ring is a queue of at most Capacity - 1 values: each value is appended when _tail is stored,
\* and pop returns the values in that order.
Queue == INSTANCE FifoQueue WITH
  Consumers <- {"consumer"},
  items <- Items,
  got <- [c \in {"consumer"} |-> IF pop = "take" THEN data[qHead] ELSE NoValue],
  result <- [c \in {"consumer"} |-> result],
  Bound <- Capacity - 1
FifoOrder == Queue!Spec
=============================================================================
