--------------------------- MODULE LockFreeQueue ----------------------------
(***************************************************************************)
(* The queues of include/lock_free_queue.hpp whose nodes carry sequence    *)
(* numbers: LockFreeLoopQueue<T, multi_productor, multi_consumer> with at  *)
(* least one of the two true.  lock_free_ptr_queue is the one with both.   *)
(*                                                                         *)
(* A node is free for sequence number node.tail and holds the value of     *)
(* sequence number node.head.  Every load, store and compare-and-swap is   *)
(* a step, and steps of all threads interleave in any order; a weak        *)
(* compare-and-swap fails only when the value differs, as on x86. What one *)
(* thread wrote before a store is seen by whoever saw the store: the       *)
(* stores of node.head and node.tail are releases, and x86 does not        *)
(* reorder the relaxed loads that meet them.                               *)
(*                                                                         *)
(* Sequence numbers are 64 bits wide in the code and never wrap here: that *)
(* takes 2^64 pushes.                                                      *)
(***************************************************************************)
EXTENDS Integers, Sequences

CONSTANTS
  Producers, Consumers,           \* threads that push and that pop
  MultiProducer, MultiConsumer,   \* the template's parameters
  Capacity,                       \* _capacity; the mask gives the remainder as it is a power of two
  Values,
  NoValue,                        \* raw memory: what pop's ~T() leaves
  Blank,                          \* the T that new Node[_capacity] default-constructs in every node
  MaxPushes                       \* bound: no push begins once this many succeeded

ASSUME QueueAssumption ==
  /\ MultiProducer \in BOOLEAN /\ MultiConsumer \in BOOLEAN
  /\ MultiProducer \/ \A p, q \in Producers : p = q
  /\ MultiConsumer \/ \A c, d \in Consumers : c = d
  /\ Capacity \in Nat \ {0}
  /\ NoValue \notin Values /\ Blank \notin Values \cup {NoValue}
  /\ MaxPushes \in Nat

VARIABLES
  node,      \* _queue
  qTail,     \* _tail
  qHead,     \* _head
  prod,      \* for each producer: the step it is at, its local tail, the value it pushes
  cons,      \* for each consumer: the step it is at, its local head, what it popped last
  claimed    \* history: the values pushed, in the order _tail was advanced for them

vars == <<node, qTail, qHead, prod, cons, claimed>>

Init ==
  /\ node = [s \in 0 .. Capacity - 1 |-> [data |-> Blank, tail |-> s, head |-> -1]]
  /\ qTail = 0 /\ qHead = 0
  /\ prod = [p \in Producers |-> [at |-> "idle", seq |-> 0, data |-> NoValue]]
  /\ cons = [c \in Consumers |-> [at |-> "idle", seq |-> 0, result |-> NoValue]]
  /\ claimed = <<>>

\* node = &_queue[seq & _capacityMask]
Slot(seq) == seq % Capacity

-----------------------------------------------------------------------------
(* push *)

\* The tail is loaded.
PushBegin(p, v) ==
  /\ prod[p].at = "idle" /\ qTail < MaxPushes
  /\ prod' = [prod EXCEPT ![p] = [at |-> "test", seq |-> qTail, data |-> v]]
  /\ UNCHANGED <<node, qTail, qHead, cons, claimed>>

\* push returns false.
PushRefused(p) ==
  /\ prod[p].at = "test" /\ node[Slot(prod[p].seq)].tail # prod[p].seq
  /\ prod' = [prod EXCEPT ![p].at = "idle"]
  /\ UNCHANGED <<node, qTail, qHead, cons, claimed>>

\* Mutant: the sequence number of the node is not looked at.
PushTest_Blind(p) ==
  /\ prod[p].at = "test"
  /\ prod' = [prod EXCEPT ![p].at = "claim"]
  /\ UNCHANGED <<node, qTail, qHead, cons, claimed>>

PushTest(p) ==
  /\ prod[p].at = "test" /\ node[Slot(prod[p].seq)].tail = prod[p].seq
  /\ prod' = [prod EXCEPT ![p].at = "claim"]
  /\ UNCHANGED <<node, qTail, qHead, cons, claimed>>

\* Mutant: the tail is stored where it must be compared and swapped.
PushClaim_Store(p) ==
  /\ prod[p].at = "claim"
  /\ qTail' = prod[p].seq + 1
  /\ claimed' = Append(claimed, prod[p].data)
  /\ prod' = [prod EXCEPT ![p].at = "fill"]
  /\ UNCHANGED <<node, qHead, cons>>

\* The compare-and-swap of _tail succeeds; with a single producer it is a plain store.
PushClaim(p) ==
  /\ prod[p].at = "claim" /\ (MultiProducer => qTail = prod[p].seq)
  /\ qTail' = prod[p].seq + 1
  /\ claimed' = Append(claimed, prod[p].data)
  /\ prod' = [prod EXCEPT ![p].at = "fill"]
  /\ UNCHANGED <<node, qHead, cons>>

\* The compare-and-swap fails and leaves the current tail in the local one.
PushLostRace(p) ==
  /\ prod[p].at = "claim" /\ MultiProducer /\ qTail # prod[p].seq
  /\ prod' = [prod EXCEPT ![p].at = "test", ![p].seq = qTail]
  /\ UNCHANGED <<node, qTail, qHead, cons, claimed>>

\* The value is constructed in the node by placement new, over whatever is there.
PushFill(p) ==
  /\ prod[p].at = "fill"
  /\ node' = [node EXCEPT ![Slot(prod[p].seq)].data = prod[p].data]
  /\ prod' = [prod EXCEPT ![p].at = "publish"]
  /\ UNCHANGED <<qTail, qHead, cons, claimed>>

\* Mutant: the value is published before it is constructed.
PushPublish_Early(p) ==
  /\ prod[p].at \in {"fill", "publish"}
  /\ node' = [node EXCEPT ![Slot(prod[p].seq)].head = prod[p].seq]
  /\ prod' = [prod EXCEPT ![p].at = IF @ = "fill" THEN "fill" ELSE "idle"]
  /\ UNCHANGED <<qTail, qHead, cons, claimed>>

\* Mutant: the node carries the next number.
PushPublish_OffByOne(p) ==
  /\ prod[p].at = "publish"
  /\ node' = [node EXCEPT ![Slot(prod[p].seq)].head = prod[p].seq + 1]
  /\ prod' = [prod EXCEPT ![p].at = "idle"]
  /\ UNCHANGED <<qTail, qHead, cons, claimed>>

\* The value becomes visible to the consumers.
PushPublish(p) ==
  /\ prod[p].at = "publish"
  /\ node' = [node EXCEPT ![Slot(prod[p].seq)].head = prod[p].seq]
  /\ prod' = [prod EXCEPT ![p].at = "idle"]
  /\ UNCHANGED <<qTail, qHead, cons, claimed>>

-----------------------------------------------------------------------------
(* pop *)

\* The head is loaded.
PopBegin(c) ==
  /\ cons[c].at = "idle"
  /\ cons' = [cons EXCEPT ![c].at = "test", ![c].seq = qHead]
  /\ UNCHANGED <<node, qTail, qHead, prod, claimed>>

\* pop returns false.
PopRefused(c) ==
  /\ cons[c].at = "test" /\ node[Slot(cons[c].seq)].head # cons[c].seq
  /\ cons' = [cons EXCEPT ![c].at = "idle"]
  /\ UNCHANGED <<node, qTail, qHead, prod, claimed>>

\* Mutant: the consumer goes by the tail, as if what is claimed were filled.
PopTest_Claimed(c) ==
  /\ cons[c].at = "test" /\ cons[c].seq < qTail
  /\ cons' = [cons EXCEPT ![c].at = "claim"]
  /\ UNCHANGED <<node, qTail, qHead, prod, claimed>>

PopTest(c) ==
  /\ cons[c].at = "test" /\ node[Slot(cons[c].seq)].head = cons[c].seq
  /\ cons' = [cons EXCEPT ![c].at = "claim"]
  /\ UNCHANGED <<node, qTail, qHead, prod, claimed>>

\* Only the template with many producers and one consumer looks at the node again.
AfterClaim == IF MultiProducer /\ ~MultiConsumer THEN "recheck" ELSE "take"

\* Mutant: the head is stored where it must be compared and swapped.
PopClaim_Store(c) ==
  /\ cons[c].at = "claim"
  /\ qHead' = cons[c].seq + 1
  /\ cons' = [cons EXCEPT ![c].at = AfterClaim]
  /\ UNCHANGED <<node, qTail, prod, claimed>>

\* The compare-and-swap of _head succeeds; with a single consumer it is a plain store.
PopClaim(c) ==
  /\ cons[c].at = "claim" /\ (MultiConsumer => qHead = cons[c].seq)
  /\ qHead' = cons[c].seq + 1
  /\ cons' = [cons EXCEPT ![c].at = AfterClaim]
  /\ UNCHANGED <<node, qTail, prod, claimed>>

PopLostRace(c) ==
  /\ cons[c].at = "claim" /\ MultiConsumer /\ qHead # cons[c].seq
  /\ cons' = [cons EXCEPT ![c].at = "test", ![c].seq = qHead]
  /\ UNCHANGED <<node, qTail, qHead, prod, claimed>>

\* The second look; were it to fail, pop would report an empty queue with the head already advanced.
PopRecheck(c) ==
  /\ cons[c].at = "recheck"
  /\ cons' = [cons EXCEPT ![c].at =
       IF node[Slot(cons[c].seq)].head = cons[c].seq THEN "take" ELSE "idle"]
  /\ UNCHANGED <<node, qTail, qHead, prod, claimed>>

\* The value is copied out and destroyed in the node.
PopTake(c) ==
  /\ cons[c].at = "take"
  /\ cons' = [cons EXCEPT ![c].at = "release", ![c].result = node[Slot(cons[c].seq)].data]
  /\ node' = [node EXCEPT ![Slot(cons[c].seq)].data = NoValue]
  /\ UNCHANGED <<qTail, qHead, prod, claimed>>

\* Mutant: the node is handed on for the sequence number just used.
PopRelease_SameLap(c) ==
  /\ cons[c].at = "release"
  /\ node' = [node EXCEPT ![Slot(cons[c].seq)].tail = cons[c].seq]
  /\ cons' = [cons EXCEPT ![c].at = "idle"]
  /\ UNCHANGED <<qTail, qHead, prod, claimed>>

\* Mutant: the node is handed on before the value is out of it.
PopRelease_Early(c) ==
  /\ cons[c].at \in {"take", "release"}
  /\ node' = [node EXCEPT ![Slot(cons[c].seq)].tail = cons[c].seq + Capacity]
  /\ cons' = [cons EXCEPT ![c].at = IF @ = "take" THEN "take" ELSE "idle"]
  /\ UNCHANGED <<qTail, qHead, prod, claimed>>

\* Mutant: the node is handed on one lap in the wrong direction.
PopRelease_LapBack(c) ==
  /\ cons[c].at = "release"
  /\ node' = [node EXCEPT ![Slot(cons[c].seq)].tail = cons[c].seq - Capacity]
  /\ cons' = [cons EXCEPT ![c].at = "idle"]
  /\ UNCHANGED <<qTail, qHead, prod, claimed>>

\* The node is free for the push one lap ahead.
PopRelease(c) ==
  /\ cons[c].at = "release"
  /\ node' = [node EXCEPT ![Slot(cons[c].seq)].tail = cons[c].seq + Capacity]
  /\ cons' = [cons EXCEPT ![c].at = "idle"]
  /\ UNCHANGED <<qTail, qHead, prod, claimed>>

-----------------------------------------------------------------------------
\* What a thread does within a call.
PushStep(p) ==
  \/ PushRefused(p) \/ PushTest(p) \/ PushClaim(p) \/ PushLostRace(p)
  \/ PushFill(p) \/ PushPublish(p)

PopStep(c) ==
  \/ PopRefused(c) \/ PopTest(c) \/ PopClaim(c) \/ PopLostRace(c)
  \/ PopRecheck(c) \/ PopTake(c) \/ PopRelease(c)

Next ==
  \/ \E p \in Producers : PushStep(p) \/ \E v \in Values : PushBegin(p, v)
  \/ \E c \in Consumers : PopStep(c) \/ PopBegin(c)

Spec == Init /\ [][Next]_vars

\* The system runs every thread that is in a call, and the consumers keep polling.
Fairness ==
  /\ \A p \in Producers : WF_vars(PushStep(p))
  /\ \A c \in Consumers : WF_vars(PopStep(c) \/ PopBegin(c))

FairSpec == Spec /\ Fairness

-----------------------------------------------------------------------------
(* Properties *)

\* The type invariant.
TypeOK ==
  /\ node \in [0 .. Capacity - 1 ->
                 [data : Values \cup {NoValue, Blank}, tail : Nat, head : Nat \cup {-1}]]
  /\ qTail \in Nat /\ qHead \in Nat
  /\ prod \in [Producers -> [at : {"idle", "test", "claim", "fill", "publish"},
                             seq : Nat, data : Values \cup {NoValue}]]
  /\ cons \in [Consumers -> [at : {"idle", "test", "claim", "recheck", "take", "release"},
                             seq : Nat, result : Values \cup {NoValue, Blank}]]
  /\ claimed \in Seq(Values)

Filling(p) == prod[p].at \in {"fill", "publish"}
Emptying(c) == cons[c].at \in {"recheck", "take", "release"}

\* A node is in the hands of one thread at a time: nobody constructs a value in a node where another
\* value is being constructed, copied or destroyed, however long a thread rested in the middle of
\* its call while others went round the ring.
NodeHasOneOwner ==
  /\ \A p, q \in Producers :
       Filling(p) /\ Filling(q) /\ p # q => Slot(prod[p].seq) # Slot(prod[q].seq)
  /\ \A c, d \in Consumers :
       Emptying(c) /\ Emptying(d) /\ c # d => Slot(cons[c].seq) # Slot(cons[d].seq)
  /\ \A p \in Producers, c \in Consumers :
       Filling(p) /\ Emptying(c) => Slot(prod[p].seq) # Slot(cons[c].seq)

\* What a node holds that is free for a number: on the first lap the object new Node[_capacity] made,
\* whose destructor the push then skips; later the raw memory a pop left.
Unused(seq) == IF seq < Capacity THEN Blank ELSE NoValue

\* Each pushed value lives once.  A push never constructs its value over another pushed one, whose
\* destructor would then never run: it finds raw memory or, on the first lap and then always, the
\* object the array was made with.  A pop copies out and destroys a pushed value, never that object
\* and never raw memory.
PushedLiveOnce ==
  /\ \A p \in Producers :
       prod[p].at = "fill" => node[Slot(prod[p].seq)].data = Unused(prod[p].seq)
  /\ \A c \in Consumers :
       cons[c].at = "take" => node[Slot(cons[c].seq)].data \in Values

\* The second look of the template with one consumer never fails: if it did, a value would be lost,
\* since the head has already passed it.
SecondLookPasses ==
  \A c \in Consumers : cons[c].at = "recheck" => node[Slot(cons[c].seq)].head = cons[c].seq

\* What the sequence numbers of the nodes are for: one owner, a pushed value where one is taken and
\* none where one is made, and a second look that can be trusted.
NodesSafe == NodeHasOneOwner /\ PushedLiveOnce /\ SecondLookPasses

\* push refuses only if the queue holds Capacity values, or a consumer has claimed the node and not
\* yet released it, or another producer advanced the tail since this one loaded it.
RefusedPushHasReason ==
  [][\A p \in Producers : PushRefused(p) =>
       \/ qTail - qHead = Capacity
       \/ \E c \in Consumers : Emptying(c) /\ cons[c].seq = prod[p].seq - Capacity
       \/ MultiProducer /\ qTail > prod[p].seq]_vars

\* pop refuses only if the queue is empty, or the producer of its first value has not published it,
\* or another consumer advanced the head since this one loaded it.
RefusedPopHasReason ==
  [][\A c \in Consumers : PopRefused(c) =>
       \/ qHead = qTail
       \/ \E p \in Producers : Filling(p) /\ prod[p].seq = cons[c].seq
       \/ MultiConsumer /\ qHead > cons[c].seq]_vars

\* No call is refused without a reason.
RefusalsHaveReason == RefusedPushHasReason /\ RefusedPopHasReason

\* The values between the advance of the tail for them and the advance of the head, and what each
\* consumer has claimed and not yet copied out.
Contents == SubSeq(claimed, qHead + 1, qTail)
Removed == [c \in Consumers |->
  IF cons[c].at \in {"recheck", "take"} THEN claimed[cons[c].seq + 1] ELSE NoValue]
Returned == [c \in Consumers |-> cons[c].result]

\* The queue is a queue: a value enters it when the tail is advanced for it and leaves it when the
\* head is, in that order, and the consumer that removed it is the one that returns it.
Queue == INSTANCE FifoQueue WITH
  items <- Contents, got <- Removed, result <- Returned, Bound <- Capacity
FifoOrder == Queue!Spec

\* With consumers that keep polling, whatever was pushed is popped: no stalled or lost sequence
\* number wedges the ring.
PushedIsPopped == \A n \in 1 .. MaxPushes : Len(claimed) >= n ~> qHead >= n
=============================================================================
