----------------------------- MODULE MCLockFree ------------------------------
(***************************************************************************)
(* The four templates of include/lock_free_queue.hpp, for TLC.  A          *)
(* behaviour is one of the template `template' names: many producers and   *)
(* many consumers, one of the two single (the other thread of that side    *)
(* then never calls), or both, which is the queue of LockFreeSpsc.         *)
(* The constants are those of the first.                                   *)
(***************************************************************************)
EXTENDS LockFreeQueue

CONSTANTS
  producer, consumer   \* the only producer, and the only consumer, of the other templates

VARIABLES template, data, sTail, sHead, push, pop, result

ringVars == <<data, sTail, sHead, push, pop, result>>

Mpsc == INSTANCE LockFreeQueue WITH MultiConsumer <- FALSE
Spmc == INSTANCE LockFreeQueue WITH MultiProducer <- FALSE
Spsc == INSTANCE LockFreeSpsc WITH Capacity <- 4, qTail <- sTail, qHead <- sHead

ASSUME RingConstants == Spsc!SpscAssumption

MCInit ==
  /\ template \in {"mpmc", "mpsc", "spmc", "spsc"}
  /\ Init /\ Spsc!Init

\* Every thread of the template at its next step within a call.
MCPushStep(p) ==
  /\ \/ template = "mpmc" /\ PushStep(p)
     \/ template = "mpsc" /\ Mpsc!PushStep(p)
     \/ template = "spmc" /\ p = producer /\ Spmc!PushStep(p)
  /\ UNCHANGED <<template, ringVars>>

MCPopStep(c) ==
  /\ \/ template = "mpmc" /\ PopStep(c)
     \/ template = "mpsc" /\ c = consumer /\ Mpsc!PopStep(c)
     \/ template = "spmc" /\ Spmc!PopStep(c)
  /\ UNCHANGED <<template, ringVars>>

\* With two producers and two consumers each producer has a value of its own, to keep the graph small.
ValuesOf(p) == IF template # "mpmc" THEN Values ELSE IF p = producer THEN {1} ELSE {2}

MCPushBegin(p) ==
  /\ template # "spsc" /\ (template = "spmc" => p = producer)
  /\ \E v \in ValuesOf(p) : PushBegin(p, v)
  /\ UNCHANGED <<template, ringVars>>

MCPopBegin(c) ==
  /\ template # "spsc" /\ (template = "mpsc" => c = consumer)
  /\ PopBegin(c)
  /\ UNCHANGED <<template, ringVars>>

MCSpsc == template = "spsc" /\ Spsc!Next /\ UNCHANGED <<template, vars>>

MCNext ==
  \/ \E p \in Producers : MCPushStep(p) \/ MCPushBegin(p)
  \/ \E c \in Consumers : MCPopStep(c) \/ MCPopBegin(c)
  \/ MCSpsc

mcVars == <<template, vars, ringVars>>

\* As Fairness of LockFreeQueue, for the threads the template has.
MCSpec ==
  /\ MCInit /\ [][MCNext]_mcVars
  /\ \A p \in Producers : WF_mcVars(MCPushStep(p))
  /\ \A c \in Consumers : WF_mcVars(MCPopStep(c) \/ MCPopBegin(c))

-----------------------------------------------------------------------------
\* The queue that has indices only is a queue of at most one value less than it has places
\* (lock_free_queue.hpp:300-391).
SpscFifoOrder == Spsc!FifoOrder
=============================================================================
