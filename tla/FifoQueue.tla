----------------------------- MODULE FifoQueue ------------------------------
(***************************************************************************)
(* What a queue shared by several threads promises: a value is appended at *)
(* once, and a consumer removes the first value at once, before it returns *)
(* it.  A call may also refuse, which changes nothing.                     *)
(***************************************************************************)
EXTENDS Naturals, Sequences

CONSTANTS Consumers, Values, NoValue, Bound

VARIABLES
  items,    \* what is in the queue
  got,      \* what each consumer has removed and not yet returned
  result    \* what each consumer returned last

Init ==
  /\ items = <<>>
  /\ got = [c \in Consumers |-> NoValue]
  /\ result = [c \in Consumers |-> NoValue]

Put(v) ==
  /\ Len(items) < Bound
  /\ items' = Append(items, v)
  /\ UNCHANGED <<got, result>>

Get(c) ==
  /\ items # <<>> /\ got[c] = NoValue
  /\ items' = Tail(items)
  /\ got' = [got EXCEPT ![c] = Head(items)]
  /\ UNCHANGED result

Return(c) ==
  /\ got[c] # NoValue
  /\ result' = [result EXCEPT ![c] = got[c]]
  /\ got' = [got EXCEPT ![c] = NoValue]
  /\ UNCHANGED items

Next ==
  \/ \E v \in Values : Put(v)
  \/ \E c \in Consumers : Get(c) \/ Return(c)

Spec == Init /\ [][Next]_<<items, got, result>>
=============================================================================
