----------------------------- MODULE ByteQueue ------------------------------
(***************************************************************************)
(* What a loop_cache is to its two users: a first-in first-out queue of    *)
(* bytes with fewer than size entries.  The producer prepares bytes and    *)
(* appends them at once; the consumer looks at bytes from the front and    *)
(* drops some of those it has seen.                                        *)
(***************************************************************************)
EXTENDS Naturals, Sequences

CONSTANTS Bytes, Sizes

VARIABLES queue, size, input, output

Init ==
  /\ queue = <<>> /\ input = <<>> /\ output = <<>>
  /\ size \in Sizes

Write(v) == input' = Append(input, v) /\ UNCHANGED <<queue, size, output>>

\* What was written is appended: nothing, when the producer gives up before its first byte.
Push ==
  /\ Len(queue) + Len(input) < size
  /\ queue' = queue \o input
  /\ input' = <<>>
  /\ UNCHANGED <<size, output>>

Look ==
  /\ Len(output) < Len(queue)
  /\ output' = Append(output, queue[Len(output) + 1])
  /\ UNCHANGED <<queue, size, input>>

Drop(n) ==
  /\ n <= Len(output)
  /\ queue' = SubSeq(queue, n + 1, Len(queue))
  /\ output' = <<>>
  /\ UNCHANGED <<size, input>>

\* Only between two uses, by a thread that owns both ends.
Clear(n) ==
  /\ input = <<>> /\ output = <<>>
  /\ queue' = <<>> /\ size' = n
  /\ UNCHANGED <<input, output>>

Next ==
  \/ \E v \in Bytes : Write(v)
  \/ Push \/ Look
  \/ \E n \in 0 .. Len(output) : Drop(n)
  \/ \E n \in Sizes : Clear(n)

Spec == Init /\ [][Next]_<<queue, size, input, output>>
=============================================================================
