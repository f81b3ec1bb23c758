--------------------------- MODULE Announcements ---------------------------
(* The bytes that the events queued for the main thread announce, for both transports. *)
EXTENDS Integers, Sequences

\* The bytes the DATA events of the queue q announce for the session s.
Announced(q, s) ==
  LET sum[i \in 0 .. Len(q)] ==
        IF i = 0 THEN 0 ELSE sum[i - 1] + (IF q[i].sock = s THEN q[i].len ELSE 0)
  IN sum[Len(q)]

=============================================================================
