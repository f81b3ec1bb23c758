------------------------------ MODULE MCLogger ------------------------------
(* An instance of Logger for TLC.  A thread makes four calls while the main  *)
(* thread destroys the logger and stops the manager: the queue of one        *)
(* command is full at times, and a write may find recycled commands.  Or     *)
(* both threads call, so commands are counted in both counters.              *)
EXTENDS Logger

Calling(main, other) == [t \in Threads |-> IF t = Main THEN main ELSE other]
ScriptsDef ==
  {Calling(<<>>, <<"write", "flush", "write", "reset">>), Calling(<<"flush">>, <<"write">>)}
=============================================================================
