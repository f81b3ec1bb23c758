----------------------------- MODULE MySqlClient -----------------------------
(***************************************************************************)
(* src/client_mysql.c: one client_mysql with the connection it reopens     *)
(* when the server has gone, and the results of a statement read one after *)
(* the other.  The server, the network and the MySQL library are modelled  *)
(* as the code uses them: a statement may be carried out and its answer    *)
(* lost.                                                                   *)
(***************************************************************************)
EXTENDS Integers, Sequences

CONSTANTS
  MaxQueries,   \* bound: calls of client_mysql_query
  MaxLosses     \* bound: how often the network or the server fails

SqlAssumption == MaxQueries \in Nat /\ MaxLosses \in Nat

VARIABLES
  real_mysql,   \* client_mysql->real_mysql: "null", or a handle, "linked" or "broken"
  unread,       \* results of the last statement that were not fetched from the connection
  at,           \* where the calling thread is
  sql,          \* the statement of the call, a sequence of statements (CLIENT_MULTI_STATEMENTS)
  result,       \* the CLIENTMYSQLRES
  stored,       \* history: result sets mysql_store_result made and mysql_free_result did not free
  hist,         \* history of the call: times carried out, answers lost, and why it ended
  calls, losses \* the bounds

sqlVars == <<real_mysql, unread, at, sql, result, stored, hist, calls, losses>>

\* What one statement has for its caller: rows, a number of rows, or the server's refusal.
Kinds == {"rows", "count", "refused"}
Statements == {<<k>> : k \in Kinds} \cup {<<j, k>> : j \in {"rows", "count"}, k \in Kinds}

NoResult == [cur |-> FALSE, rows |-> FALSE, error |-> "0"]
NoHist == [times |-> 0, lost |-> 0, why |-> "none"]

SqlInit ==
  /\ real_mysql = "null" /\ unread = <<>> /\ at = "down" /\ sql = <<>> /\ result = NoResult
  /\ stored = 0 /\ hist = NoHist /\ calls = 0 /\ losses = 0

-----------------------------------------------------------------------------
\* mysql_init, mysql_real_connect, the look for the character set, mysql_set_character_set and the
\* question whether it is in use everywhere: each of them may fail, and then nothing is left.
Connects(ok) ==
  /\ losses + (IF ok THEN 0 ELSE 1) =< MaxLosses
  /\ losses' = losses + (IF ok THEN 0 ELSE 1)
  /\ real_mysql' = IF ok THEN "linked" ELSE "null"
  /\ unread' = <<>>

\* The rows of one of these two questions are lost on their way: mysql_store_result gives none, and
\* the code looks into them all the same.  The process ends.
ConnectCrashes ==
  /\ losses < MaxLosses
  /\ losses' = losses + 1 /\ at' = "crashed"
  /\ hist' = [NoHist EXCEPT !.why = "null rows"]
  /\ UNCHANGED <<real_mysql, unread, sql, result, stored, calls>>

\* create_client_mysql, duplicate_client_mysql.
CreateClient ==
  /\ at = "down"
  /\ \/ /\ \E ok \in BOOLEAN : Connects(ok) /\ at' = IF ok THEN "idle" ELSE "down"
        /\ UNCHANGED <<sql, result, stored, hist, calls>>
     \/ ConnectCrashes

\* destroy_client_mysql.
DestroyClient ==
  /\ at = "idle" /\ stored = 0
  /\ at' = "down" /\ real_mysql' = "null" /\ unread' = <<>> /\ result' = NoResult
  /\ UNCHANGED <<sql, stored, hist, calls, losses>>

\* client_mysql_query up to its label.
QueryBegin ==
  /\ at = "idle" /\ stored = 0 /\ calls < MaxQueries
  /\ at' = "query" /\ result' = NoResult /\ hist' = NoHist /\ calls' = calls + 1
  /\ sql' \in Statements
  /\ UNCHANGED <<real_mysql, unread, stored, losses>>

\* mysql_real_query where the last results were not read: the library sends nothing.
QueryOutOfSync ==
  /\ at = "query" /\ real_mysql = "linked" /\ unread # <<>>
  /\ result' = [result EXCEPT !.error = "out of sync"]
  /\ hist' = [hist EXCEPT !.why = "unread"]
  /\ at' = "got"
  /\ UNCHANGED <<real_mysql, unread, sql, stored, calls, losses>>

\* mysql_real_query on a connection that is up.  The server goes on as long as the statements are right.
QueryAnswered ==
  /\ at = "query" /\ real_mysql = "linked" /\ unread = <<>>
  /\ IF Head(sql) = "refused"
     THEN /\ result' = [result EXCEPT !.error = "refused"]
          /\ hist' = [hist EXCEPT !.why = "refused"]
          /\ at' = "got" /\ UNCHANGED unread
     ELSE /\ hist' = [hist EXCEPT !.times = @ + 1]
          /\ unread' = sql /\ at' = "store" /\ UNCHANGED result
  /\ UNCHANGED <<real_mysql, sql, stored, calls, losses>>

\* The connection breaks, before or after the server has carried the statement out.
QueryLost ==
  /\ at = "query" /\ real_mysql = "linked" /\ unread = <<>> /\ losses < MaxLosses
  /\ \E done \in IF Head(sql) = "refused" THEN {0} ELSE {0, 1} :
       hist' = [hist EXCEPT !.times = @ + done, !.lost = @ + done]
  /\ real_mysql' = "broken" /\ losses' = losses + 1
  /\ UNCHANGED <<unread, at, sql, result, stored, calls>>

\* Mutant: the statement is not sent again.
QueryReconnect_GivesUp ==
  /\ at = "query" /\ real_mysql # "linked"
  /\ \E ok \in BOOLEAN :
       /\ Connects(ok)
       /\ at' = "got"
       /\ result' = [result EXCEPT !.error = IF ok \/ real_mysql = "null" THEN "0" ELSE "lost"]
       /\ hist' = [hist EXCEPT !.why = IF real_mysql = "null" THEN "unsent" ELSE "lost"]
  /\ UNCHANGED <<sql, stored, calls>>

\* _re_connect: the statement is sent again, or the call ends with the error of the lost
\* connection; without a handle there was none.
QueryReconnect ==
  /\ at = "query" /\ real_mysql # "linked"
  /\ \/ /\ \E ok \in BOOLEAN :
             /\ Connects(ok)
             /\ at' = IF ok THEN "query" ELSE "got"
             /\ result' = [result EXCEPT !.error = IF ok \/ real_mysql = "null" THEN "0" ELSE "lost"]
             /\ hist' = IF ok THEN hist ELSE [hist EXCEPT !.why = IF real_mysql = "null" THEN "unsent" ELSE "lost"]
        /\ UNCHANGED <<sql, stored, calls>>
     \/ ConnectCrashes

\* mysql_store_result and mysql_field_count: a result set, a number of rows, or neither, when the
\* connection breaks while the rows are read.
Store(read) ==
  /\ real_mysql' = IF read THEN "linked" ELSE "broken"
  /\ losses' = IF read THEN losses ELSE losses + 1
  /\ unread' = IF read THEN Tail(unread) ELSE <<>>
  /\ stored' = IF read /\ Head(unread) = "rows" THEN stored + 1 ELSE stored

QueryStore ==
  /\ at = "store"
  /\ \E read \in IF Head(unread) = "rows" /\ losses < MaxLosses THEN BOOLEAN ELSE {TRUE} :
       /\ Store(read)
       /\ result' = [result EXCEPT !.cur = read, !.rows = read /\ Head(unread) = "rows"]
       /\ hist' = [hist EXCEPT !.why = IF read THEN "answered" ELSE "rows lost"]
  /\ at' = "got"
  /\ UNCHANGED <<sql, calls>>

-----------------------------------------------------------------------------
\* client_mysql_next_result: the last set is freed, and the next one is read; the caller goes on
\* only from a result with a connection.
NextResult ==
  /\ at = "got" /\ result.cur /\ result.error = "0"
  /\ LET freed == stored - (IF result.rows THEN 1 ELSE 0)
     IN \/ /\ real_mysql = "linked" /\ unread = <<>>
           /\ stored' = freed /\ result' = [result EXCEPT !.rows = FALSE]
           /\ at' = "idle" /\ UNCHANGED <<real_mysql, unread, losses>>
        \/ /\ real_mysql = "linked" /\ unread # <<>> /\ Head(unread) = "refused"
           /\ stored' = freed /\ result' = [result EXCEPT !.rows = FALSE, !.error = "refused"]
           /\ unread' = <<>> /\ UNCHANGED <<real_mysql, at, losses>>
        \/ /\ real_mysql = "linked" /\ unread # <<>> /\ Head(unread) # "refused"
           /\ stored' = IF Head(unread) = "rows" THEN freed + 1 ELSE freed
           /\ result' = [result EXCEPT !.rows = Head(unread) = "rows"]
           /\ unread' = Tail(unread) /\ UNCHANGED <<real_mysql, at, losses>>
        \/ /\ real_mysql = "linked" /\ unread # <<>> /\ losses < MaxLosses
           /\ stored' = freed
           /\ \E error \in {"lost", "no result set"} : result' = [result EXCEPT !.rows = FALSE, !.error = error]
           /\ real_mysql' = "broken" /\ unread' = <<>> /\ losses' = losses + 1 /\ UNCHANGED at
  /\ UNCHANGED <<sql, hist, calls>>

\* Mutant: rows are freed only when nothing is left to read.
FreeResult_OfLast ==
  /\ at = "got"
  /\ stored' = stored - (IF result.rows /\ unread = <<>> THEN 1 ELSE 0)
  /\ result' = [result EXCEPT !.rows = FALSE]
  /\ at' = "idle"
  /\ UNCHANGED <<real_mysql, unread, sql, hist, calls, losses>>

\* client_mysql_free_result: what is not read yet stays on the connection.
FreeResult ==
  /\ at = "got"
  /\ stored' = stored - (IF result.rows THEN 1 ELSE 0)
  /\ result' = [result EXCEPT !.rows = FALSE]
  /\ at' = "idle"
  /\ UNCHANGED <<real_mysql, unread, sql, hist, calls, losses>>

\* The server closes an idle connection.
ServerGone ==
  /\ at \in {"idle", "got"} /\ real_mysql = "linked" /\ losses < MaxLosses
  /\ real_mysql' = "broken" /\ unread' = <<>> /\ losses' = losses + 1
  /\ UNCHANGED <<at, sql, result, stored, hist, calls>>

SqlNext ==
  \/ CreateClient \/ DestroyClient \/ QueryBegin \/ QueryOutOfSync \/ QueryAnswered \/ QueryLost
  \/ QueryReconnect \/ QueryStore \/ NextResult \/ FreeResult \/ ServerGone

SqlSpec == SqlInit /\ [][SqlNext]_sqlVars

-----------------------------------------------------------------------------
\* A call that could not reopen a connection it had lost before: it answers success and has done nothing.
Unsent == hist.why = "unsent" /\ hist.times = 0

\* The rows of a connection's own questions were lost while it was opened: the process has ended.
NullRows == at = "crashed" /\ hist.why = "null rows"

\* The rows were lost on their way: success, without rows.
RowsLost == hist.why = "rows lost"

\* client_mysql_result_success is right but for Unsent and RowsLost: after success the statement was
\* carried out, after an error it was not or an answer was lost; and it was carried out again
\* only after a lost answer (client_mysql.c:22-30, 271-499).
ReportsHonest ==
  at = "got" /\ hist.why # "none" =>
    /\ result.error = "0" => hist.times > 0 \/ Unsent
    /\ result.error = "lost" => hist.times =< hist.lost \/ hist.why = "answered"
    /\ hist.times =< hist.lost + 1
    /\ result.rows => result.cur /\ ~RowsLost

\* Every result set is freed once, by the caller's one call (client_mysql.c:501-572).
ResultSetsFreed ==
  /\ at = "crashed" => NullRows
  /\ stored = IF result.rows THEN 1 ELSE 0
  /\ at # "got" => stored = 0

MySqlSafe == ReportsHonest /\ ResultSetsFreed
=============================================================================
