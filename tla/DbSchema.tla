------------------------------ MODULE DbSchema -------------------------------
(***************************************************************************)
(* db_check_table, db_check_fields and db_check_index of src/db_mysql.cpp: *)
(* they bring a table of the database to its description.  Each statement  *)
(* may fail, and an error may also mean that the answer was lost           *)
(* (MySqlClient); the program may then check again.  A success may mean    *)
(* that nothing was sent at all.                                           *)
(***************************************************************************)
EXTENDS Integers, Sequences, FiniteSets, SequencesExt

CONSTANTS
  Types,             \* what stands behind a column's name in its definition
  Descriptions,      \* the tables of the program: fields, primary, and keys, each with its columns and unique
  MaxFailures,       \* bound: statements that fail
  MaxChecks          \* bound: checks made

VARIABLES
  want,        \* the ITable: what FieldList, PrimaryKey, UniqueKey and IndexKey describe
  db,          \* the table in the database
  at,          \* the check, and where it is in it
  seen,        \* db_field_info, or the keys `show index' told
  todo,        \* names the loop of the check has before it
  handle,      \* client_mysql->real_mysql: "open", or "null" after a connection that could not be opened again
  failures, checks,
  clean,       \* history: the table was as described when the check began
  altered,     \* history: what this check altered
  unsent       \* history: what this check's statements that were never sent are about

schemaVars == <<want, db, at, seen, todo, handle, failures, checks, clean, altered, unsent>>

SchemaAssumption ==
  /\ \A d \in Descriptions : /\ d.primary # <<>> /\ Range(d.primary) \subseteq DOMAIN d.fields
                             /\ \A n \in DOMAIN d.keys : d.keys[n].cols # <<>>
  /\ MaxFailures \in Nat /\ MaxChecks \in Nat

\* Tables there may be: none, one with fewer columns and keys, one with others.
Tables(w) ==
  {[exists |-> FALSE, fields |-> <<>>, primary |-> <<>>, keys |-> <<>>]} \cup
  {[exists |-> TRUE, fields |-> f, primary |-> p, keys |-> k] :
     f \in UNION {[C -> Types] : C \in {{}, DOMAIN w.fields} \cup {{c} : c \in DOMAIN w.fields}} \ {<<>>},
     p \in {<<>>, w.primary, Reverse(w.primary)} \cup {<<c>> : c \in Range(w.primary)},
     k \in {<<>>, w.keys} \cup {[n \in DOMAIN w.keys |-> [w.keys[n] EXCEPT !.cols = Reverse(@)]],
                                [n \in DOMAIN w.keys |-> [w.keys[n] EXCEPT !.unique = ~@]]}}

\* Every key is over columns there are.
Sound(t) ==
  /\ Range(t.primary) \subseteq DOMAIN t.fields
  /\ \A n \in DOMAIN t.keys : Range(t.keys[n].cols) \subseteq DOMAIN t.fields

Agrees(t, w) ==
  /\ t.exists
  /\ \A c \in DOMAIN w.fields : c \in DOMAIN t.fields /\ t.fields[c] = w.fields[c]
  /\ t.primary = w.primary
  /\ \A n \in DOMAIN w.keys : n \in DOMAIN t.keys /\ t.keys[n] = w.keys[n]

SchemaInit ==
  /\ want \in Descriptions
  /\ db \in {t \in Tables(want) : Sound(t)}
  /\ at = "idle" /\ seen = <<>> /\ todo = {} /\ failures = 0 /\ checks = 0 /\ clean = FALSE /\ altered = {}
  /\ handle = "open" /\ unsent = {}

-----------------------------------------------------------------------------
Goto(where, s, names) == at' = where /\ seen' = s /\ todo' = names

\* One more failure; an outage that lasts counts once.
Failing ==
  /\ failures < MaxFailures \/ unsent # {}
  /\ failures' = IF unsent = {} THEN failures + 1 ELSE failures

\* The server carries a statement out, on this connection or a new one.
Sent(possible, table, what, ok) ==
  /\ possible /\ ok
  /\ db' = table /\ altered' = (IF table = db THEN altered ELSE altered \cup {what})
  /\ handle' = "open"
  /\ UNCHANGED <<want, failures, checks, clean, unsent>>

\* It refuses what cannot be done, or an error is all that is known of what was: the check ends.
\* Where the connection was lost and none could be opened, no handle is left.
Fails(possible, table) ==
  /\ \E lost \in BOOLEAN :
       /\ IF lost \/ possible THEN Failing ELSE UNCHANGED failures
       /\ handle' = IF lost THEN "null" ELSE "open"
  /\ db' \in IF possible THEN {db, table} ELSE {db}
  /\ at' = "idle" /\ seen' = <<>> /\ todo' = {} /\ altered' = {}
  /\ UNCHANGED <<want, checks, clean, unsent>>

\* Without a handle and without a new connection client_mysql_query answers success, and nothing
\* was sent (MySqlClient!Unsent).
NotSent(what, ok) ==
  /\ handle = "null" /\ Failing /\ ok
  /\ unsent' = unsent \cup {what}
  /\ UNCHANGED <<want, db, checks, clean, altered, handle>>

\* The rows of a connection's own questions are lost while it is opened: the process ends.
Crashes ==
  /\ Failing
  /\ at' = "crashed" /\ seen' = <<>> /\ todo' = {} /\ altered' = {}
  /\ UNCHANGED <<want, db, checks, clean, unsent, handle>>

\* A statement.  All but the first need the table.
Query(possible, table, what, ok) ==
  LET can == possible /\ (db.exists \/ what = <<"table">>)
  IN Sent(can, table, what, ok) \/ Fails(can, table) \/ NotSent(what, ok) \/ Crashes

\* A question: its rows, or success without a result set, whether it was not sent or its rows were
\* lost.  mysql_fetch_row is then given a null pointer: it ends the process, or finds no row.
Ask(rows, none, where, names) ==
  \/ Sent(db.exists, db, <<"none">>, Goto(where, rows, names))
  \/ Fails(db.exists, db)
  \/ NotSent(<<"none">>, Goto(where, none, names))
  \/ /\ db.exists /\ Failing /\ Goto(where, none, names) /\ handle' = "open"
     /\ UNCHANGED <<want, db, checks, clean, altered, unsent>>
  \/ Crashes

\* db_check_table: CREATE TABLE IF NOT EXISTS.
CheckTable ==
  /\ at = "idle" /\ checks < MaxChecks
  /\ checks' = checks + 1 /\ clean' = Agrees(db, want)
  /\ at' = "create" /\ altered' = {} /\ unsent' = {}
  /\ UNCHANGED <<want, db, seen, todo, failures, handle>>

CreateTable ==
  /\ at = "create"
  /\ Query(TRUE,
           IF db.exists THEN db ELSE [exists |-> TRUE, fields |-> want.fields, primary |-> want.primary, keys |-> want.keys],
           <<"table">>,
           Goto("columns", <<>>, {}))

\* db_check_fields: SHOW FULL COLUMNS, ...
ShowColumns ==
  /\ at = "columns"
  /\ Ask(db.fields, <<>>, "fields", DOMAIN want.fields)

\* ... and ADD or MODIFY COLUMN for each field of the description.
CheckField ==
  /\ at = "fields" /\ todo # {}
  /\ LET c == CHOOSE x \in todo : TRUE
         right == [db EXCEPT !.fields = [x \in DOMAIN db.fields \cup {c} |->
                                           IF x = c THEN want.fields[c] ELSE db.fields[x]]]
         on == Goto("fields", seen, todo \ {c})
     IN \/ /\ c \notin DOMAIN seen
           /\ Query(c \notin DOMAIN db.fields, right, <<"column", c>>, on)
        \/ /\ c \in DOMAIN seen /\ seen[c] # want.fields[c]
           /\ Query(TRUE, right, <<"column", c>>, on)
        \/ /\ c \in DOMAIN seen /\ seen[c] = want.fields[c]
           /\ on /\ UNCHANGED <<want, db, handle, failures, checks, clean, altered, unsent>>

FieldsDone ==
  /\ at = "fields" /\ todo = {}
  /\ at' = "index"
  /\ UNCHANGED <<want, db, seen, todo, handle, failures, checks, clean, altered, unsent>>

\* db_check_index: show index.
ShowIndex ==
  /\ at = "index"
  /\ Ask([primary |-> db.primary, keys |-> db.keys], [primary |-> <<>>, keys |-> <<>>], "primary", {})

\* The comparison of a key's columns with the database's: GetDesc has three entries for a
\* field, the loop goes on by four, so that the second column it looks at is a column's type.
SameKey(cols, dbCols) == Len(cols) = 1 /\ cols = dbCols

\* _CheckPrimaryKey: DROP PRIMARY KEY, ...
CheckPrimaryKey ==
  /\ at = "primary"
  /\ LET on == IF SameKey(want.primary, seen.primary) THEN "keys" ELSE "add primary"
     IN IF on = "keys" \/ seen.primary = <<>>
        THEN Goto(on, seen, DOMAIN want.keys) /\ UNCHANGED <<want, db, handle, failures, checks, clean, altered, unsent>>
        ELSE Query(db.primary # <<>>, [db EXCEPT !.primary = <<>>], <<"primary">>, Goto(on, seen, DOMAIN want.keys))

\* ... ADD PRIMARY KEY.
AddPrimaryKey ==
  /\ at = "add primary"
  /\ Query(db.primary = <<>> /\ Range(want.primary) \subseteq DOMAIN db.fields,
           [db EXCEPT !.primary = want.primary], <<"primary">>, Goto("keys", seen, todo))

\* _CheckIndexKey, for the unique keys and for the others: a key is found among those of its kind.
Found(n) == n \in DOMAIN seen.keys /\ seen.keys[n].unique = want.keys[n].unique
AddedKey(n) == [db EXCEPT !.keys = [x \in DOMAIN @ \cup {n} |-> IF x = n THEN want.keys[n] ELSE @[x]]]
CanAddKey(n) == n \notin DOMAIN db.keys /\ Range(want.keys[n].cols) \subseteq DOMAIN db.fields

\* The unique keys come first.
NextKey ==
  LET unique == {n \in todo : want.keys[n].unique}
  IN CHOOSE n \in todo : unique # {} => n \in unique

\* Mutant: a key that is there is taken for right.
CheckKey_FoundIsRight ==
  /\ at = "keys" /\ todo # {}
  /\ LET n == NextKey
         on == Goto("keys", seen, todo \ {n})
     IN IF ~Found(n) THEN Query(CanAddKey(n), AddedKey(n), <<"key", n>>, on)
        ELSE on /\ UNCHANGED <<want, db, handle, failures, checks, clean, altered, unsent>>

\* ADD a key, or DROP INDEX one that is not the same.
CheckKey ==
  /\ at = "keys" /\ todo # {}
  /\ LET n == NextKey
         on == Goto("keys", seen, todo \ {n})
     IN \/ /\ ~Found(n)
           /\ Query(CanAddKey(n), AddedKey(n), <<"key", n>>, on)
        \/ /\ Found(n) /\ SameKey(want.keys[n].cols, seen.keys[n].cols)
           /\ on /\ UNCHANGED <<want, db, handle, failures, checks, clean, altered, unsent>>
        \/ /\ Found(n) /\ ~SameKey(want.keys[n].cols, seen.keys[n].cols)
           /\ Query(n \in DOMAIN db.keys,
                    [db EXCEPT !.keys = [x \in DOMAIN @ \ {n} |-> @[x]]], <<"key", n>>, Goto("add key", seen, todo))

AddKey ==
  /\ at = "add key"
  /\ LET n == NextKey
     IN Query(CanAddKey(n), AddedKey(n), <<"key", n>>, Goto("keys", seen, todo \ {n}))

KeysDone ==
  /\ at = "keys" /\ todo = {}
  /\ at' = "done"
  /\ UNCHANGED <<want, db, seen, todo, handle, failures, checks, clean, altered, unsent>>

\* The program uses the table, and checks again later; one that crashed has a new connection then.
Restart ==
  /\ at \in {"done", "crashed"}
  /\ at' = "idle" /\ seen' = <<>> /\ altered' = {}
  /\ handle' = IF at = "crashed" THEN "open" ELSE handle
  /\ UNCHANGED <<want, db, todo, failures, checks, clean, unsent>>

SchemaNext ==
  \/ CheckTable \/ CreateTable \/ ShowColumns \/ CheckField \/ FieldsDone \/ ShowIndex
  \/ CheckPrimaryKey \/ AddPrimaryKey \/ CheckKey \/ AddKey \/ KeysDone \/ Restart

SchemaSpec == SchemaInit /\ [][SchemaNext]_schemaVars

-----------------------------------------------------------------------------
\* A check in which a statement was answered with success and never sent (client_mysql.c:438-448).
Unsent(what) == what \in unsent

\* After checks without an error the table is as described, whatever it was and wherever
\* earlier checks broke off, but for the parts whose own statements were Unsent
\* (db_mysql.cpp:971-1452).
SchemaAgrees ==
  at = "done" =>
    /\ unsent = {} => Agrees(db, want)
    /\ db.exists \/ Unsent(<<"table">>)
    /\ db.exists =>
         /\ \A c \in DOMAIN want.fields :
              (c \in DOMAIN db.fields /\ db.fields[c] = want.fields[c]) \/ Unsent(<<"column", c>>)
         /\ db.primary = want.primary \/ Unsent(<<"primary">>)
         /\ \A n \in DOMAIN want.keys :
              (n \in DOMAIN db.keys /\ db.keys[n] = want.keys[n]) \/ Unsent(<<"key", n>>)

\* A check of a table that is as described alters nothing but keys of several columns, which
\* SameKey never finds the same (db_mysql.cpp:1132-1140, 1247-1254).
Rebuilt ==
  (IF Len(want.primary) > 1 THEN {<<"primary">>} ELSE {})
    \cup {<<"key", n>> : n \in {m \in DOMAIN want.keys : Len(want.keys[m].cols) > 1}}
SecondCheckAltersNothing == clean => altered \subseteq Rebuilt

SchemaSafe == SchemaAgrees /\ SecondCheckAltersNothing
=============================================================================
