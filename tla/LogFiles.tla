------------------------------ MODULE LogFiles ------------------------------
(***************************************************************************)
(* Which file a record of src/logger.cpp goes to: _check_log and           *)
(* _reset_log.  A logger has a file for each day, further files of the day *)
(* when one is full, and the threads' clocks are kept as a broken-down     *)
(* time whose seconds are moved while the minute lasts.                    *)
(*                                                                         *)
(* One logger, records of several threads.  Opening a file may fail.  The  *)
(* clock may be set back.                                                  *)
(***************************************************************************)
EXTENDS Integers, FiniteSets

CONSTANTS
  Procs,         \* threads that log
  MinuteLen,     \* seconds in a minute
  DayLen,        \* seconds in a day, a number of minutes
  MAX_LOG_FILE_SIZE,
  MaxTime,       \* bound: the last second
  MaxRecords     \* bound: commands

VARIABLES
  file,          \* the name of the open file, or None
  file_day,      \* file_time
  file_idx, file_size,
  last_time,     \* last_log_time of each thread
  last_tm,       \* last_log_tm of each thread
  disk,          \* the size of each file
  commands,      \* history: commands so far
  astray         \* history: a record in another day's file, though its thread's clock moved

vars == <<file, file_day, file_idx, file_size, last_time, last_tm, disk, commands, astray>>

Times == 0 .. MaxTime
None == [day |-> -1, idx |-> -1]

\* localtime_r
LocalTime(t) == [day |-> t \div DayLen, minute |-> (t % DayLen) \div MinuteLen, sec |-> t % MinuteLen]

\* The first file of a day has no number.
Name(day, idx) == [day |-> day, idx |-> idx]

\* A logger in the middle of a command, and what opening a file in a mode makes of it.
Logger == [file |-> file, day |-> file_day, idx |-> file_idx, size |-> file_size, disk |-> disk, ok |-> TRUE]

Opened(l, name, mode, works) ==
  LET size == IF mode = "a" /\ name \in DOMAIN l.disk THEN l.disk[name] ELSE 0 IN
  IF works
  THEN [l EXCEPT !.file = name, !.size = size,
                 !.disk = [n \in DOMAIN l.disk \cup {name} |-> IF n = name THEN size ELSE l.disk[n]]]
  ELSE [l EXCEPT !.file = None, !.ok = FALSE]

\* The first part of _check_log, and of _reset_log, which closes the file before it.
OpenFirst(l, mode, now, works) ==
  IF l.file # None THEN l
  ELSE LET o == Opened([l EXCEPT !.day = LocalTime(now).day], Name(LocalTime(now).day, 0), mode, works)
       IN IF o.ok THEN [o EXCEPT !.idx = 0] ELSE o

\* Mutant: the second after the last of a minute is still taken for one of it.
MovedTm_OffByOne(tm, delta, now) ==
  IF delta < MinuteLen /\ delta > -MinuteLen /\ tm.sec + delta \in 0 .. MinuteLen
  THEN [tm EXCEPT !.sec = @ + delta] ELSE LocalTime(now)

\* The broken-down time is moved by seconds within its minute, and computed anew otherwise.
MovedTm(tm, delta, now) ==
  IF delta < MinuteLen /\ delta > -MinuteLen /\ tm.sec + delta \in 0 .. MinuteLen - 1
  THEN [tm EXCEPT !.sec = @ + delta] ELSE LocalTime(now)

\* Another day: another file, and its number is that of the day before until it is full.
NextDay(l, mode, tm, works) ==
  IF tm.day = l.day THEN l ELSE Opened([l EXCEPT !.day = tm.day], Name(tm.day, 0), mode, works)

\* Mutant: a full file is left for the next one, whatever its size.
NextNumber_Once(l, mode, works) ==
  IF l.size < MAX_LOG_FILE_SIZE THEN l
  ELSE Opened([l EXCEPT !.idx = l.idx + 1], Name(l.day, l.idx + 1), mode, works)

\* A full file: the next number whose file is not full.
RECURSIVE NextNumber(_, _, _)
NextNumber(l, mode, works) ==
  IF ~l.ok \/ l.size < MAX_LOG_FILE_SIZE THEN l
  ELSE NextNumber(Opened([l EXCEPT !.idx = l.idx + 1], Name(l.day, l.idx + 1), mode, works), mode, works)

Init ==
  /\ file = None /\ file_day = -1 /\ file_idx = 0 /\ file_size = 0
  /\ last_time = [p \in Procs |-> 0] /\ last_tm = [p \in Procs |-> LocalTime(0)]
  /\ disk \in {<<>>, [n \in {Name(0, 0)} |-> MAX_LOG_FILE_SIZE]}
  /\ commands = 0 /\ astray = FALSE

\* `works' are the openings that do not fail.  The clock part is reached only with an open file.
Checked(p, now, mode, works, first) ==
  LET delta == now - last_time[p]
      l1 == OpenFirst(first, mode, now, "day" \in works)
      tm == IF delta = 0 THEN last_tm[p] ELSE MovedTm(last_tm[p], delta, now)
      l2 == IF delta = 0 THEN l1 ELSE NextDay(l1, mode, tm, "day" \in works)
  IN [l |-> IF ~l1.ok THEN l1 ELSE IF ~l2.ok THEN l2 ELSE NextNumber(l2, mode, "number" \in works),
      time |-> IF l1.ok THEN now ELSE last_time[p], tm |-> IF l1.ok THEN tm ELSE last_tm[p]]

Keeps(p, c, l) ==
  /\ file' = l.file /\ file_day' = l.day /\ file_idx' = l.idx /\ file_size' = l.size /\ disk' = l.disk
  /\ last_time' = [last_time EXCEPT ![p] = c.time] /\ last_tm' = [last_tm EXCEPT ![p] = c.tm]
  /\ commands' = commands + 1

\* _check_log, and the record is written when it says so.
WriteRecord(p, now, works) ==
  /\ commands < MaxRecords
  /\ LET c == Checked(p, now, "a", works, Logger) IN
       IF ~c.l.ok THEN Keeps(p, c, c.l) /\ UNCHANGED astray
       ELSE /\ Keeps(p, c, [c.l EXCEPT !.size = @ + 1, !.disk[c.l.file] = @ + 1])
            /\ astray' = (astray \/ (now # last_time[p] /\ c.l.file.day # LocalTime(now).day))

\* _reset_log: the day's file begins anew.
ResetLog(p, now, works) ==
  /\ commands < MaxRecords
  /\ LET c == Checked(p, now, "w", works, [Logger EXCEPT !.file = None]) IN Keeps(p, c, c.l)
  /\ UNCHANGED astray

Next ==
  \E p \in Procs, now \in Times, works \in SUBSET {"day", "number"} : WriteRecord(p, now, works) \/ ResetLog(p, now, works)

Spec == Init /\ [][Next]_vars

-----------------------------------------------------------------------------
(* Properties *)

\* The counter of an open file is the file's size.
SizesMatch == file # None => file \in DOMAIN disk /\ file_size = disk[file]

\* No file is written once it is full, whatever was there before and whichever files failed to open.
FilesBounded == \A n \in DOMAIN disk : disk[n] <= MAX_LOG_FILE_SIZE

\* A thread's broken-down time is that of its last record, also after the clock was set back.
StampsRight == \A p \in Procs : last_tm[p] = LocalTime(last_time[p])

\* What the files of a logger promise: counters that are true, files that stay below the limit,
\* stamps that are right, and a record in the file of its own day unless its thread wrote another
\* record in the same second (logger.cpp:738-875, 877-1010).
LogFilesInOrder == SizesMatch /\ FilesBounded /\ StampsRight /\ ~astray
=============================================================================
