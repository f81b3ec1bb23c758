---------------------------- MODULE MCComponents ----------------------------
(***************************************************************************)
(* The components that keep to themselves, for TLC: the trees, the timer   *)
(* wheel, the memory units, the memory managers, the memory of threads and *)
(* its trace, the files of a logger, a loop cache used for messages, and   *)
(* data: JSON texts, messages on the wire, arrays, and documents read into *)
(* objects.  They share nothing, so a behaviour is one of one of them:     *)
(* `part' says whose, and the variables of the others stay at Absent.      *)
(* Each component's module is instantiated with the constants of its       *)
(* instance.                                                               *)
(***************************************************************************)
EXTENDS Integers, Sequences, FiniteSets, TLC

CONSTANTS
  Timers,     \* two timers
  Others,     \* two threads that did not create the memory unit
  LogThreads  \* two threads that log

VARIABLES
  part,
  kind, rb, avl, live, dict,
  last_tick, tick, tv, work_list, info, alive, handles, at, running, left,
  word, blocks, blocks_mt, unit_free_head, cache, mt, alloc_count, held, pc, cell, tp, next, tidy, calls,
  mgr, block, used, system, crushed,
  mem, inUse, store, blk, th, misused, unseen, overlooked, stopped,
  mem_trace_valid, inserting, stack_map, info_map, infos, signs, tracer, stray,
  file, file_day, file_idx, file_size, last_time, last_tm, disk, commands, astray,
  size, head, tail, buf, prod, cons,
  text, structs, current, key, mode,
  enc, wire, dec, kept, sent, handled, last,
  arr, m_cache, heap, contents, emptied, wild, ended, arrayCalls,
  doc, events, open, data, complete, refused, first

treeVars == <<kind, rb, avl, live, dict>>
timerVars == <<last_tick, tick, tv, work_list, info, alive, handles, at, running, left>>
unitVars == <<word, blocks, blocks_mt, unit_free_head, cache, mt, alloc_count, held, pc, cell, tp, next, tidy, calls>>
managerVars == <<mgr, block, used, system, crushed>>
threadVars == <<mem, inUse, store, blk, th, misused, unseen, overlooked, stopped>>
traceVars == <<mem_trace_valid, inserting, stack_map, info_map, infos, signs, tracer, stray>>
memoryVars == <<threadVars, traceVars>>
fileVars == <<file, file_day, file_idx, file_size, last_time, last_tm, disk, commands, astray>>
cacheVars == <<size, head, tail, buf, prod, cons>>
jsonVars == <<text, structs, current, key, mode>>
wireVars == <<enc, wire, dec, kept, sent, handled, last>>
arrayVars == <<arr, m_cache, heap, contents, emptied, wild, ended, arrayCalls>>
eventVars == <<doc, events, open, data, complete, refused, first>>
dataVars == <<memoryVars, jsonVars, wireVars, arrayVars, eventVars>>

-----------------------------------------------------------------------------
\* Items of a protocol: an integral, the array it counts, a string; and an array of structs.
Item(sort, len, refer, of) == [kind |-> sort, size |-> len, refer |-> refer, of |-> of]
Integral == Item("integral", 0, 0, <<>>)
Protocols == <<<<Integral, Item("fixed", 2, 1, <<>>), Item("string", 3, 0, <<>>)>>,
               <<Item("array", 0, 0, <<Integral, Item("string", 2, 0, <<>>)>>)>>>>

\* Counts below and above the size of the array, strings and arrays that are empty and that are full.
Messages == {[id |-> 0, value |-> <<<<1>>, <<5, 6>>, <<7, 7>>>>],
             [id |-> 0, value |-> <<<<3>>, <<1, 2>>, <<>>>>],
             [id |-> 1, value |-> <<<<<<<<1>>, <<6>>>>, <<<<2>>, <<>>>>>>>>],
             [id |-> 1, value |-> <<<<>>>>]}

\* A protocol_id that is not known, a negative count, a string that is too long, another module.
Junk == {<<4, 2, 4, 0, 7>>, <<4, 0, 7, 0>>, <<4, 0, 0, 3, 1, 1, 1>>, <<1, 1>>}

-----------------------------------------------------------------------------
\* A class with a member of each kind; only some are optional.
Member(name, sort, len, refer, default, of) ==
  [name |-> name, kind |-> sort, size |-> len, refer |-> refer, default |-> default, of |-> of]
Element == <<Member(<<"s", "s">>, "string", 0, 0, FALSE, <<>>), Member(<<"f">>, "fixed", 2, 0, TRUE, <<>>)>>
Class == <<Member(<<"n">>, "number", 0, 0, FALSE, <<>>),
           Member(<<"t">>, "struct", 0, 0, TRUE, Element),
           Member(<<"l">>, "array", 0, 0, FALSE, Element),
           Member(<<"a">>, "numbers", 0, 0, TRUE, <<>>),
           Member(<<"g">>, "fixed", 2, 1, TRUE, <<>>)>>

Tree(sort, number, k, of) == [kind |-> sort, number |-> number, key |-> k, of |-> of]
Number(k, n) == Tree("number", n, k, <<>>)
Text(k, n) == Tree("string", n, k, <<>>)
Null(k) == Tree("word", 0, k, <<>>)
Array(k, s) == Tree("array", 0, k, s)
Object(k, s) == Tree("object", 0, k, s)
None == <<>>

\* What the class does not know: an object with a null in it, and arrays.
Unknown == Object(<<"z">>, <<Null(<<"n">>), Array(<<"f">>, <<Object(None, <<>>)>>)>>)
UnknownArray == Array(<<"z">>, <<Null(None), Array(None, <<>>)>>)
Fixed(k) == Array(k, <<Number(None, 8), Number(None, 9)>>)

ElementMembers ==
  {Text(<<"s", "s">>, 7), Array(<<"f">>, <<Number(None, 2), Number(None, 3), Number(None, 4)>>), Unknown,
   Null(<<"y">>), Number(<<"s">>, 1)}
FirstElement == Object(None, <<Unknown, Text(<<"s", "s">>, 4), Fixed(<<"f">>)>>)
Members ==
  {Number(<<"n">>, 1), Number(<<"n">>, 5), Text(<<"n">>, 2), Unknown, UnknownArray,
   Array(<<"a">>, <<Number(None, 6)>>), Array(<<"a">>, <<Null(None)>>), Fixed(<<"g">>),
   Object(<<"t">>, <<Text(<<"s", "s">>, 7), Unknown>>), Object(<<"t">>, <<Fixed(<<"f">>)>>),
   Array(<<"l">>, <<Number(None, 2)>>), Array(<<"l">>, <<Object(None, <<Unknown>>), Array(None, <<>>)>>)}
  \cup {Array(<<"l">>, <<FirstElement, Object(None, e)>>) : e \in {<<>>} \cup {<<m>> : m \in ElementMembers}}

\* Up to three members in any order, and the root as an array.
Documents ==
  UNION {{Object(None, <<a>>) : a \in Members},
         {Object(None, <<a, b>>) : a, b \in Members},
         {Object(None, <<Number(<<"n">>, 1), b, c>>) : b, c \in Members},
         {Array(None, <<Number(None, 1), b, c>>) : b, c \in Members},
         {Object(None, <<>>)}}

-----------------------------------------------------------------------------
\* Seven keys: enough for every case of both balancings, and one tagged key with two copies.
Trees == INSTANCE OrderedMaps WITH Keys <- 1 .. 7, Tagged <- {3}

\* Wheels of two lists, 32 ticks round: timers of every wheel, and the tick counter overflows.
Wheel == INSTANCE TimerWheel WITH
  TVR_BITS <- 1, TVN_BITS <- 1, Elapses <- {0, 18}, Counts <- {1, -1}, MaxLag <- 1,
  live <- alive

\* Two blocks of two cells, three allocations by the creator and two by the other threads.
Unit == INSTANCE MemoryUnit WITH
  Creator <- "creator", GrowCount <- 2, MaxBlocks <- 2, MaxMainCalls <- 3, MaxMultiCalls <- 2

\* Three managers whose pools meet, overlap and leave a remainder, on a machine with words of two bytes.
Manager == INSTANCE MemoryManager WITH
  Word <- 2, Keys <- 1 .. 60, MaxRequest <- 50, Slots <- {"s"},
  Managers <- {[align |-> 2, start |-> 8, max |-> 32, power |-> 2],
               [align |-> 4, start |-> 5, max |-> 33, power |-> 4],
               [align |-> 2, start |-> 7, max |-> 40, power |-> 2]}

\* A thread with two blocks, and another one that frees and reallocates them.
Threads == INSTANCE ThreadMemory WITH Owner <- "owner", Helpers <- {"helper"}, Blocks <- {"b1", "b2"}, NoBlock <- "none"

\* Two threads with three blocks of one place.
Trace == INSTANCE MemoryTrace WITH
  Tracers <- {"t1", "t2"}, Signs <- {"b1", "b2", "b3"}, Lines <- {"line"}, Stacks <- {"stack"},
  SignSizes <- {1, 2}, None <- "none"

\* Days of two minutes of two seconds, files of two records.
Files == INSTANCE LogFiles WITH
  Procs <- LogThreads, MinuteLen <- 2, DayLen <- 4, MAX_LOG_FILE_SIZE <- 2, MaxTime <- 5, MaxRecords <- 4

\* Messages of two bytes in caches of two and three messages.
Cache == INSTANCE LoopCache WITH
  Bytes <- {0, 1}, Sizes <- {4, 6}, Lens <- {}, Wants <- {2}, Counts <- {0, 2}, Entry <- 2

\* Texts of up to eight tokens, with a string that is escaped.
Json == INSTANCE JsonText WITH Scalars <- {"null", "float"}, Strings <- {<<"bs", "n">>}, MaxTokens <- 8

\* Two messages of two protocols, in bytes of eight values, cut anywhere.
Wire == INSTANCE NetWire WITH
  Wide <- 8, Module <- 4, Protocols <- Protocols, Messages <- Messages, Junk <- Junk,
  ReserveSize <- 2, MaxMessages <- 2

\* Two arrays and a count of eight values: of plain data counted in less than an int, and of objects.
DataArray == INSTANCE DataArrays WITH
  Names <- {"x", "y"}, Pod <- TRUE, Wide <- 8, Promoted <- TRUE, N <- 1, MaxCalls <- 3, held <- contents
ObjectArray == INSTANCE DataArrays WITH
  Names <- {"x", "y"}, Pod <- FALSE, Wide <- 8, Promoted <- FALSE, N <- 1, MaxCalls <- 3, held <- contents

\* Documents of up to three members.
Events == INSTANCE JsonEvents WITH Root <- Class, Documents <- Documents, calls <- events

ASSUME UnitConstants == Unit!UnitAssumption
ASSUME WheelConstants == Wheel!TimerAssumption
ASSUME ManagerConstants == Manager!ManagerAssumption
ASSUME ThreadConstants == Threads!SMemoryAssumption
ASSUME TraceConstants == Trace!TraceAssumption
ASSUME WireConstants == Wire!WireAssumption
ASSUME ArrayConstants == DataArray!ArrayAssumption /\ ObjectArray!ArrayAssumption
ASSUME EventConstants == Events!EventAssumption

-----------------------------------------------------------------------------
Absent == "absent"

Init ==
  /\ part \in {"trees", "timers", "units", "managers", "threads", "trace", "files", "cache",
              "json", "wire", "data arrays", "object arrays", "events"}
  /\ IF part = "trees" THEN Trees!Init
     ELSE kind = Absent /\ rb = Absent /\ avl = Absent /\ live = Absent /\ dict = Absent
  /\ IF part = "timers" THEN Wheel!Init
     ELSE /\ last_tick = Absent /\ tick = Absent /\ tv = Absent /\ work_list = Absent /\ info = Absent
          /\ alive = Absent /\ handles = Absent /\ at = Absent /\ running = Absent /\ left = Absent
  /\ IF part = "units" THEN Unit!Init
     ELSE /\ word = Absent /\ blocks = Absent /\ blocks_mt = Absent /\ unit_free_head = Absent
          /\ cache = Absent /\ mt = Absent /\ alloc_count = Absent /\ held = Absent /\ pc = Absent
          /\ cell = Absent /\ tp = Absent /\ next = Absent /\ tidy = Absent /\ calls = Absent
  /\ IF part = "managers" THEN Manager!Init
     ELSE mgr = Absent /\ block = Absent /\ used = Absent /\ system = Absent /\ crushed = Absent
  /\ IF part = "threads" THEN Threads!SMemoryInit
     ELSE /\ mem = Absent /\ inUse = Absent /\ store = Absent /\ blk = Absent /\ th = Absent
          /\ misused = Absent /\ unseen = Absent /\ overlooked = Absent /\ stopped = Absent
  /\ IF part = "trace" THEN Trace!TraceInit
     ELSE /\ mem_trace_valid = Absent /\ inserting = Absent /\ stack_map = Absent /\ info_map = Absent
          /\ infos = Absent /\ signs = Absent /\ tracer = Absent /\ stray = Absent
  /\ IF part = "files" THEN Files!Init
     ELSE /\ file = Absent /\ file_day = Absent /\ file_idx = Absent /\ file_size = Absent
          /\ last_time = Absent /\ last_tm = Absent /\ disk = Absent /\ commands = Absent /\ astray = Absent
  /\ IF part = "cache" THEN Cache!Init
     ELSE size = Absent /\ head = Absent /\ tail = Absent /\ buf = Absent /\ prod = Absent /\ cons = Absent
  /\ IF part = "json" THEN Json!JsonInit
     ELSE text = Absent /\ structs = Absent /\ current = Absent /\ key = Absent /\ mode = Absent
  /\ IF part = "wire" THEN Wire!WireInit
     ELSE /\ enc = Absent /\ wire = Absent /\ dec = Absent /\ kept = Absent
          /\ sent = Absent /\ handled = Absent /\ last = Absent
  /\ IF part = "data arrays" THEN DataArray!ArrayInit
     ELSE IF part = "object arrays" THEN ObjectArray!ArrayInit
     ELSE /\ arr = Absent /\ m_cache = Absent /\ heap = Absent /\ contents = Absent /\ emptied = Absent
          /\ wild = Absent /\ ended = Absent /\ arrayCalls = Absent
  /\ IF part = "events" THEN Events!EventInit
     ELSE /\ doc = Absent /\ events = Absent /\ open = Absent /\ data = Absent /\ complete = Absent
          /\ refused = Absent /\ first = Absent

Next ==
  /\ UNCHANGED part
  /\ \/ /\ UNCHANGED dataVars
        /\ \/ part = "trees" /\ Trees!Next /\ UNCHANGED <<timerVars, unitVars, managerVars, fileVars, cacheVars>>
           \/ part = "timers" /\ Wheel!Next /\ UNCHANGED <<treeVars, unitVars, managerVars, fileVars, cacheVars>>
           \/ part = "units" /\ Unit!Next /\ UNCHANGED <<treeVars, timerVars, managerVars, fileVars, cacheVars>>
           \/ part = "managers" /\ Manager!Next /\ UNCHANGED <<treeVars, timerVars, unitVars, fileVars, cacheVars>>
           \/ part = "files" /\ Files!Next /\ UNCHANGED <<treeVars, timerVars, unitVars, managerVars, cacheVars>>
           \/ part = "cache" /\ Cache!Next /\ UNCHANGED <<treeVars, timerVars, unitVars, managerVars, fileVars>>
     \/ /\ UNCHANGED <<treeVars, timerVars, unitVars, managerVars, fileVars, cacheVars>>
        /\ \/ part = "threads" /\ Threads!SMemoryNext /\ UNCHANGED <<traceVars, jsonVars, wireVars, arrayVars, eventVars>>
           \/ part = "trace" /\ Trace!TraceNext /\ UNCHANGED <<threadVars, jsonVars, wireVars, arrayVars, eventVars>>
           \/ part = "json" /\ Json!JsonNext /\ UNCHANGED <<memoryVars, wireVars, arrayVars, eventVars>>
           \/ part = "wire" /\ Wire!WireNext /\ UNCHANGED <<memoryVars, jsonVars, arrayVars, eventVars>>
           \/ part = "data arrays" /\ DataArray!ArrayNext /\ UNCHANGED <<memoryVars, jsonVars, wireVars, eventVars>>
           \/ part = "object arrays" /\ ObjectArray!ArrayNext /\ UNCHANGED <<memoryVars, jsonVars, wireVars, eventVars>>
           \/ part = "events" /\ Events!EventNext /\ UNCHANGED <<memoryVars, jsonVars, wireVars, arrayVars>>

Spec == Init /\ [][Next]_<<part, treeVars, timerVars, unitVars, managerVars, fileVars, cacheVars, dataVars>>

Symmetry == Permutations(Timers) \cup Permutations(Others)

-----------------------------------------------------------------------------
\* The trees are trees and hold the dictionary they should, and string trees leak no string
\* (rb_tree.c, avl_tree.c, tree_help.c).
TreesCorrect ==
  part = "trees" => Trees!TreesWellFormed /\ Trees!TreesHoldDictionary /\ Trees!StringsOwned

\* Timers are called in their tick and none is lost or freed twice (timer.c).
TimersCorrect == part = "timers" => Wheel!TimersOnTime /\ Wheel!TimersAccounted

\* Every cell of a memory unit is in one place and counted, whatever its threads do, and a tidy among
\* them goes wrong in one way only, by a cell that waits to be taken over (memory_pool.c:20-652).
UnitsCorrect ==
  part = "units" =>
    /\ Unit!CellHasOnePlace /\ Unit!SignsMatch /\ Unit!AllocCountRight
    /\ Unit!TidyGoesWrongOnlySo

\* A manager's blocks fit, are found again and are counted (memory_pool.c:669-1260); the manager of a
\* thread that ended stays while its blocks are in use, and no longer (smemory.cpp:120-240); the trace
\* counts every block at its place (memory_trace.cpp:200-285).
ManagersCorrect ==
  /\ part = "managers" => Manager!BlocksFit /\ Manager!SizesAccounted
  /\ part = "threads" => Threads!ThreadMemorySafe
  /\ part = "trace" => Trace!TraceCounts

\* Records are in the right files, in files below the limit (logger.cpp:740-1010).
LogFilesInOrder == part = "files" => Files!LogFilesInOrder

\* A cache of messages never splits one (loop_cache.c:154-245 as epoll_tcp.c and iocp_tcp.c use it).
MessagesWhole == part = "cache" => Cache!AreasHold /\ Cache!EntriesWhole

\* Data goes out and comes in as it was: a JSON text through its tree (json.c), messages through
\* NetEnCode and NetDeCode, elements through the calls of an array, a document through the handlers
\* (net_data.hpp and the classes protocolmaker.cpp prints).
DataCorrect ==
  /\ part = "json" => Json!JsonSafe
  /\ part = "wire" => Wire!WireSafe
  /\ part = "data arrays" => DataArray!ArraysSafe
  /\ part = "object arrays" => ObjectArray!ArraysSafe
  /\ part = "events" => Events!EventsSafe
=============================================================================
