----------------------------- MODULE MemoryTrace -----------------------------
(***************************************************************************)
(* src/memory_trace.cpp: for each place of the program that allocates and  *)
(* each stack of calls it is reached by, one record of what is in use.     *)
(* Records and stacks are in trees that threads search without the lock    *)
(* and insert into with it.  A search beside an insertion may miss what is *)
(* in the tree, or find what is being inserted.  Counters are changed      *)
(* atomically, one by one.                                                 *)
(*                                                                         *)
(* A record is named by the block it was first made for, a stored stack by *)
(* the block it was first met with.                                        *)
(***************************************************************************)
EXTENDS Integers, FiniteSetsExt

CONSTANTS
  Tracers,     \* threads
  Signs,       \* bound: blocks allocated; each has a trace_sign
  Lines,       \* places of the program: name, file and line
  Stacks,      \* stacks of calls, without the empty one
  SignSizes,   \* sizes of blocks
  None         \* no thread, no block, the empty stack

TraceAssumption == None \notin Tracers \cup Signs \cup Stacks /\ SignSizes \subseteq Nat

VARIABLES
  mem_trace_valid,  \* g_mem_trace is constructed
  inserting,        \* the thread that holds the lock and changes a tree, and which one
  stack_map,        \* m_trace_stack_map
  info_map,         \* m_trace_info_map
  infos,            \* the records: size, alloc, free
  signs,            \* the blocks with their trace_sign, and where they were allocated
  tracer,           \* where each thread is
  stray             \* a counter of no record was changed: anything may happen

traceVars == <<mem_trace_valid, inserting, stack_map, info_map, infos, signs, tracer, stray>>

Resting == [at |-> "idle", sign |-> None, rec |-> None]
Unlocked == [by |-> None, tree |-> "none"]
Uninitialised == "uninitialised"

TraceInit ==
  /\ mem_trace_valid = FALSE
  /\ inserting = Unlocked
  /\ stack_map = [s \in Stacks |-> None]
  /\ info_map = [k \in Lines \X (Signs \cup {None}) |-> None]
  /\ infos = [b \in Signs |-> [size |-> 0, alloc |-> 0, free |-> 0]]
  /\ signs = [b \in Signs |-> [state |-> "new", m_size |-> 0, m_info |-> None, line |-> None, stack |-> None]]
  /\ tracer = [t \in Tracers |-> Resting]
  /\ stray = FALSE

At(t, at) == ~stray /\ tracer[t].at = at
To(t, at) == tracer' = [tracer EXCEPT ![t].at = at]
Sign(t) == signs[tracer[t].sign]
Key(t) == <<Sign(t).line, tracer[t].rec>>
Changing(tree) == inserting.tree = tree

\* A block is returned to the application.
Returned(t) ==
  /\ tracer' = [tracer EXCEPT ![t] = Resting]
  /\ signs' = [signs EXCEPT ![tracer[t].sign].state = "used"]

-----------------------------------------------------------------------------
\* The constructor of g_mem_trace, between those of other static objects, which may allocate.
Construct ==
  /\ ~mem_trace_valid /\ \A t \in Tracers : At(t, "idle")
  /\ mem_trace_valid' = TRUE
  /\ UNCHANGED <<inserting, stack_map, info_map, infos, signs, tracer, stray>>

\* _trace_memory: nothing, before the trace is there.
TraceBegin(t, b, line, stack, size) ==
  /\ At(t, "idle") /\ signs[b].state = "new"
  /\ LET sign == [state |-> "tracing", m_size |-> size, m_info |-> Uninitialised, line |-> line, stack |-> stack]
     IN IF mem_trace_valid
        THEN /\ signs' = [signs EXCEPT ![b] = sign]
             /\ tracer' = [tracer EXCEPT ![t] =
                  [at |-> IF stack = None THEN "find info" ELSE "find stack", sign |-> b, rec |-> None]]
        ELSE signs' = [signs EXCEPT ![b] = [sign EXCEPT !.state = "used"]] /\ UNCHANGED tracer
  /\ UNCHANGED <<mem_trace_valid, inserting, stack_map, info_map, infos, stray>>

FindStack(t) ==
  /\ At(t, "find stack")
  /\ LET node == stack_map[Sign(t).stack]
     IN \/ /\ node # None
           /\ tracer' = [tracer EXCEPT ![t].at = "find info", ![t].rec = node]
        \/ /\ node = None \/ Changing("stacks")
           /\ To(t, "insert stack")
  /\ UNCHANGED <<mem_trace_valid, inserting, stack_map, info_map, infos, signs, stray>>

\* rb_tree_try_insert_user under the lock; the copy of a stack that is there already is freed.
InsertStack(t) ==
  /\ At(t, "insert stack") /\ inserting = Unlocked
  /\ LET b == tracer[t].sign
         stack == Sign(t).stack
     IN IF stack_map[stack] = None
        THEN /\ stack_map' = [stack_map EXCEPT ![stack] = b]
             /\ inserting' = [by |-> t, tree |-> "stacks"]
             /\ tracer' = [tracer EXCEPT ![t].at = "unlock stack", ![t].rec = b]
        ELSE /\ tracer' = [tracer EXCEPT ![t].at = "find info", ![t].rec = stack_map[stack]]
             /\ UNCHANGED <<stack_map, inserting>>
  /\ UNCHANGED <<mem_trace_valid, info_map, infos, signs, stray>>

UnlockStack(t) ==
  /\ At(t, "unlock stack")
  /\ inserting' = Unlocked
  /\ To(t, "find info")
  /\ UNCHANGED <<mem_trace_valid, stack_map, info_map, infos, signs, stray>>

\* A record that is not found is made, with the block counted in it.
FindInfo(t) ==
  /\ At(t, "find info")
  /\ LET node == info_map[Key(t)]
         b == tracer[t].sign
     IN \/ /\ node # None
           /\ signs' = [signs EXCEPT ![b].m_info = node]
           /\ To(t, "add size")
           /\ UNCHANGED infos
        \/ /\ node = None \/ Changing("infos")
           /\ infos' = [infos EXCEPT ![b] = [size |-> Sign(t).m_size, alloc |-> 1, free |-> 0]]
           /\ signs' = [signs EXCEPT ![b].m_info = b]
           /\ To(t, "insert info")
  /\ UNCHANGED <<mem_trace_valid, inserting, stack_map, info_map, stray>>

\* Mutant: the record is inserted without looking again under the lock.
InsertInfo_NoSecondLook(t) ==
  /\ At(t, "insert info") /\ inserting = Unlocked
  /\ info_map' = [info_map EXCEPT ![Key(t)] = tracer[t].sign]
  /\ inserting' = [by |-> t, tree |-> "infos"]
  /\ To(t, "unlock info")
  /\ UNCHANGED <<mem_trace_valid, stack_map, infos, signs, stray>>

\* Try again under the lock; a record that is there already takes the place of the one made.
InsertInfo(t) ==
  /\ At(t, "insert info") /\ inserting = Unlocked
  /\ LET node == info_map[Key(t)]
         b == tracer[t].sign
     IN IF node = None
        THEN /\ info_map' = [info_map EXCEPT ![Key(t)] = b]
             /\ inserting' = [by |-> t, tree |-> "infos"]
             /\ To(t, "unlock info")
             /\ UNCHANGED <<signs, infos>>
        ELSE /\ signs' = [signs EXCEPT ![b].m_info = node]
             /\ infos' = [infos EXCEPT ![b] = [size |-> 0, alloc |-> 0, free |-> 0]]
             /\ To(t, "add size")
             /\ UNCHANGED <<info_map, inserting>>
  /\ UNCHANGED <<mem_trace_valid, stack_map, stray>>

UnlockInfo(t) ==
  /\ At(t, "unlock info")
  /\ inserting' = Unlocked
  /\ Returned(t)
  /\ UNCHANGED <<mem_trace_valid, stack_map, info_map, infos, stray>>

AddSize(t) ==
  /\ At(t, "add size")
  /\ infos' = [infos EXCEPT ![Sign(t).m_info].size = @ + Sign(t).m_size]
  /\ To(t, "add alloc")
  /\ UNCHANGED <<mem_trace_valid, inserting, stack_map, info_map, signs, stray>>

AddAlloc(t) ==
  /\ At(t, "add alloc")
  /\ infos' = [infos EXCEPT ![Sign(t).m_info].alloc = @ + 1]
  /\ Returned(t)
  /\ UNCHANGED <<mem_trace_valid, inserting, stack_map, info_map, stray>>

\* _check_memory, when a block is freed.
CheckSize(t, b) ==
  /\ At(t, "idle") /\ signs[b].state = "used"
  /\ signs' = [signs EXCEPT ![b].state = "freed"]
  /\ IF ~mem_trace_valid THEN UNCHANGED <<infos, tracer, stray>>
     ELSE IF signs[b].m_info = Uninitialised THEN stray' = TRUE /\ UNCHANGED <<infos, tracer>>
     ELSE /\ infos' = [infos EXCEPT ![signs[b].m_info].size = @ - signs[b].m_size]
          /\ tracer' = [tracer EXCEPT ![t] = [Resting EXCEPT !.at = "add free", !.sign = b]]
          /\ UNCHANGED stray
  /\ UNCHANGED <<mem_trace_valid, inserting, stack_map, info_map>>

CheckFree(t) ==
  /\ At(t, "add free")
  /\ infos' = [infos EXCEPT ![Sign(t).m_info].free = @ + 1]
  /\ tracer' = [tracer EXCEPT ![t] = Resting]
  /\ UNCHANGED <<mem_trace_valid, inserting, stack_map, info_map, signs, stray>>

TraceNext ==
  \/ Construct
  \/ \E t \in Tracers :
       \/ FindStack(t) \/ InsertStack(t) \/ UnlockStack(t)
       \/ FindInfo(t) \/ InsertInfo(t) \/ UnlockInfo(t)
       \/ AddSize(t) \/ AddAlloc(t) \/ CheckFree(t)
       \/ \E b \in Signs :
            \/ CheckSize(t, b)
            \/ \E line \in Lines, stack \in Stacks \cup {None}, size \in SignSizes : TraceBegin(t, b, line, stack, size)

TraceSpec == TraceInit /\ [][TraceNext]_traceVars

-----------------------------------------------------------------------------
\* The blocks traced at a place, reached by a stack.
Traced(line, stack) ==
  {b \in Signs : signs[b].line = line /\ signs[b].stack = stack /\ signs[b].m_info # Uninitialised}

\* The record the tree has for a place and a stack.
Listed(line, stack) == info_map[<<line, IF stack = None THEN None ELSE stack_map[stack]>>]

\* However the searches of several threads cross the insertions, a place reached by a stack has one
\* record, and it counts all its blocks, when no call is under way.  Only a block that was allocated before
\* g_mem_trace was constructed and is freed after it upsets that (memory_trace.cpp:200-285, 399-414).
TraceCounts ==
  ~stray /\ (\A t \in Tracers : tracer[t] = Resting) =>
    \A line \in Lines, stack \in Stacks \cup {None} :
      LET here == Traced(line, stack)
          inUse == {b \in here : signs[b].state = "used"}
          record == Listed(line, stack)
      IN here # {} =>
           /\ \A b \in here : signs[b].m_info = record
           /\ infos[record].alloc = Cardinality(here)
           /\ infos[record].free = Cardinality(here \ inUse)
           /\ infos[record].size = MapThenSumSet(LAMBDA b : signs[b].m_size, inUse)
=============================================================================
