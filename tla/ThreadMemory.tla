---------------------------- MODULE ThreadMemory ----------------------------
(***************************************************************************)
(* src/smemory.cpp and include/smemory.hpp: a thread has a CMemory for raw *)
(* memory and arrays, and a CClassMemory for the objects of a class.  Only *)
(* the thread itself allocates from them; any thread frees and reallocates.*)
(* When the thread ends, its memory is left to the blocks in use, and      *)
(* whoever frees the last of them releases it.                             *)
(*                                                                         *)
(* One owner and the other threads.  A manager's pools are two places; its *)
(* InUse adds up their counters one after the other; those of a place, and *)
(* those of the class, are read in one step.  On x86 the owner's plain     *)
(* store of m_can_destroy may become visible after its next loads.  Memory *)
(* used after its release ends the process, or still has its old values.   *)
(***************************************************************************)
EXTENDS Integers, FiniteSets

CONSTANTS
  Owner,       \* the thread the memory belongs to
  Helpers,     \* the others
  Blocks,      \* bound: blocks allocated
  NoBlock

SMemoryAssumption == Owner \notin Helpers /\ NoBlock \notin Blocks

VARIABLES
  mem,         \* the CMemory and the CClassMemory
  inUse,       \* blocks each counts: of the CMemory in each place
  store,       \* m_can_destroy of these is still in the owner's store buffer
  blk,         \* the blocks: their kind, place, and whether the application holds them
  th,          \* where each thread is
  misused,     \* history: where in their calls threads used memory that was released
  unseen,      \* history: frees that missed m_can_destroy though the owner had stored it
  overlooked,  \* history: a release whose InUse missed a block that was reallocated meanwhile
  stopped      \* the process ended

smemVars == <<mem, inUse, store, blk, th, misused, unseen, overlooked, stopped>>

SThreads == Helpers \cup {Owner}
Memories == {"memory", "class"}
Places == {"p", "q"}

\* "objects" is an array of a class with constructors, which New counts after its loop has brought
\* the number of elements to 0; "array" is one of plain data.
Kinds == {"raw", "object", "array", "objects"}

InPlace(kind) == kind # "object"
Virtual(kind) == kind # "raw"

Idle == [at |-> "idle", blk |-> NoBlock, of |-> "memory", none |-> FALSE, moved |-> FALSE, ends |-> {}]

SMemoryInit ==
  /\ mem = [m \in Memories |-> [can_destroy |-> FALSE, be_destroy |-> FALSE, alive |-> TRUE, released |-> 0]]
  /\ inUse = [p |-> 0, q |-> 0, class |-> 0]
  /\ store = {}
  /\ blk = [b \in Blocks |-> [kind |-> "none", place |-> "p", held |-> FALSE]]
  /\ th = [t \in SThreads |-> Idle]
  /\ misused = {} /\ unseen = {} /\ overlooked = FALSE /\ stopped = FALSE

Goto(t, at) == th' = [th EXCEPT ![t].at = at]

\* After the memory of an array comes its class; after the owner's one memory the other.
Onward(t) ==
  th' = [th EXCEPT ![t] =
    IF @.blk # NoBlock /\ blk[@.blk].kind \in {"array", "objects"} /\ @.of = "memory"
    THEN [Idle EXCEPT !.at = "free", !.blk = th[t].blk, !.of = "class"]
    ELSE IF t = Owner /\ @.blk = NoBlock
    THEN [Idle EXCEPT !.at = IF th[t].ends = {} THEN "gone" ELSE "ends", !.ends = th[t].ends]
    ELSE Idle]

\* The fields of m are used: if it was released, that is the end, or they are as they were.
Uses(m, what) ==
  IF mem[m].alive THEN UNCHANGED <<misused, stopped>>
  ELSE /\ misused' = misused \cup {what}
       /\ stopped' \in BOOLEAN

\* What the class counts of a block.
Counted(kind) == IF kind \in {"object", "array"} THEN 1 ELSE 0

-----------------------------------------------------------------------------
\* New, TraceNew, Alloc, TraceAlloc, by the owner: nobody else reaches its memory.  The class has
\* constructors or not, so its arrays are of one kind.
Alloc(b, kind, place) ==
  /\ ~stopped /\ th[Owner].at = "idle"
  /\ blk[b].kind = "none"
  /\ kind \in {"array", "objects"} => \A c \in Blocks : blk[c].kind \notin {"array", "objects"} \ {kind}
  /\ blk' = [blk EXCEPT ![b] = [kind |-> kind, place |-> place, held |-> TRUE]]
  /\ inUse' = [inUse EXCEPT ![place] = @ + (IF InPlace(kind) THEN 1 ELSE 0), !.class = @ + Counted(kind)]
  /\ UNCHANGED <<mem, store, th, misused, unseen, overlooked, stopped>>

\* Delete, Free and their traced forms: the block knows its memory; an object's is called through
\* its virtual functions.
FreeBegin(t, b) ==
  /\ ~stopped /\ th[t].at = "idle"
  /\ blk[b].held
  /\ blk' = [blk EXCEPT ![b].held = FALSE]
  /\ IF Virtual(blk[b].kind) THEN Uses("class", "call") ELSE UNCHANGED <<misused, stopped>>
  /\ th' = [th EXCEPT ![t].at = "free", ![t].blk = b, ![t].of = IF blk[b].kind = "object" THEN "class" ELSE "memory"]
  /\ UNCHANGED <<mem, inUse, store, unseen, overlooked>>

\* Mutant: whether the memory may go is asked before the block is given back.
FreeBlock_LooksFirst(t) ==
  LET b == th[t].blk
      m == th[t].of
  IN /\ ~stopped /\ th[t].at = "free"
     /\ Uses(m, "free")
     /\ inUse' = IF m = "memory" THEN [inUse EXCEPT ![blk[b].place] = @ - 1]
                 ELSE [inUse EXCEPT !.class = @ - Counted(blk[b].kind)]
     /\ IF mem[m].can_destroy THEN Goto(t, "sum") ELSE Onward(t)
     /\ UNCHANGED <<mem, store, blk, unseen, overlooked>>

\* memory_manager_free, memory_unit_quick_free, or in_use and in_use_mt of an array.
FreeBlock(t) ==
  LET b == th[t].blk
      m == th[t].of
  IN /\ ~stopped /\ th[t].at = "free"
     /\ Uses(m, "free")
     /\ inUse' = IF m = "memory" THEN [inUse EXCEPT ![blk[b].place] = @ - 1]
                 ELSE [inUse EXCEPT !.class = @ - Counted(blk[b].kind)]
     /\ Goto(t, "look")
     /\ UNCHANGED <<mem, store, blk, unseen, overlooked>>

\* if (m_can_destroy), if (can_destroy).
Look(t) ==
  LET m == th[t].of
  IN /\ ~stopped /\ th[t].at = "look"
     /\ Uses(m, "last looks")
     /\ LET seen == mem[m].can_destroy \/ (t = Owner /\ m \in store)
        IN /\ IF seen THEN Goto(t, "sum") ELSE Onward(t)
           /\ unseen' = IF ~seen /\ m \in store THEN unseen \cup {m} ELSE unseen
     /\ UNCHANGED <<mem, inUse, store, blk, overlooked>>

\* InUse: of a CMemory the counters of one place, then those of the other.
SumBegin(t) ==
  LET m == th[t].of
  IN /\ ~stopped /\ th[t].at = "sum"
     /\ Uses(m, "last looks")
     /\ IF m = "memory" THEN th' = [th EXCEPT ![t].at = "sum2", ![t].none = inUse.p = 0]
        ELSE IF inUse.class = 0 THEN Goto(t, "release") ELSE Onward(t)
     /\ UNCHANGED <<mem, inUse, store, blk, unseen, overlooked>>

SumEnd(t) ==
  /\ ~stopped /\ th[t].at = "sum2"
  /\ Uses("memory", "last looks")
  /\ IF th[t].none /\ inUse.q = 0 THEN Goto(t, "release") ELSE Onward(t)
  /\ UNCHANGED <<mem, inUse, store, blk, unseen, overlooked>>

\* Release: the first one deletes the memory with what is in it.  A compare-and-swap follows every
\* earlier store of its thread.
Release(t) ==
  LET m == th[t].of
  IN /\ ~stopped /\ th[t].at = "release"
     /\ t = Owner => m \notin store
     /\ Uses(m, "last looks")
     /\ mem' = IF mem[m].be_destroy THEN mem
               ELSE [mem EXCEPT ![m].be_destroy = TRUE, ![m].alive = FALSE, ![m].released = @ + 1]
     /\ overlooked' = (overlooked \/ (~mem[m].be_destroy /\ m = "memory" /\ th[t].moved))
     /\ Onward(t)
     /\ UNCHANGED <<inUse, store, blk, unseen>>

\* Realloc, TraceRealloc to a size of the other place: the new block, then the old one is freed.
ReallocBegin(t, b) ==
  /\ ~stopped /\ th[t].at = "idle"
  /\ blk[b].held /\ blk[b].kind = "raw"
  /\ LET new == IF blk[b].place = "p" THEN "q" ELSE "p"
     IN /\ inUse' = [inUse EXCEPT ![new] = @ + 1]
        /\ blk' = [blk EXCEPT ![b].held = FALSE, ![b].place = new]
  /\ Uses("memory", "realloc")
  /\ th' = [th EXCEPT ![t].at = "realloc", ![t].blk = b]
  /\ UNCHANGED <<mem, store, unseen, overlooked>>

ReallocEnd(t) ==
  /\ ~stopped /\ th[t].at = "realloc"
  /\ LET b == th[t].blk
         old == IF blk[b].place = "p" THEN "q" ELSE "p"
     IN /\ inUse' = [inUse EXCEPT ![old] = @ - 1]
        /\ blk' = [blk EXCEPT ![b].held = TRUE]
  /\ Uses("memory", "realloc")
  /\ th' = [u \in SThreads |-> IF u = t THEN Idle ELSE [th[u] EXCEPT !.moved = @ \/ th[u].at \in {"sum2", "release"}]]
  /\ UNCHANGED <<mem, store, unseen, overlooked>>

\* The owner ends: ~CThreadMemory and ~CThreadClassMemory, in the order their first use makes.
OwnerEnds ==
  /\ ~stopped /\ th[Owner].at = "idle"
  /\ th' = [th EXCEPT ![Owner].at = "ends", ![Owner].ends = Memories]
  /\ UNCHANGED <<mem, inUse, store, blk, misused, unseen, overlooked, stopped>>

SetDestroy(m) ==
  /\ ~stopped /\ th[Owner].at = "ends" /\ m \in th[Owner].ends
  /\ store' = store \cup {m}
  /\ th' = [th EXCEPT ![Owner].at = "sum", ![Owner].of = m, ![Owner].ends = @ \ {m}]
  /\ Uses(m, "end")
  /\ UNCHANGED <<mem, inUse, blk, unseen, overlooked>>

\* The owner's store reaches the other threads.
StoreSeen(m) ==
  /\ m \in store
  /\ store' = store \ {m}
  /\ mem' = [mem EXCEPT ![m].can_destroy = TRUE]
  /\ UNCHANGED <<inUse, blk, th, misused, unseen, overlooked, stopped>>

SMemoryNext ==
  \/ \E b \in Blocks, kind \in Kinds, place \in Places : Alloc(b, kind, place)
  \/ \E t \in SThreads :
       \/ FreeBlock(t) \/ Look(t) \/ SumBegin(t) \/ SumEnd(t) \/ Release(t) \/ ReallocEnd(t)
       \/ \E b \in Blocks : FreeBegin(t, b) \/ ReallocBegin(t, b)
  \/ OwnerEnds \/ \E m \in Memories : SetDestroy(m) \/ StoreSeen(m)

SMemorySpec == SMemoryInit /\ [][SMemoryNext]_smemVars

-----------------------------------------------------------------------------
\* An array of objects is not counted by its class, which may be released before it.
Uncounted == \E b \in Blocks : blk[b].kind = "objects"

\* A block in use keeps its memory, but for one that was reallocated while another thread looked, and
\* an array of objects its class (smemory.cpp:154-165, 208-231, smemory.hpp:137-141, 190-211).
BlocksKeepMemory ==
  \A b \in Blocks : blk[b].held /\ ~overlooked =>
    /\ InPlace(blk[b].kind) => mem["memory"].alive
    /\ Virtual(blk[b].kind) /\ ~Uncounted => mem["class"].alive

\* Released memory is used by no more than the last looks of a free whose block was given back
\* before; the memory is deleted once (smemory.cpp:120-127, 154-165, 233-240).
UsedNoLater ==
  /\ \A m \in Memories : mem[m].released =< 1
  /\ ~overlooked /\ ~Uncounted => misused \subseteq {"last looks"}

\* When the owner has ended and everything is given back, nothing is left, but for a free that missed
\* the owner's store (smemory.hpp:100-108, 557-566).
NothingLeaks ==
  /\ ~stopped /\ th[Owner].at = "gone" /\ store = {}
  /\ \A t \in Helpers : th[t].at = "idle"
  /\ \A b \in Blocks : ~blk[b].held
  => \A m \in Memories : ~mem[m].alive \/ m \in unseen

ThreadMemorySafe == BlocksKeepMemory /\ UsedNoLater /\ NothingLeaks
=============================================================================
