----------------------------- MODULE MemoryUnit -----------------------------
(***************************************************************************)
(* A memory_unit of src/memory_pool.c: cells of one size, handed out to    *)
(* the thread that created the unit from a plain list, and to every other  *)
(* thread from a list that compare-and-swap keeps (a tagged pointer).  A   *)
(* cell has one word in front: the next cell while it is free, a sign that *)
(* tells which list it came from while it is allocated.  A cell of the     *)
(* creator that another thread frees waits in a third list (cache), which  *)
(* the creator takes over as a whole when its own is empty.                *)
(*                                                                         *)
(* One action is one step that other threads can observe: a compare-and-   *)
(* swap, a read or a write of a cell's word.                               *)
(***************************************************************************)
EXTENDS Integers, Sequences, FiniteSets

CONSTANTS
  Creator,     \* the thread that created the unit
  Others,      \* the other threads
  GrowCount,   \* cells in a new block
  MaxBlocks,   \* bound: blocks the model's heap can give
  MaxMainCalls, MaxMultiCalls   \* bounds: calls of memory_unit_alloc by the creator, by all others

UnitAssumption ==
  /\ Creator \notin Others /\ GrowCount \in Nat \ {0} /\ MaxBlocks \in Nat /\ MaxMainCalls \in Nat /\ MaxMultiCalls \in Nat

Threads == Others \cup {Creator}
Cells == 1 .. GrowCount * MaxBlocks
Nil == 0
MAIN == -1    \* the sign of the creator's cells: the unit's address
MULTI == -2   \* the sign of the others' cells: the same with its top bit set

VARIABLES
  word,           \* the word in front of each cell
  blocks,         \* blocks in the creator's list, a set of block numbers
  blocks_mt,      \* blocks of the others
  unit_free_head,
  cache, mt,      \* unit_free_head_cache and _mt: [ptr, allocs, frees], the tags being counters
  alloc_count,
  held,           \* cells the application has and has not freed
  pc, cell, tp, next,   \* per thread: its place, the cell in hand, the tagged pointer and the word read
  tidy,           \* the creator's memory_unit_tidy: the cell to be looked at, the blocks after its block,
                  \* the cells found free in its block; history: what is left of the creator's list, and
                  \* the first cell found free that was never in that list
  calls

vars == <<word, blocks, blocks_mt, unit_free_head, cache, mt, alloc_count, held,
          pc, cell, tp, next, tidy, calls>>

NoTag == [ptr |-> Nil, allocs |-> 0, frees |-> 0]
NoTidy == [cell |-> Nil, left |-> {}, free |-> {}, own |-> {}, met |-> Nil]

Init ==
  /\ word = [c \in Cells |-> Nil]
  /\ blocks = {} /\ blocks_mt = {}
  /\ unit_free_head = Nil /\ cache = NoTag /\ mt = NoTag
  /\ alloc_count = 0 /\ held = {}
  /\ pc = [t \in Threads |-> "idle"] /\ cell = [t \in Threads |-> Nil]
  /\ tp = [t \in Threads |-> NoTag] /\ next = [t \in Threads |-> Nil]
  /\ tidy = NoTidy /\ calls = [main |-> 0, multi |-> 0]

-----------------------------------------------------------------------------
CellsOf(b) == (b - 1) * GrowCount + 1 .. b * GrowCount
FirstOf(b) == (b - 1) * GrowCount + 1
LastOf(b) == b * GrowCount

\* The cells of a new block, chained; the last one points to `tail'.
Chained(b, tail) ==
  [c \in Cells |-> IF c \in CellsOf(b) THEN IF c = LastOf(b) THEN tail ELSE c + 1 ELSE word[c]]

FreshBlock == CHOOSE b \in 1 .. MaxBlocks : b \notin blocks \cup blocks_mt
HeapLeft == blocks \cup blocks_mt # 1 .. MaxBlocks

\* The cells met from c along the words, with one more than there are cells when it is a cycle.
RECURSIVE Chain(_, _)
Chain(c, bound) == IF c \notin Cells \/ bound = 0 THEN <<>> ELSE <<c>> \o Chain(word[c], bound - 1)

Listed(head) == Chain(head, Cardinality(Cells) + 1)

Goto(t, l) == pc' = [pc EXCEPT ![t] = l]

Shared == <<word, blocks, blocks_mt, unit_free_head, cache, mt, alloc_count, held>>

-----------------------------------------------------------------------------
(* memory_unit_alloc by the creator                                         *)
Take(c, w) ==
  /\ unit_free_head' = w[c]
  /\ word' = [w EXCEPT ![c] = MAIN]
  /\ alloc_count' = alloc_count + 1
  /\ held' = held \cup {c}

_main_thread_alloc ==
  /\ pc[Creator] = "idle" /\ calls.main < MaxMainCalls /\ unit_free_head # Nil
  /\ Take(unit_free_head, word)
  /\ calls' = [calls EXCEPT !.main = @ + 1]
  /\ UNCHANGED <<blocks, blocks_mt, cache, mt, pc, cell, tp, next>>

\* Its list is empty: it turns to the cells the others have freed.
MainAllocEmpty ==
  /\ pc[Creator] = "idle" /\ calls.main < MaxMainCalls /\ unit_free_head = Nil
  /\ tp' = [tp EXCEPT ![Creator] = cache] /\ Goto(Creator, "takeCache")
  /\ calls' = [calls EXCEPT !.main = @ + 1]
  /\ UNCHANGED <<Shared, cell, next>>

\* Mutant: the list is taken without counting its cells as freed.
_check_mutli_free_cache_Uncounted ==
  /\ pc[Creator] = "takeCache"
  /\ IF cache = tp[Creator]
     THEN /\ cache' = [ptr |-> Nil, allocs |-> cache.frees + 1, frees |-> cache.frees + 1]
          /\ unit_free_head' = cache.ptr
          /\ Goto(Creator, "mainTake") /\ tp' = [tp EXCEPT ![Creator] = NoTag]
          /\ UNCHANGED alloc_count
     ELSE tp' = [tp EXCEPT ![Creator] = cache] /\ UNCHANGED <<cache, unit_free_head, alloc_count, pc>>
  /\ UNCHANGED <<word, blocks, blocks_mt, mt, held, cell, next, calls>>

_check_mutli_free_cache ==
  /\ pc[Creator] = "takeCache"
  /\ IF cache = tp[Creator]
     THEN /\ cache' = [ptr |-> Nil, allocs |-> cache.frees + 1, frees |-> cache.frees + 1]
          /\ unit_free_head' = cache.ptr
          /\ alloc_count' = alloc_count - (cache.frees - cache.allocs)
          /\ Goto(Creator, "mainTake") /\ tp' = [tp EXCEPT ![Creator] = NoTag]
     ELSE tp' = [tp EXCEPT ![Creator] = cache] /\ UNCHANGED <<cache, unit_free_head, alloc_count, pc>>
  /\ UNCHANGED <<word, blocks, blocks_mt, mt, held, cell, next, calls>>

\* It has cells now, or a block is created.
MainAllocAgain ==
  /\ pc[Creator] = "mainTake" /\ Goto(Creator, "idle")
  /\ IF unit_free_head # Nil
     THEN Take(unit_free_head, word) /\ UNCHANGED blocks
     ELSE /\ HeapLeft
          /\ Take(FirstOf(FreshBlock), Chained(FreshBlock, Nil))
          /\ blocks' = blocks \cup {FreshBlock}
  /\ UNCHANGED <<blocks_mt, cache, mt, cell, tp, next, calls>>

-----------------------------------------------------------------------------
(* memory_unit_alloc by another thread: a failed compare-and-swap reads.    *)
_multi_thread_alloc(t) ==
  /\ t \in Others /\ pc[t] = "idle" /\ calls.multi < MaxMultiCalls
  /\ tp' = [tp EXCEPT ![t] = mt]
  /\ calls' = [calls EXCEPT !.multi = @ + 1]
  /\ Goto(t, "allocRead")
  /\ UNCHANGED <<Shared, cell, next>>

\* After the creation of a block.
MultiAllocLoad(t) ==
  /\ pc[t] = "allocLoad"
  /\ tp' = [tp EXCEPT ![t] = mt] /\ Goto(t, "allocRead")
  /\ UNCHANGED <<Shared, cell, next, calls>>

\* The word of the first cell, which may have been taken in the meantime.
MultiAllocRead(t) ==
  /\ pc[t] = "allocRead" /\ tp[t].ptr # Nil
  /\ next' = [next EXCEPT ![t] = word[tp[t].ptr]]
  /\ Goto(t, "allocSwap")
  /\ UNCHANGED <<Shared, cell, tp, calls>>

\* Mutant: only the pointers are compared.
MultiAllocSwap_PointerOnly(t) ==
  /\ pc[t] = "allocSwap"
  /\ IF mt.ptr = tp[t].ptr
     THEN /\ mt' = [mt EXCEPT !.ptr = next[t], !.allocs = @ + 1]
          /\ cell' = [cell EXCEPT ![t] = mt.ptr] /\ Goto(t, "allocSign")
          /\ tp' = [tp EXCEPT ![t] = NoTag]
     ELSE /\ tp' = [tp EXCEPT ![t] = mt] /\ Goto(t, "allocRead")
          /\ UNCHANGED <<mt, cell>>
  /\ next' = [next EXCEPT ![t] = Nil]
  /\ UNCHANGED <<word, blocks, blocks_mt, unit_free_head, cache, alloc_count, held, calls>>

MultiAllocSwap(t) ==
  /\ pc[t] = "allocSwap"
  /\ IF mt = tp[t]
     THEN /\ mt' = [mt EXCEPT !.ptr = next[t], !.allocs = @ + 1]
          /\ cell' = [cell EXCEPT ![t] = mt.ptr] /\ Goto(t, "allocSign")
          /\ tp' = [tp EXCEPT ![t] = NoTag]
     ELSE /\ tp' = [tp EXCEPT ![t] = mt] /\ Goto(t, "allocRead")
          /\ UNCHANGED <<mt, cell>>
  /\ next' = [next EXCEPT ![t] = Nil]
  /\ UNCHANGED <<word, blocks, blocks_mt, unit_free_head, cache, alloc_count, held, calls>>

MultiAllocSign(t) ==
  /\ pc[t] = "allocSign" /\ Goto(t, "idle")
  /\ word' = [word EXCEPT ![cell[t]] = MULTI]
  /\ held' = held \cup {cell[t]} /\ cell' = [cell EXCEPT ![t] = Nil]
  /\ UNCHANGED <<blocks, blocks_mt, unit_free_head, cache, mt, alloc_count, tp, next, calls>>

\* The list is empty: a block is pushed on the list of blocks and its cells are chained ...
_create_memory_block_mt(t) ==
  /\ pc[t] = "allocRead" /\ tp[t].ptr = Nil /\ HeapLeft
  /\ blocks_mt' = blocks_mt \cup {FreshBlock}
  /\ word' = Chained(FreshBlock, mt.ptr)
  /\ cell' = [cell EXCEPT ![t] = FirstOf(FreshBlock)]
  /\ tp' = [tp EXCEPT ![t] = mt]
  /\ Goto(t, "growSwap")
  /\ UNCHANGED <<blocks, unit_free_head, cache, mt, alloc_count, held, next, calls>>

\* ... then all of them go before the cells of the list.  A failed swap points the last cell
\* to the new head of the list.
GrowSwap(t) ==
  LET b == (cell[t] - 1) \div GrowCount + 1
  IN /\ pc[t] = "growSwap"
     /\ IF mt = tp[t]
        THEN /\ mt' = [ptr |-> cell[t], allocs |-> mt.allocs + 1, frees |-> mt.frees + 1]
             /\ cell' = [cell EXCEPT ![t] = Nil] /\ tp' = [tp EXCEPT ![t] = NoTag]
             /\ Goto(t, "allocLoad")
             /\ UNCHANGED word
        ELSE /\ tp' = [tp EXCEPT ![t] = mt] /\ word' = [word EXCEPT ![LastOf(b)] = mt.ptr]
             /\ UNCHANGED <<mt, cell, pc>>
     /\ UNCHANGED <<blocks, blocks_mt, unit_free_head, cache, alloc_count, held, next, calls>>

-----------------------------------------------------------------------------
(* memory_unit_free: any thread frees any cell, by the sign in its word.    *)
_main_thread_free(c) ==
  /\ pc[Creator] = "idle" /\ c \in held /\ word[c] = MAIN
  /\ word' = [word EXCEPT ![c] = unit_free_head]
  /\ unit_free_head' = c
  /\ alloc_count' = alloc_count - 1
  /\ held' = held \ {c}
  /\ UNCHANGED <<blocks, blocks_mt, cache, mt, pc, cell, tp, next, calls>>

\* Mutant: every cell another thread frees goes to the list of those threads.
ListFor_Mt(t, c) == "mt"

\* The tagged list a cell goes back to.
ListFor(t, c) == IF t # Creator /\ word[c] = MAIN THEN "cache" ELSE "mt"
HeadOf(l) == IF l = "cache" THEN cache ELSE mt

memory_unit_quick_free(t, c) ==
  /\ pc[t] = "idle" /\ c \in held /\ ~(t = Creator /\ word[c] = MAIN)
  /\ held' = held \ {c}
  /\ cell' = [cell EXCEPT ![t] = c]
  /\ tp' = [tp EXCEPT ![t] = HeadOf(ListFor(t, c))]
  /\ Goto(t, IF ListFor(t, c) = "cache" THEN "freeCache" ELSE "freeMt")
  /\ UNCHANGED <<word, blocks, blocks_mt, unit_free_head, cache, mt, alloc_count, next, calls>>

FreeWord(t) ==
  /\ pc[t] \in {"freeCache", "freeMt"}
  /\ word' = [word EXCEPT ![cell[t]] = tp[t].ptr]
  /\ Goto(t, IF pc[t] = "freeCache" THEN "swapCache" ELSE "swapMt")
  /\ UNCHANGED <<blocks, blocks_mt, unit_free_head, cache, mt, alloc_count, held, cell, tp, next, calls>>

_multi_thread_free_cache(t) ==
  /\ pc[t] = "swapCache"
  /\ IF cache = tp[t]
     THEN /\ cache' = [cache EXCEPT !.ptr = cell[t], !.frees = @ + 1]
          /\ cell' = [cell EXCEPT ![t] = Nil] /\ tp' = [tp EXCEPT ![t] = NoTag] /\ Goto(t, "idle")
     ELSE tp' = [tp EXCEPT ![t] = cache] /\ Goto(t, "freeCache") /\ UNCHANGED <<cache, cell>>
  /\ UNCHANGED <<word, blocks, blocks_mt, unit_free_head, mt, alloc_count, held, next, calls>>

_multi_thread_free(t) ==
  /\ pc[t] = "swapMt"
  /\ IF mt = tp[t]
     THEN /\ mt' = [mt EXCEPT !.ptr = cell[t], !.frees = @ + 1]
          /\ cell' = [cell EXCEPT ![t] = Nil] /\ tp' = [tp EXCEPT ![t] = NoTag] /\ Goto(t, "idle")
     ELSE tp' = [tp EXCEPT ![t] = mt] /\ Goto(t, "freeMt") /\ UNCHANGED <<mt, cell>>
  /\ UNCHANGED <<word, blocks, blocks_mt, unit_free_head, cache, alloc_count, held, next, calls>>

-----------------------------------------------------------------------------
(* memory_unit_tidy, by the creator: blocks with no allocated cell are given *)
(* back, the other free cells are chained anew.  It looks at the cells one   *)
(* after the other, while other threads free and allocate; a cell counts as  *)
(* free when its word is not the sign.                                       *)
BlockOf(c) == (c - 1) \div GrowCount + 1

\* unit_free_head is cleared, and the blocks are gone through.
_tidy_memory_unit ==
  /\ pc[Creator] = "idle"
  /\ \E b \in blocks :
       tidy' = [cell |-> FirstOf(b), left |-> blocks \ {b}, free |-> {},
                own |-> {c \in Cells : \E i \in DOMAIN Listed(unit_free_head) : Listed(unit_free_head)[i] = c},
                met |-> Nil]
  /\ unit_free_head' = Nil
  /\ Goto(Creator, "tidy")
  /\ UNCHANGED <<word, blocks, blocks_mt, cache, mt, alloc_count, held, cell, tp, next, calls>>

\* Mutant: a cell counts as free while its word is the sign.
FoundFree_Inverted(c) == word[c] = MAIN

\* The test of one cell.
FoundFree(c) == word[c] # MAIN

\* The cells of the block found free so far, the one looked at now included.
Found == tidy.free \cup {c \in {tidy.cell} : FoundFree(c)}

\* A cell that another thread has freed, and that waits in the cache list or is on its way into it,
\* is taken for one of the creator's list.  The code goes on: it chains the cell a second time, or gives
\* its block back under the list it waits in.  What follows is undefined, and the model stops (Doubled).
TidyMeetsWaiting ==
  /\ FoundFree(tidy.cell) /\ tidy.cell \notin tidy.own
  /\ tidy' = [tidy EXCEPT !.met = tidy.cell]
  /\ UNCHANGED <<blocks, unit_free_head, word, pc>>

\* The block is given back if all of it was found free; otherwise what was found is put before the
\* list, and the next block follows.
TidyBlockEnd ==
  LET b == BlockOf(tidy.cell)
      gone == Found = CellsOf(b)
      Least(S, none) == IF S = {} THEN none ELSE CHOOSE c \in S : \A d \in S : c <= d
  IN /\ blocks' = IF gone THEN blocks \ {b} ELSE blocks
     /\ unit_free_head' = IF gone THEN unit_free_head ELSE Least(Found, unit_free_head)
     /\ word' = [c \in Cells |->
          IF c \notin Found THEN word[c]
          ELSE IF gone THEN Nil ELSE Least({d \in Found : d > c}, unit_free_head)]
     /\ IF tidy.left = {} THEN tidy' = NoTidy /\ Goto(Creator, "idle")
        ELSE /\ \E n \in tidy.left :
                  tidy' = [cell |-> FirstOf(n), left |-> tidy.left \ {n}, free |-> {},
                           own |-> tidy.own \ CellsOf(b), met |-> Nil]
             /\ UNCHANGED pc

_tidy_memory_block ==
  /\ pc[Creator] = "tidy"
  /\ \/ TidyMeetsWaiting
     \/ /\ FoundFree(tidy.cell) => tidy.cell \in tidy.own
        /\ IF tidy.cell = LastOf(BlockOf(tidy.cell)) THEN TidyBlockEnd
           ELSE /\ tidy' = [tidy EXCEPT !.cell = @ + 1, !.free = Found]
                /\ UNCHANGED <<blocks, unit_free_head, word, pc>>
  /\ UNCHANGED <<blocks_mt, cache, mt, alloc_count, held, cell, tp, next, calls>>

Step ==
  \/ /\ \/ _main_thread_alloc \/ MainAllocEmpty \/ _check_mutli_free_cache \/ MainAllocAgain
        \/ \E c \in held : _main_thread_free(c) \/ \E t \in Threads : memory_unit_quick_free(t, c)
        \/ \E t \in Threads :
             \/ _multi_thread_alloc(t) \/ MultiAllocLoad(t) \/ MultiAllocRead(t)
             \/ MultiAllocSwap(t) \/ MultiAllocSign(t)
             \/ _create_memory_block_mt(t) \/ GrowSwap(t)
             \/ FreeWord(t) \/ _multi_thread_free_cache(t) \/ _multi_thread_free(t)
     /\ UNCHANGED tidy
  \/ _tidy_memory_unit \/ _tidy_memory_block

Doubled == tidy.met # Nil

Next == ~Doubled /\ Step

Spec == Init /\ [][Next]_vars

-----------------------------------------------------------------------------
InUse == UNION {CellsOf(b) : b \in blocks \cup blocks_mt}

\* The cells in a thread's hands: a block not yet pushed, a cell popped and not signed, a cell
\* on its way into a list; the list that memory_unit_tidy makes anew.
InHand(t) ==
  IF pc[t] = "tidy" THEN tidy.own
  ELSE IF pc[t] = "growSwap" THEN CellsOf((cell[t] - 1) \div GrowCount + 1)
  ELSE IF cell[t] # Nil THEN {cell[t]} ELSE {}

\* At every step of every interleaving each cell is in exactly one place: with the application,
\* in one thread's hands, or once in one of the three lists.  So no cell is given to two callers,
\* none is lost, and no list runs into memory that was freed (memory_pool.c:118-147, 192-617).
CellHasOnePlace ==
  LET lists == <<Listed(unit_free_head), Listed(cache.ptr), Listed(mt.ptr)>>
      InLists(c) == Cardinality({<<l, i>> \in (1 .. 3) \X (1 .. Cardinality(Cells) + 1) :
                                   i \in DOMAIN lists[l] /\ lists[l][i] = c})
      InHands(c) == Cardinality({t \in Threads : c \in InHand(t)})
  IN \A c \in Cells :
       InLists(c) + InHands(c) + (IF c \in held THEN 1 ELSE 0) = IF c \in InUse THEN 1 ELSE 0

\* A cell the application holds has the sign of the list it came from, so freeing it never ends
\* in CRUSH_CODE and a cell returns to the kind of block it is from (memory_pool.c:63-84, 619-652).
SignsMatch ==
  \A c \in held :
    word[c] = IF \E b \in blocks : c \in CellsOf(b) THEN MAIN ELSE MULTI

memory_unit_alloc_count ==
  alloc_count + (cache.allocs - cache.frees) + (mt.allocs - mt.frees)

\* With no call in progress memory_unit_alloc_count is the number of cells the application holds,
\* although it is the sum of a counter of the creator and the tags of two lists (memory_pool.c:32-39).
AllocCountRight ==
  (\A t \in Threads : pc[t] = "idle") => memory_unit_alloc_count = Cardinality(held)

\* The scan of memory_unit_tidy goes wrong only by a cell of the creator that another thread has
\* freed: one that waits in the cache list, or one whose word its thread has written for a swap
\* not yet made.  It never takes a cell for free that the application holds, or that another thread
\* has taken in hand and not yet touched, wherever the frees of other threads fall between its looks
\* (memory_pool.c:86-147, 577-617).
TidyGoesWrongOnlySo ==
  Doubled =>
    /\ tidy.met \notin held
    /\ \/ \E i \in DOMAIN Listed(cache.ptr) : Listed(cache.ptr)[i] = tidy.met
       \/ \E t \in Others : cell[t] = tidy.met /\ pc[t] \in {"freeCache", "swapCache"}
=============================================================================
