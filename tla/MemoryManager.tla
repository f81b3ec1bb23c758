--------------------------- MODULE MemoryManager ----------------------------
(***************************************************************************)
(* The memory_manager of src/memory_pool.c: pools of growing sizes in an   *)
(* AVL tree, each pool an array of units, and malloc for what is larger    *)
(* than the last pool.  A block is found again, when it is freed, from its *)
(* unit's size alone.                                                      *)
(***************************************************************************)
EXTENDS AvlTree, FiniteSetsExt

CONSTANTS
  Word,          \* sizeof(size_t) and sizeof(void* )
  Managers,      \* arguments of create_memory_manager: [align, start, max, power]
  MaxRequest,    \* bound: sizes the application asks for
  Slots          \* bound: blocks the application holds at a time

ManagerAssumption ==
  /\ Word \in Nat \ {0} /\ MaxRequest \in Nat
  \* aligns must be powers of two, of a word at least: pool->shift counts the zeros at the end
  \* of the align that was passed, before it was rounded, and a pool's mask is align - 1
  /\ \A m \in Managers :
       /\ \E k \in 0 .. m.align : m.align = 2 ^ k /\ m.align % Word = 0
       /\ \E k \in 1 .. m.power : m.power = 2 ^ k

VARIABLES
  mgr,           \* the tree of the manager's pools, made when it was created
  block,         \* the block in each slot, and the size asked for
  used,          \* blocks given out of each unit: what the units' alloc_counts say
  system,        \* system_alloc_size - system_free_size of the pools
  crushed        \* CRUSH_CODE was reached

vars == <<mgr, block, used, system, crushed>>

NoBlock == [kind |-> "none"]

RoundUp(n, a) == ((n + a - 1) \div a) * a
Larger(a, b) == IF a > b THEN a ELSE b

\* 2 ^ pool->shift
RECURSIVE TwosIn(_)
TwosIn(n) == IF n % 2 = 1 THEN 1 ELSE 2 * TwosIn(n \div 2)

create_memory_pool(align, min_mem_size, max_mem_size) ==
  LET a == RoundUp(align, Word)
      max == RoundUp(max_mem_size, a)
      min == RoundUp(Larger(min_mem_size, Word), a)
  IN [align |-> a, min |-> min, max |-> max, span |-> TwosIn(align),
      unit_size |-> (max - min) \div a + 1]

\* The pools, each value of the tree being a pool.
RECURSIVE AddPools(_, _, _, _, _)
AddPools(t, align, last_start_size, start_size, m) ==
  IF start_size > m.max THEN t
  ELSE LET pool == create_memory_pool(align, last_start_size, start_size)
       IN AddPools(avl_tree_insert_integer(t, pool.max, [key |-> pool.max, value |-> pool]),
                   align * m.power, start_size + 1, start_size * m.power, m)

create_memory_manager(m) == AddPools(EmptyAvl, m.align, Word, m.start, m)

\* A pool by its largest size.
Pool(n) == mgr.item[n].value

Init ==
  /\ mgr \in {create_memory_manager(m) : m \in Managers}
  /\ block = [s \in Slots |-> NoBlock]
  /\ used = {} /\ system = 0
  /\ crushed = FALSE

-----------------------------------------------------------------------------
\* The node of the first pool with blocks as large as that, or the last pool.
PoolNode(size) ==
  LET near == avl_tree_find_integer_nearby(mgr, size)
  IN IF near < size /\ mgr.next[near] # Nil THEN mgr.next[near] ELSE near

\* Mutant: a request one past a unit's size gets that unit.
UnitFor_Down(pool, size) == IF size <= pool.min THEN 0 ELSE (size - pool.min) \div pool.span

\* The number of the unit in its pool's array: rounded up for a request ...
UnitFor(pool, size) ==
  IF size <= pool.min THEN 0
  ELSE (size - pool.min) \div pool.span + IF (size - pool.min) % pool.align # 0 THEN 1 ELSE 0

\* ... and exact for a unit's size.
UnitOf(pool, unit_size) == (unit_size - pool.min) \div pool.span

\* The block a pool gives for a request.
memory_pool_alloc(n, size) ==
  LET pool == Pool(n)
      i == UnitFor(pool, size)
  IN IF size = 0 THEN NoBlock
     ELSE IF size > pool.max
     THEN [kind |-> "system", pool |-> n, size |-> size, asked |-> size]
     ELSE [kind |-> "unit", pool |-> n, unit |-> i, size |-> pool.min + i * pool.align, asked |-> size]

\* The counters after a block is given out, or comes back: one entry of `used' per block.
SystemSize(b) == IF b.kind = "system" THEN b.size + 2 * Word ELSE 0
UnitEntry(s, b) == IF b.kind = "unit" THEN {<<s, b.pool, b.unit>>} ELSE {}

Give(s, b) ==
  /\ block' = [block EXCEPT ![s] = b]
  /\ used' = used \cup UnitEntry(s, b)
  /\ system' = system + SystemSize(b)

memory_manager_alloc(s, size) ==
  /\ block[s] = NoBlock /\ ~crushed
  /\ Give(s, memory_pool_alloc(PoolNode(size), size))
  /\ UNCHANGED <<mgr, crushed>>

\* The unit a block is returned to: found from the unit's size.
HomeUnit(b) == LET n == PoolNode(b.size) IN <<n, UnitOf(Pool(n), b.size)>>

memory_manager_free(s) ==
  LET b == block[s]
      home == HomeUnit(b)
  IN /\ b # NoBlock /\ ~crushed
     /\ IF b.kind = "system" /\ b.pool = mgr.tail
        THEN system' = system - SystemSize(b) /\ UNCHANGED <<used, crushed>>
        ELSE IF b.kind = "unit" /\ home = <<b.pool, b.unit>>
        THEN used' = used \ UnitEntry(s, b) /\ UNCHANGED <<system, crushed>>
        ELSE crushed' = TRUE /\ UNCHANGED <<used, system>>
     /\ block' = [block EXCEPT ![s] = NoBlock]
     /\ UNCHANGED mgr

\* Mutant: the size of a block that moved within malloc is not subtracted.
memory_pool_realloc_Forgets(s, b, size) ==
  IF b.kind = "system"
  THEN /\ block' = [block EXCEPT ![s] = [b EXCEPT !.size = size, !.asked = size]]
       /\ system' = system + size + 2 * Word
       /\ UNCHANGED <<used, crushed>>
  ELSE LET new == memory_pool_alloc(b.pool, size)
       IN /\ crushed' = (UnitOf(Pool(b.pool), b.size) # b.unit)
          /\ block' = [block EXCEPT ![s] = new]
          /\ used' = (used \ UnitEntry(s, b)) \cup UnitEntry(s, new)
          /\ system' = system + SystemSize(new)

\* A block that malloc gave stays malloc's; one of a unit too small moves to another unit.
memory_pool_realloc(s, b, size) ==
  IF b.kind = "system"
  THEN /\ block' = [block EXCEPT ![s] = [b EXCEPT !.size = size, !.asked = size]]
       /\ system' = system + size - b.size
       /\ UNCHANGED <<used, crushed>>
  ELSE LET new == memory_pool_alloc(b.pool, size)
       IN /\ crushed' = (UnitOf(Pool(b.pool), b.size) # b.unit)
          /\ block' = [block EXCEPT ![s] = new]
          /\ used' = (used \ UnitEntry(s, b)) \cup UnitEntry(s, new)
          /\ system' = system + SystemSize(new)

memory_manager_realloc(s, size) ==
  LET b == block[s]
      home == HomeUnit(b)
      new == memory_pool_alloc(PoolNode(size), size)
  IN /\ b # NoBlock /\ ~crushed
     /\ IF b.kind = "system" THEN memory_pool_realloc(s, b, size)
        ELSE IF size <= b.size
        THEN block' = [block EXCEPT ![s].asked = size] /\ UNCHANGED <<used, system, crushed>>
        ELSE IF PoolNode(b.size) = PoolNode(size) THEN memory_pool_realloc(s, b, size)
        ELSE /\ block' = [block EXCEPT ![s] = new]
             /\ used' = (used \ UnitEntry(s, b)) \cup UnitEntry(s, new)
             /\ system' = system + SystemSize(new)
             /\ crushed' = (home # <<b.pool, b.unit>>)
     /\ UNCHANGED mgr

Next ==
  \E s \in Slots :
    \/ \E size \in 0 .. MaxRequest : memory_manager_alloc(s, size) \/ memory_manager_realloc(s, size)
    \/ memory_manager_free(s)

Spec == Init /\ [][Next]_vars

-----------------------------------------------------------------------------
memory_manager_check(b) ==
  (b.kind = "system" /\ b.pool = mgr.tail) \/ (b.kind = "unit" /\ HomeUnit(b) = <<b.pool, b.unit>>)

memory_manager_alloc_size ==
  system + FoldSet(LAMBDA e, n : n + Word + Pool(e[2]).min + e[3] * Pool(e[2]).align, 0, used)

\* Every block is at least as large as asked for and comes from a unit its pool has; the search
\* by size leads back to that unit, so no free or realloc of a good block ends in CRUSH_CODE
\* (memory_pool.c:758-829, 897-932, 1072-1222).
BlocksFit ==
  /\ ~crushed
  /\ \A s \in Slots : block[s] # NoBlock =>
       /\ block[s].size >= block[s].asked
       /\ block[s].kind = "unit" => block[s].unit < Pool(block[s].pool).unit_size
       /\ memory_manager_check(block[s])

\* The size the manager reports is that of the blocks given out and not freed, with their
\* headers, through every move of a realloc (memory_pool.c:953-972, 1224-1236).
SizesAccounted ==
  memory_manager_alloc_size =
    FoldSet(LAMBDA s, n : n + IF block[s] = NoBlock THEN 0
                              ELSE block[s].size + IF block[s].kind = "system" THEN 2 * Word ELSE Word,
            0, Slots)
=============================================================================
