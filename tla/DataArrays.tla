----------------------------- MODULE DataArrays ------------------------------
(***************************************************************************)
(* DataArray of src/include/net_data.hpp: arrays of up to N elements in    *)
(* the object itself, of more in a block of the heap, counted in a type U  *)
(* of Wide values.  One form holds plain data, the other objects, which it *)
(* constructs and destroys one by one.  Arrays are resized, appended to,   *)
(* copied and moved in any order.  An element is a number, 0 where nothing *)
(* was constructed or written.                                             *)
(***************************************************************************)
EXTENDS Integers, Sequences, FiniteSets, SequencesExt

CONSTANTS
  Names,       \* the arrays
  Pod,         \* whether T is plain data
  Wide,        \* values of U
  Promoted,    \* whether U is narrower than int, so that its sums are ints
  N,           \* elements of m_cache
  MaxCalls     \* bound: calls

ArrayAssumption == Pod \in BOOLEAN /\ Promoted \in BOOLEAN /\ N \in 1 .. Wide - 2 /\ MaxCalls \in Nat

VARIABLES
  arr,         \* the DataArrays: m_size, m_capacity, m_array (0 is m_cache), and whether the object is there
  m_cache,     \* the m_cache of each
  heap,        \* the blocks of the heap; <<>> is a block that is not allocated
  held,        \* history: what each array should hold
  emptied,     \* history: arrays emptied by an assignment to themselves
  wild,        \* history: an element was written outside of its array's memory
  ended,       \* history: elements constructed in the heap and destroyed there: their difference
  arrayCalls

arrayVars == <<arr, m_cache, heap, held, emptied, wild, ended, arrayCalls>>

Top == Wide - 1                    \* numeric_limits<U>::max
m_max_capacity == Top - 1
Default == 1                       \* T()
U(n) == n % Wide
Sum2(a, b) == IF Promoted THEN a + b ELSE U(a + b)
Less(a, b) == IF Promoted THEN a - b ELSE U(a - b)

Raw(n) == [i \in 1 .. n |-> 0]
Memory(x) == IF arr[x].at = 0 THEN m_cache[x] ELSE heap[arr[x].at]
Contents(x) == SubSeq(Memory(x), 1, arr[x].size)
FreeBlock == CHOOSE b \in DOMAIN heap : heap[b] = <<>>
Gone == [size |-> 0, cap |-> 0, at |-> 0, alive |-> FALSE]
Empty == [size |-> 0, cap |-> N, at |-> 0, alive |-> TRUE]

\* Elements constructed less elements destroyed in the memory `at', where `n' lived and `m' live.
Lived(at, n, m) == IF Pod \/ at = 0 THEN 0 ELSE m - n

ArrayInit ==
  /\ arr = [x \in Names |-> Empty]
  /\ m_cache = [x \in Names |-> Raw(N)]
  /\ heap = [b \in 1 .. Cardinality(Names) + 1 |-> <<>>]
  /\ held = [x \in Names |-> <<>>]
  /\ emptied = {} /\ wild = FALSE /\ ended = 0 /\ arrayCalls = 0

\* The array holds `s' in memory of `cap' elements; the old block goes if it was left.
Put(x, s, cap, at) ==
  LET fits == Len(s) =< cap
      kept == IF fits THEN s \o Raw(cap - Len(s)) ELSE SubSeq(s, 1, cap)
      freed == IF arr[x].at # at /\ arr[x].at # 0 THEN [heap EXCEPT ![arr[x].at] = <<>>] ELSE heap
  IN /\ wild' = (wild \/ ~fits)
     /\ IF at = 0 THEN m_cache' = [m_cache EXCEPT ![x] = kept] /\ heap' = freed
        ELSE heap' = [freed EXCEPT ![at] = kept] /\ UNCHANGED m_cache
     /\ arr' = [arr EXCEPT ![x] = [size |-> U(Len(s)), cap |-> cap, at |-> at, alive |-> TRUE]]

\* The array's elements move to a larger block if `cap' is more than it has.
Grow(x, s, cap) ==
  IF cap > arr[x].cap THEN Put(x, s, cap, FreeBlock) ELSE Put(x, s, arr[x].cap, arr[x].at)

Call(x) == arr[x].alive /\ arrayCalls < MaxCalls /\ ~wild /\ arrayCalls' = arrayCalls + 1

\* A call that throws: nothing changes.
Throws == UNCHANGED <<arr, m_cache, heap, held, emptied, wild, ended>>

Counted(x, moved) ==
  ended' = ended + (IF moved THEN Lived(arr[x].at, arr[x].size, 0) + Lived(arr'[x].at, 0, arr'[x].size)
                    ELSE Lived(arr[x].at, arr[x].size, arr'[x].size))

-----------------------------------------------------------------------------
\* resize: new elements are T(), or of plain data whatever the memory holds.
Resize(x, n) ==
  LET Resized(s) == [i \in 1 .. n |-> IF i =< Len(s) THEN s[i] ELSE IF Pod THEN 0 ELSE Default]
  IN /\ Call(x)
     /\ Grow(x, Resized(Contents(x)), n) /\ Counted(x, arr'[x].at # arr[x].at)
     /\ held' = [held EXCEPT ![x] = Resized(@)]
     /\ UNCHANGED emptied

Reserve(x, n) ==
  /\ Call(x)
  /\ Grow(x, Contents(x), n) /\ Counted(x, arr'[x].at # arr[x].at)
  /\ UNCHANGED <<held, emptied>>

\* Mutant: the capacity goes up by half and never below the room for one more.
Grown_ByHalf(cap) ==
  IF cap = m_max_capacity THEN -1
  ELSE IF Less(m_max_capacity, cap) < cap \div 2 THEN m_max_capacity ELSE U(cap + cap \div 2)

\* The capacity push_back goes on to; -1 where it throws.
Grown(cap) ==
  LET half == Sum2(cap, 1) \div 2
  IN IF Less(m_max_capacity, cap) >= half THEN U(cap + half)
     ELSE IF cap = m_max_capacity THEN -1 ELSE m_max_capacity

\* push_back.
PushBack(x, v) ==
  /\ Call(x)
  /\ LET s == Append(Contents(x), v)
         cap == Grown(arr[x].cap)
     IN IF arr[x].size >= arr[x].cap /\ cap = -1 THEN Throws
        ELSE /\ IF arr[x].size < arr[x].cap THEN Put(x, s, arr[x].cap, arr[x].at)
                ELSE Put(x, s, cap, FreeBlock)
             /\ Counted(x, arr'[x].at # arr[x].at)
             /\ held' = [held EXCEPT ![x] = Append(@, v)]
             /\ UNCHANGED emptied

\* append_data: of an array and a length, and of a container, whose size is no U.
AppendData(x, s, container) ==
  /\ Call(x)
  /\ LET room == IF container /\ m_max_capacity < arr[x].size THEN Wide ELSE Less(m_max_capacity, arr[x].size)
         new == Contents(x) \o s
     IN IF room < Len(s) THEN Throws
        ELSE /\ Grow(x, new, U(arr[x].size + Len(s))) /\ Counted(x, arr'[x].at # arr[x].at)
             /\ held' = [held EXCEPT ![x] = @ \o s]
             /\ UNCHANGED emptied

\* erase, and clear.
Erase(x, i) ==
  /\ Call(x)
  /\ IF i >= arr[x].size THEN Throws
     ELSE /\ Put(x, RemoveAt(Contents(x), i + 1), arr[x].cap, arr[x].at) /\ Counted(x, FALSE)
          /\ held' = [held EXCEPT ![x] = IF i < Len(@) THEN RemoveAt(@, i + 1) ELSE @]
          /\ UNCHANGED emptied

Clear(x) ==
  /\ Call(x)
  /\ Put(x, <<>>, arr[x].cap, arr[x].at) /\ Counted(x, FALSE)
  /\ held' = [held EXCEPT ![x] = <<>>]
  /\ UNCHANGED emptied

\* operator= with another array, or the same one, which an array of objects then has emptied.
CopyAssign(x, y) ==
  LET s == IF x = y /\ ~Pod THEN <<>> ELSE Contents(y)
      larger == arr[x].cap < Len(s)
  IN /\ Call(x) /\ arr[y].alive
     /\ IF larger THEN Put(x, s, arr[y].cap, FreeBlock) ELSE Put(x, s, arr[x].cap, arr[x].at)
     /\ Counted(x, larger)
     /\ held' = [held EXCEPT ![x] = held[y]]
     /\ emptied' = IF (x = y /\ ~Pod) \/ y \in emptied THEN emptied \cup {x} ELSE emptied \ {x}

\* operator= from an array that is about to go: a block changes its owner.
MoveAssign(x, y) ==
  LET s == Contents(y)
  IN /\ Call(x) /\ arr[y].alive /\ x # y
     /\ IF arr[y].at = 0
        THEN /\ arr' = [arr EXCEPT ![x].size = Len(s), ![y].size = 0]
             /\ m_cache' = IF arr[x].at = 0 THEN [m_cache EXCEPT ![x] = s \o Raw(N - Len(s)), ![y] = Raw(N)]
                           ELSE [m_cache EXCEPT ![y] = Raw(N)]
             /\ heap' = IF arr[x].at = 0 THEN heap ELSE [heap EXCEPT ![arr[x].at] = s \o Raw(arr[x].cap - Len(s))]
             /\ Counted(x, FALSE) /\ UNCHANGED wild
        ELSE /\ arr' = [arr EXCEPT ![x] = arr[y], ![y] = Empty]
             /\ heap' = IF arr[x].at # 0 THEN [heap EXCEPT ![arr[x].at] = <<>>] ELSE heap
             /\ ended' = ended + Lived(arr[x].at, arr[x].size, 0)
             /\ UNCHANGED <<m_cache, wild>>
     /\ held' = [held EXCEPT ![x] = held[y], ![y] = <<>>]
     /\ emptied' = (IF y \in emptied THEN emptied \cup {x} ELSE emptied \ {x}) \ {y}

\* The copy constructor, and the destructor.
CopyConstruct(x, y) ==
  LET s == Contents(y)
      small == Len(s) =< N
  IN /\ ~arr[x].alive /\ arr[y].alive /\ arrayCalls < MaxCalls /\ ~wild /\ arrayCalls' = arrayCalls + 1
     /\ IF small THEN Put(x, s, N, 0) ELSE Put(x, s, arr[y].cap, FreeBlock)
     /\ ended' = ended + Lived(IF small THEN 0 ELSE FreeBlock, 0, Len(s))
     /\ held' = [held EXCEPT ![x] = held[y]]
     /\ emptied' = IF y \in emptied THEN emptied \cup {x} ELSE emptied \ {x}

Destroy(x) ==
  /\ Call(x)
  /\ ended' = ended + Lived(arr[x].at, arr[x].size, 0)
  /\ heap' = IF arr[x].at # 0 THEN [heap EXCEPT ![arr[x].at] = <<>>] ELSE heap
  /\ arr' = [arr EXCEPT ![x] = Gone]
  /\ held' = [held EXCEPT ![x] = <<>>]
  /\ emptied' = emptied \ {x}
  /\ UNCHANGED <<m_cache, wild>>

ArrayNext ==
  \E x \in Names :
    \/ \E n \in 0 .. Top : Resize(x, n) \/ Reserve(x, n) \/ Erase(x, n)
    \/ \E v \in {2, 3} : PushBack(x, v)
    \/ \E c \in BOOLEAN, s \in {<<2, 3>>, <<3, 3, 2>>} : AppendData(x, s, c)
    \/ Clear(x) \/ Destroy(x)
    \/ \E y \in Names : CopyAssign(x, y) \/ MoveAssign(x, y) \/ CopyConstruct(x, y)

ArraySpec == ArrayInit /\ [][ArrayNext]_arrayVars

-----------------------------------------------------------------------------
\* A call resized an array to the largest U, which is more than m_max_capacity: what push_back and
\* append_data do next is not covered by their checks.
Overfull == \E x \in Names : arr[x].cap = Top \/ Len(held[x]) > Top

\* An array holds what was put in it, in memory that is large enough (net_data.hpp:83-440, 519-918).
ArraysHold ==
  /\ wild => Overfull
  /\ ~wild => \A x \in Names : /\ Contents(x) = held[x] \/ x \in emptied
                               /\ arr[x].alive => arr[x].size =< arr[x].cap /\ Len(Memory(x)) = arr[x].cap

\* A block belongs to one array and goes with it; the objects in blocks are those of the arrays,
\* each constructed and destroyed once (net_data.hpp:519-918).
BlocksOwned ==
  ~wild =>
    /\ \A b \in DOMAIN heap : heap[b] # <<>> => Cardinality({x \in Names : arr[x].at = b}) = 1
    /\ \A x \in Names : arr[x].at # 0 => heap[arr[x].at] # <<>>
    /\ ended = (IF Pod THEN 0 ELSE FoldSet(LAMBDA x, n : n + (IF arr[x].at = 0 THEN 0 ELSE arr[x].size), 0, Names))

ArraysSafe == ArraysHold /\ BlocksOwned
=============================================================================
