---------------------------- MODULE OrderedMaps -----------------------------
(***************************************************************************)
(* A red-black tree and an AVL tree that receive the same calls, beside    *)
(* the dictionary both stand for.  `kind' is the interface in use: trees   *)
(* with integer keys; trees whose keys are pointers compared by a function *)
(* ("user"), where two different pointers (Copies) may compare equal; or a *)
(* red-black tree that owns its string keys ("str", "wstr").               *)
(***************************************************************************)
EXTENDS TreeHelp, AvlTree, TLC

CONSTANTS
  Tagged     \* the keys that come in two copies; the others only in one

VARIABLES kind, rb, avl, live, dict

vars == <<kind, rb, avl, live, dict>>

-----------------------------------------------------------------------------
\* The dictionary: a finite map from keys to items, with what the calls mean for it.
EmptyDict == <<>>

Put(d, k, it) == (k :> it) @@ d
PutIfAbsent(d, k, it) == d @@ (k :> it)
Without(d, k) == [j \in DOMAIN d \ {k} |-> d[j]]

\* An integer key is the key; only the value of a present node changes.
PutValue(d, k, it) == IF k \in DOMAIN d THEN [d EXCEPT ![k].value = it.value] ELSE Put(d, k, it)

-----------------------------------------------------------------------------
Copies(k) == IF k \in Tagged THEN {1, 2} ELSE {1}

\* The items a caller may put under k.
ItemsOf(k) ==
  {[key |-> IF kind = "integer" THEN 1 ELSE c, value |-> c] : c \in Copies(k)}

\* A string tree allocates a string object for each call; these are free to be one.
NewStrings(k) == {it \in ItemsOf(k) : <<k, it.key>> \notin live}

Init ==
  /\ kind \in {"integer", "user", "str", "wstr"}
  /\ rb = EmptyRb /\ avl = EmptyAvl /\ live = {} /\ dict = EmptyDict

InsertInteger(k, it) ==
  /\ kind = "integer"
  /\ rb' = rb_tree_insert_integer(rb, k, it)
  /\ avl' = avl_tree_insert_integer(avl, k, it)
  /\ dict' = PutValue(dict, k, it)
  /\ UNCHANGED <<kind, live>>

TryInsertInteger(k, it) ==
  /\ kind = "integer"
  /\ rb' = rb_tree_try_insert_integer(rb, k, it)
  /\ avl' = avl_tree_try_insert_integer(avl, k, it)
  /\ dict' = PutIfAbsent(dict, k, it)
  /\ UNCHANGED <<kind, live>>

InsertUser(k, it) ==
  /\ kind = "user"
  /\ rb' = rb_tree_insert_user(rb, k, it)
  /\ avl' = avl_tree_insert_user(avl, k, it)
  /\ dict' = Put(dict, k, it)
  /\ UNCHANGED <<kind, live>>

TryInsertUser(k, it) ==
  /\ kind = "user"
  /\ rb' = rb_tree_try_insert_user(rb, k, it)
  /\ avl' = avl_tree_try_insert_user(avl, k, it)
  /\ dict' = PutIfAbsent(dict, k, it)
  /\ UNCHANGED <<kind, live>>

Erase(k) ==
  /\ kind \in {"integer", "user"}
  /\ rb' = rb_tree_erase(rb, IF kind = "user" THEN rb_tree_find_user(rb, k)
                                              ELSE rb_tree_find_integer(rb, k))
  /\ avl' = avl_tree_erase(avl, IF kind = "user" THEN avl_tree_find_user(avl, k)
                                                 ELSE avl_tree_find_integer(avl, k))
  /\ dict' = Without(dict, k)
  /\ UNCHANGED <<kind, live>>

Clear ==
  /\ kind \in {"integer", "user"}
  /\ rb' = rb_tree_clear(rb) /\ avl' = avl_tree_clear(avl) /\ dict' = EmptyDict
  /\ UNCHANGED <<kind, live>>

Strings == [tree |-> rb, live |-> live]

StringStep(s) == rb' = s.tree /\ live' = s.live /\ UNCHANGED <<kind, avl>>

InsertStr(k, it) ==
  /\ StringStep(IF kind = "str" THEN str_bkdr_tree_insert(Strings, k, it)
                                ELSE wstr_rb_tree_insert(Strings, k, it))
  /\ dict' = Put(dict, k, it)

TryInsertStr(k, it) ==
  /\ StringStep(IF kind = "str" THEN str_bkdr_tree_try_insert(Strings, k, it)
                                ELSE wstr_rb_tree_try_insert(Strings, k, it))
  /\ dict' = PutIfAbsent(dict, k, it)

EraseStr(k) ==
  /\ kind = "str"
  /\ StringStep(str_bkdr_tree_erase(Strings, k))
  /\ dict' = Without(dict, k)

DestroyStr ==
  /\ StringStep(IF kind = "str" THEN destroy_str_bkdr_tree(Strings)
                                ELSE destroy_wstr_rb_tree(Strings))
  /\ dict' = EmptyDict

Next ==
  \/ \E k \in Keys : \E it \in ItemsOf(k) :
       \/ InsertInteger(k, it) \/ TryInsertInteger(k, it)
       \/ InsertUser(k, it) \/ TryInsertUser(k, it)
  \/ \E k \in Keys : Erase(k) \/ EraseStr(k)
  \/ Clear
  \/ /\ kind \in {"str", "wstr"}
     /\ \/ \E k \in Keys : \E it \in NewStrings(k) : InsertStr(k, it) \/ TryInsertStr(k, it)
        \/ DestroyStr

Spec == Init /\ [][Next]_vars

\* After any sequence of calls both trees obey the rules that keep them low, their lists run
\* through the nodes in key order both ways, parents and children agree, and no node taken
\* from the allocator is missing (rb_tree.c:162-404, avl_tree.c:134-450).
TreesWellFormed ==
  /\ WellLinked(rb) /\ RbBalanced(rb)
  /\ WellLinked(avl) /\ AvlBalanced(avl)

\* The trees hold exactly the dictionary of the calls made so far, and every way to look a key
\* up answers from it: by integer, by comparison, by string (the answer is the value), by a
\* near key (memory_pool.c:1048 takes the neighbour of a missing key), and in a segment tree
\* made of the tree with any interval (tree_help.c:105-214).
TreesHoldDictionary ==
  /\ Contents(rb) = dict
  /\ kind \in {"integer", "user"} => Contents(avl) = dict
  /\ \A k \in Keys :
       /\ rb_tree_find_integer(rb, k) = IF k \in DOMAIN dict THEN k ELSE Nil
       /\ str_bkdr_tree_find(Strings, k) = IF k \in DOMAIN dict THEN dict[k].value ELSE 0
       /\ kind = "integer" =>
            LET n == avl_tree_find_integer_nearby(avl, k)
            IN IF dict = EmptyDict THEN n = Nil
               ELSE n \in DOMAIN dict /\ \A j \in DOMAIN dict : ~(k <= j /\ j < n) /\ ~(n < j /\ j <= k)
  /\ kind = "integer" =>
       \A interval \in 0 .. 3 :
         LET segments == create_int_seg_tree(rb, interval)
         IN \A k \in Keys :
              int_seg_tree_find(segments, k) = IF k \in DOMAIN dict THEN dict[k].value ELSE 0

\* A string tree owns one string object per node: none is leaked, none is freed while its node
\* is in the tree (tree_help.c:10-86).
StringsOwned == live = IF kind \in {"str", "wstr"} THEN {<<k, dict[k].key>> : k \in DOMAIN dict} ELSE {}
=============================================================================
