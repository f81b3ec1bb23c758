------------------------------ MODULE AvlTree -------------------------------
(* src/avl_tree.c, and the search for a near key of src/memory_pool.c.      *)
EXTENDS OrderedTree

EmptyAvl == EmptyTree @@ [height |-> [n \in Keys |-> 0]]

_avl_node_height(t, n) == IF n = Nil THEN 0 ELSE t.height[n]

Taller(t, n) ==
  LET h0 == _avl_node_height(t, t.kid[n][Left])
      h1 == _avl_node_height(t, t.kid[n][Right])
  IN 1 + IF h0 > h1 THEN h0 ELSE h1

_avl_link_node(t, k, p) == [LinkNode(t, k, p) EXCEPT !.height[k] = 1]

\* node goes up, its parent down to the other side; both heights are computed anew.
_avl_roate(t, node) ==
  LET parent == t.parent[node]
      side == IF node = t.kid[parent][Left] THEN Left ELSE Right
      child == t.kid[node][Opposite(side)]
      above == t.parent[parent]
      t1 == [t EXCEPT !.parent[node] = above, !.kid[node][Opposite(side)] = parent,
                      !.kid[parent][side] = child]
      t2 == [Replace(SetParent(t1, child, parent), above, parent, node) EXCEPT
               !.parent[parent] = node]
      t3 == [t2 EXCEPT !.height[parent] = Taller(t2, parent)]
  IN [t3 EXCEPT !.height[node] = Taller(t3, node)]

RECURSIVE _avl_balance(_, _)

\* Mutant: a tall child that leans to neither side gets the double rotation.
_avl_balance_EvenIsBent(t, node) ==
  IF node = Nil THEN t
  ELSE LET t1 == [t EXCEPT !.height[node] = Taller(t, node)]
           Lean(n) == _avl_node_height(t1, t1.kid[n][Left]) - _avl_node_height(t1, t1.kid[n][Right])
           balance == Lean(node)
       IN IF balance \notin {2, -2} THEN _avl_balance(t1, t1.parent[node])
          ELSE LET tall == t1.kid[node][IF balance = -2 THEN Right ELSE Left]
                   lean == Lean(tall)
               IN IF lean # 0 /\ (lean < 0) = (balance < 0)
                  THEN LET t2 == _avl_roate(t1, tall) IN _avl_balance(t2, t2.parent[tall])
                  ELSE LET grand == t1.kid[tall][IF lean = -1 THEN Right ELSE Left]
                           t2 == _avl_roate(_avl_roate(t1, grand), grand)
                       IN _avl_balance(t2, t2.parent[grand])

_avl_balance(t, node) ==
  IF node = Nil THEN t
  ELSE LET t1 == [t EXCEPT !.height[node] = Taller(t, node)]
           Lean(n) == _avl_node_height(t1, t1.kid[n][Left]) - _avl_node_height(t1, t1.kid[n][Right])
           balance == Lean(node)
       IN IF balance \notin {2, -2} THEN _avl_balance(t1, t1.parent[node])
          ELSE LET tall == t1.kid[node][IF balance = -2 THEN Right ELSE Left]
                   lean == Lean(tall)
               IN IF lean = 0 \/ (lean < 0) = (balance < 0)
                  THEN LET t2 == _avl_roate(t1, tall) IN _avl_balance(t2, t2.parent[tall])
                  ELSE LET grand == t1.kid[tall][IF lean = -1 THEN Right ELSE Left]
                           t2 == _avl_roate(_avl_roate(t1, grand), grand)
                       IN _avl_balance(t2, t2.parent[grand])

_avl_splice_out(t, node) ==
  LET parent == t.parent[node]
      child == t.kid[node][IF t.kid[node][Right] # Nil THEN Right ELSE Left]
  IN Replace(SetParent(t, child, parent), parent, node, child)

\* Mutant: balancing starts above the node that left, not where the successor was taken from.
avl_tree_erase_FromParent(t, node) ==
  IF node = Nil THEN t
  ELSE LET parent == t.parent[node]
           successor == t.next[node]
           t1 == _avl_splice_out(t, successor)
           t2 == [t1 EXCEPT !.parent[successor] = parent, !.kid[successor] = t1.kid[node]]
           t3 == SetParent(SetParent(t2, t2.kid[successor][Left], successor),
                           t2.kid[successor][Right], successor)
           cut == IF t.kid[node][Left] = Nil \/ t.kid[node][Right] = Nil
                  THEN _avl_balance(_avl_splice_out(t, node), parent)
                  ELSE _avl_balance(Replace(t3, parent, node, successor), parent)
       IN [Release(UnlinkNode(cut, node), node) EXCEPT !.height[node] = 0]

avl_tree_erase(t, node) ==
  IF node = Nil THEN t
  ELSE LET parent == t.parent[node]
           successor == t.next[node]
           below == t.parent[successor]
           t1 == _avl_splice_out(t, successor)
           t2 == [t1 EXCEPT !.parent[successor] = parent, !.kid[successor] = t1.kid[node]]
           t3 == SetParent(SetParent(t2, t2.kid[successor][Left], successor),
                           t2.kid[successor][Right], successor)
           cut == IF t.kid[node][Left] = Nil \/ t.kid[node][Right] = Nil
                  THEN _avl_balance(_avl_splice_out(t, node), parent)
                  ELSE _avl_balance(Replace(t3, parent, node, successor),
                                    IF node = below THEN successor ELSE below)
       IN [Release(UnlinkNode(cut, node), node) EXCEPT !.height[node] = 0]

avl_tree_find_integer(t, k) == Find(t, t.root, k)
avl_tree_find_user(t, k) == Find(t, t.root, k)

\* The key itself, or the last node on the way to where it would be.
avl_tree_find_integer_nearby(t, k) ==
  IF Find(t, t.root, k) # Nil THEN k ELSE LastOnPath(t, t.root, Nil, k)

AvlAdd(t, k, it) ==
  _avl_balance(_avl_link_node(Allocate(t, k, it), k, LastOnPath(t, t.root, Nil, k)), k)

avl_tree_insert_integer(t, k, it) ==
  IF avl_tree_find_integer(t, k) = k THEN [t EXCEPT !.item[k].value = it.value] ELSE AvlAdd(t, k, it)

avl_tree_insert_user(t, k, it) ==
  IF avl_tree_find_user(t, k) = k THEN [t EXCEPT !.item[k] = it] ELSE AvlAdd(t, k, it)

avl_tree_try_insert_integer(t, k, it) ==
  IF avl_tree_find_integer(t, k) = k THEN t ELSE AvlAdd(t, k, it)

avl_tree_try_insert_user(t, k, it) ==
  IF avl_tree_find_user(t, k) = k THEN t ELSE AvlAdd(t, k, it)

\* As in the red-black tree, the next of a freed node is taken as it was.
avl_tree_clear(t) ==
  [EmptyAvl EXCEPT !.cells = t.cells \ {ListOf(t)[i] : i \in DOMAIN ListOf(t)}]

\* Every node's height is that of its subtree, and no two siblings differ by more than one.
AvlBalanced(t) ==
  \A n \in t.cells :
    LET h0 == _avl_node_height(t, t.kid[n][Left])
        h1 == _avl_node_height(t, t.kid[n][Right])
    IN t.height[n] = Taller(t, n) /\ h0 - h1 \in -1 .. 1
=============================================================================
