------------------------------- MODULE RbTree -------------------------------
(***************************************************************************)
(* src/rb_tree.c.  The two mirrored halves of the balancing loops are one  *)
(* operator here with the side as a parameter.                             *)
(***************************************************************************)
EXTENDS OrderedTree

EmptyRb == EmptyTree @@ [red |-> [n \in Keys |-> FALSE]]

IsRed(t, n) == n # Nil /\ t.red[n]

\* node->rb_right (or rb_left) comes up, node goes down to side s.
_rb_rotate(t, node, s) ==
  LET up == t.kid[node][Opposite(s)]
      inner == t.kid[up][s]
      parent == t.parent[node]
      t1 == SetParent([t EXCEPT !.kid[node][Opposite(s)] = inner], inner, node)
      t2 == Replace([t1 EXCEPT !.kid[up][s] = node, !.parent[up] = parent], parent, node, up)
  IN [t2 EXCEPT !.parent[node] = up]

_rb_link_node(t, k, p) == [LinkNode(t, k, p) EXCEPT !.red[k] = TRUE]

RECURSIVE _rb_insert_balance(_, _)
_rb_insert_balance(t, node) ==
  LET parent == t.parent[node]
  IN IF ~IsRed(t, parent) THEN [t EXCEPT !.red[t.root] = FALSE]
     ELSE LET gparent == t.parent[parent]
              s == IF t.kid[gparent][Left] = parent THEN Left ELSE Right
              uncle == t.kid[gparent][Opposite(s)]
          IN IF IsRed(t, uncle)
             THEN _rb_insert_balance(
                    [t EXCEPT !.red[uncle] = FALSE, !.red[parent] = FALSE, !.red[gparent] = TRUE],
                    gparent)
             ELSE LET bent == t.kid[parent][Opposite(s)] = node
                      t1 == IF bent THEN _rb_rotate(t, parent, s) ELSE t
                      upper == IF bent THEN node ELSE parent
                      lower == IF bent THEN parent ELSE node
                  IN _rb_insert_balance(
                       _rb_rotate([t1 EXCEPT !.red[upper] = FALSE, !.red[gparent] = TRUE],
                                  gparent, Opposite(s)),
                       lower)

\* Mutant: the colour of the far child is forgotten.
_rb_erase_balance_FarStaysRed(t, node, parent) ==
  IF IsRed(t, node) \/ node = t.root
  THEN IF node = Nil THEN t ELSE [t EXCEPT !.red[node] = FALSE]
  ELSE LET s == IF t.kid[parent][Left] = node THEN Left ELSE Right
           other == t.kid[parent][Opposite(s)]
           t1 == _rb_rotate([t EXCEPT !.red[other] = t.red[parent], !.red[parent] = FALSE], parent, s)
       IN [t1 EXCEPT !.red[t1.root] = FALSE]

\* node, possibly Nil, has one black too few above it; parent is its parent.
RECURSIVE _rb_erase_balance(_, _, _)
_rb_erase_balance(t, node, parent) ==
  IF IsRed(t, node) \/ node = t.root
  THEN IF node = Nil THEN t ELSE [t EXCEPT !.red[node] = FALSE]
  ELSE LET s == IF t.kid[parent][Left] = node THEN Left ELSE Right
           o == Opposite(s)
           redOther == IsRed(t, t.kid[parent][o])
           t1 == IF redOther
                 THEN _rb_rotate([t EXCEPT !.red[t.kid[parent][o]] = FALSE, !.red[parent] = TRUE],
                                 parent, s)
                 ELSE t
           other == t1.kid[parent][o]
       IN IF ~IsRed(t1, t1.kid[other][Left]) /\ ~IsRed(t1, t1.kid[other][Right])
          THEN _rb_erase_balance([t1 EXCEPT !.red[other] = TRUE], parent, t1.parent[parent])
          ELSE LET bent == ~IsRed(t1, t1.kid[other][o])
                   t2 == IF bent
                         THEN _rb_rotate([t1 EXCEPT !.red[t1.kid[other][s]] = FALSE,
                                                    !.red[other] = TRUE], other, o)
                         ELSE t1
                   far == t2.kid[parent][o]
                   t3 == _rb_rotate([t2 EXCEPT !.red[far] = t2.red[parent],
                                               !.red[parent] = FALSE,
                                               !.red[t2.kid[far][o]] = FALSE], parent, s)
               IN [t3 EXCEPT !.red[t3.root] = FALSE]

\* node has two children: its successor takes its place and its colour.
ReplaceBySuccessor(t, old) ==
  LET node == Leftmost(t, t.kid[old][Right])
      child == t.kid[node][Right]
      below == t.parent[node]
      t1 == Replace(t, t.parent[old], old, node)
      t2 == IF below = old THEN t1
            ELSE [SetParent(t1, child, below) EXCEPT
                    !.kid[below][Left] = child,
                    !.kid[node][Right] = t.kid[old][Right],
                    !.parent[t.kid[old][Right]] = node]
      t3 == [t2 EXCEPT !.parent[node] = t.parent[old], !.red[node] = t.red[old],
                       !.kid[node][Left] = t.kid[old][Left], !.parent[t.kid[old][Left]] = node]
  IN [tree |-> t3, child |-> child, parent |-> IF below = old THEN node ELSE below,
      red |-> t.red[node]]

SpliceOut(t, node) ==
  LET child == IF t.kid[node][Left] = Nil THEN t.kid[node][Right] ELSE t.kid[node][Left]
      parent == t.parent[node]
  IN [tree |-> Replace(SetParent(t, child, parent), parent, node, child),
      child |-> child, parent |-> parent, red |-> t.red[node]]

rb_tree_erase(t, node) ==
  IF node = Nil THEN t
  ELSE LET cut == IF t.kid[node][Left] # Nil /\ t.kid[node][Right] # Nil
                  THEN ReplaceBySuccessor(t, node) ELSE SpliceOut(t, node)
           balanced == IF cut.red THEN cut.tree
                       ELSE _rb_erase_balance(cut.tree, cut.child, cut.parent)
       IN [Release(UnlinkNode(balanced, node), node) EXCEPT !.red[node] = FALSE]

rb_tree_find_integer(t, k) == Find(t, t.root, k)
rb_tree_find_user(t, k) == Find(t, t.root, k)

RbAdd(t, k, it) ==
  _rb_insert_balance(_rb_link_node(Allocate(t, k, it), k, LastOnPath(t, t.root, Nil, k)), k)

\* A present key gets the new value, and, compared by a function, the new key pointer too.
rb_tree_insert_integer(t, k, it) ==
  IF rb_tree_find_integer(t, k) = k THEN [t EXCEPT !.item[k].value = it.value] ELSE RbAdd(t, k, it)

rb_tree_insert_user(t, k, it) ==
  IF rb_tree_find_user(t, k) = k THEN [t EXCEPT !.item[k] = it] ELSE RbAdd(t, k, it)

\* The calls that leave a present key alone.
rb_tree_try_insert_integer(t, k, it) ==
  IF rb_tree_find_integer(t, k) = k THEN t ELSE RbAdd(t, k, it)

rb_tree_try_insert_user(t, k, it) ==
  IF rb_tree_find_user(t, k) = k THEN t ELSE RbAdd(t, k, it)

\* Every node on the list is given back.  The code reads the next of a node it has freed already: the
\* list is taken as it was, as long as nobody is given the node in between.
rb_tree_clear(t) ==
  [EmptyRb EXCEPT !.cells = t.cells \ {ListOf(t)[i] : i \in DOMAIN ListOf(t)}]

\* Every path down from n meets the same number of black nodes; -1 when they differ.
RECURSIVE BlackHeight(_, _)
BlackHeight(t, n) ==
  IF n = Nil THEN 0
  ELSE LET l == BlackHeight(t, t.kid[n][Left])
           r == BlackHeight(t, t.kid[n][Right])
       IN IF l = -1 \/ l # r THEN -1 ELSE l + IF t.red[n] THEN 0 ELSE 1

RbBalanced(t) ==
  /\ ~IsRed(t, t.root)
  /\ BlackHeight(t, t.root) # -1
  /\ \A n \in t.cells : t.red[n] => ~IsRed(t, t.kid[n][Left]) /\ ~IsRed(t, t.kid[n][Right])
=============================================================================
