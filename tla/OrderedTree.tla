---------------------------- MODULE OrderedTree -----------------------------
(***************************************************************************)
(* What src/rb_tree.c and src/avl_tree.c have in common: nodes with two    *)
(* children and a parent, which also form a list in key order (head, tail, *)
(* next, prev).  A tree is a record of these fields.  Keys of a tree are   *)
(* distinct, so a node is named by its key; `cells' are the nodes obtained *)
(* from the node allocator and not given back, item[n] is the key pointer  *)
(* and the value node n holds.                                             *)
(***************************************************************************)
EXTENDS Integers, Sequences, FiniteSets, TLC

CONSTANT Keys    \* a set of positive integers; only their order matters

Nil == 0
NoItem == [key |-> 0, value |-> 0]

EmptyTree ==
  [ root |-> Nil, head |-> Nil, tail |-> Nil, size |-> 0, cells |-> {},
    kid |-> [n \in Keys |-> <<Nil, Nil>>],      \* left and right
    parent |-> [n \in Keys |-> Nil],
    next |-> [n \in Keys |-> Nil], prev |-> [n \in Keys |-> Nil],
    item |-> [n \in Keys |-> NoItem] ]

Left == 1
Right == 2
Opposite(s) == 3 - s

SetParent(t, n, p) == IF n = Nil THEN t ELSE [t EXCEPT !.parent[n] = p]

\* Whatever pointed down to `old' points to `new'.
Replace(t, p, old, new) ==
  IF p = Nil THEN [t EXCEPT !.root = new]
  ELSE [t EXCEPT !.kid[p][IF t.kid[p][Left] = old THEN Left ELSE Right] = new]

\* The node of a key, and the node below which a missing key belongs.
RECURSIVE Find(_, _, _)
Find(t, n, k) ==
  IF n = Nil \/ n = k THEN n ELSE Find(t, t.kid[n][IF k < n THEN Left ELSE Right], k)

RECURSIVE LastOnPath(_, _, _, _)
LastOnPath(t, n, p, k) ==
  IF n = Nil THEN p ELSE LastOnPath(t, t.kid[n][IF k < n THEN Left ELSE Right], n, k)

RECURSIVE Leftmost(_, _)
Leftmost(t, n) == IF t.kid[n][Left] = Nil THEN n ELSE Leftmost(t, t.kid[n][Left])

\* A new node is put below p, and into the list beside p.
LinkNode(t, k, p) ==
  LET left == k < p
      prev == IF p = Nil THEN Nil ELSE IF left THEN t.prev[p] ELSE p
      next == IF p = Nil THEN Nil ELSE IF left THEN p ELSE t.next[p]
      t1 == [t EXCEPT !.parent[k] = p, !.kid[k] = <<Nil, Nil>>,
                      !.prev[k] = prev, !.next[k] = next, !.size = @ + 1]
      t2 == IF p = Nil THEN [t1 EXCEPT !.root = k]
            ELSE [t1 EXCEPT !.kid[p][IF left THEN Left ELSE Right] = k]
      t3 == IF prev = Nil THEN [t2 EXCEPT !.head = k] ELSE [t2 EXCEPT !.next[prev] = k]
  IN IF next = Nil THEN [t3 EXCEPT !.tail = k] ELSE [t3 EXCEPT !.prev[next] = k]

UnlinkNode(t, n) ==
  LET t1 == IF t.prev[n] = Nil THEN [t EXCEPT !.head = t.next[n]]
            ELSE [t EXCEPT !.next[t.prev[n]] = t.next[n]]
      t2 == IF t.next[n] = Nil THEN [t1 EXCEPT !.tail = t.prev[n]]
            ELSE [t1 EXCEPT !.prev[t.next[n]] = t.prev[n]]
  IN [t2 EXCEPT !.size = @ - 1]

Allocate(t, k, it) == [t EXCEPT !.cells = @ \cup {k}, !.item[k] = it]

\* The memory of a node goes back; what it held no longer matters.
Release(t, n) ==
  [t EXCEPT !.cells = @ \ {n}, !.item[n] = NoItem, !.parent[n] = Nil,
            !.kid[n] = <<Nil, Nil>>, !.next[n] = Nil, !.prev[n] = Nil]

\* The nodes met from n along the list, at most as many as there are keys.
RECURSIVE ListFrom(_, _, _)
ListFrom(t, n, bound) ==
  IF n = Nil \/ bound = 0 THEN <<>> ELSE <<n>> \o ListFrom(t, t.next[n], bound - 1)

ListOf(t) == ListFrom(t, t.head, Cardinality(Keys) + 1)

RECURSIVE InOrder(_, _)
InOrder(t, n) ==
  IF n = Nil THEN <<>>
  ELSE InOrder(t, t.kid[n][Left]) \o <<n>> \o InOrder(t, t.kid[n][Right])

\* What a tree must be besides balanced: the list is the tree read from left to right, in
\* ascending order, forwards and backwards; parents match children; no node is lost.
WellLinked(t) ==
  LET walk == ListOf(t)
  IN /\ walk = InOrder(t, t.root)
     /\ \A i \in 1 .. Len(walk) - 1 : walk[i] < walk[i + 1] /\ t.prev[walk[i + 1]] = walk[i]
     /\ t.size = Len(walk)
     /\ t.cells = {walk[i] : i \in DOMAIN walk}
     /\ IF walk = <<>> THEN t.tail = Nil
        ELSE t.tail = walk[Len(walk)] /\ t.prev[t.head] = Nil /\ t.parent[t.root] = Nil
     /\ \A n \in t.cells : \A s \in {Left, Right} :
          t.kid[n][s] # Nil => t.parent[t.kid[n][s]] = n

\* The dictionary a tree stands for.
Contents(t) == [n \in t.cells |-> t.item[n]]
=============================================================================
