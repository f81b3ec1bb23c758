------------------------------ MODULE TreeHelp ------------------------------
(***************************************************************************)
(* src/tree_help.c: red-black trees whose keys are string objects the tree *)
(* owns, and trees of integer segments built from a tree of integers.      *)
(*                                                                         *)
(* A string object is <<k, c>>, copy c of string k.  `live' are the string *)
(* objects allocated and not freed.  An operation on a string tree maps    *)
(* [tree, live] to a new pair.                                             *)
(***************************************************************************)
EXTENDS RbTree, SequencesExt

\* The new string object replaces that of an equal key, which is freed.
str_bkdr_tree_insert(s, k, it) ==
  LET present == Find(s.tree, s.tree.root, k) = k
      added == s.live \cup {<<k, it.key>>}
  IN IF present
     THEN [tree |-> [s.tree EXCEPT !.item[k] = it],
           live |-> added \ {<<k, s.tree.item[k].key>>}]
     ELSE [tree |-> rb_tree_try_insert_user(s.tree, k, it), live |-> added]

\* Mutant: the key object of the new string is kept nowhere.
str_bkdr_tree_try_insert_Leaks(s, k, it) ==
  [tree |-> rb_tree_try_insert_user(s.tree, k, it), live |-> s.live \cup {<<k, it.key>>}]

str_bkdr_tree_try_insert(s, k, it) ==
  [tree |-> rb_tree_try_insert_user(s.tree, k, it),
   live |-> IF Find(s.tree, s.tree.root, k) = k THEN s.live ELSE s.live \cup {<<k, it.key>>}]

str_bkdr_tree_find(s, k) ==
  LET n == rb_tree_find_user(s.tree, k) IN IF n = Nil THEN 0 ELSE s.tree.item[n].value

str_bkdr_tree_erase(s, k) ==
  LET n == rb_tree_find_user(s.tree, k)
  IN IF n = Nil THEN s
     ELSE [tree |-> rb_tree_erase(s.tree, n), live |-> s.live \ {<<k, s.tree.item[n].key>>}]

\* The string objects of all nodes, then the nodes.
destroy_str_bkdr_tree(s) ==
  LET walk == ListOf(s.tree)
  IN [tree |-> rb_tree_clear(s.tree),
      live |-> s.live \ {<<walk[i], s.tree.item[walk[i]].key>> : i \in DOMAIN walk}]

\* Wide strings: the same, without an erase.
wstr_rb_tree_insert(s, k, it) == str_bkdr_tree_insert(s, k, it)
wstr_rb_tree_try_insert(s, k, it) == str_bkdr_tree_try_insert(s, k, it)
wstr_rb_tree_find(s, k) == rb_tree_find_user(s.tree, k)
destroy_wstr_rb_tree(s) == destroy_str_bkdr_tree(s)

\* Mutant: the keys in a gap are forgotten.
AddToSegments_NoGap(segments, key, value, interval) ==
  LET last == Last(segments)
  IN IF segments # <<>> /\ key - last.key_end <= interval
     THEN Append(Front(segments), [last EXCEPT !.key_end = key, !.values = Append(@, value)])
     ELSE Append(segments, [key_begin |-> key, key_end |-> key, values |-> <<value>>])

\* The keys of the tree in order, gathered into segments: a key at most `interval' above the
\* end of the last segment extends it, and the keys in between get a null value.
AddToSegments(segments, key, value, interval) ==
  LET last == Last(segments)
  IN IF segments # <<>> /\ key - last.key_end <= interval
     THEN Append(Front(segments),
                 [last EXCEPT !.key_end = key,
                              !.values = @ \o [i \in 1 .. key - last.key_end |->
                                                 IF i = key - last.key_end THEN value ELSE 0]])
     ELSE Append(segments, [key_begin |-> key, key_end |-> key, values |-> <<value>>])

create_int_seg_tree(t, interval) ==
  FoldLeft(LAMBDA segments, n : AddToSegments(segments, n, t.item[n].value, interval),
           <<>>, ListOf(t))

\* Two segments that overlap compare equal.
integer_key_segment_cmp(a, b) ==
  IF a.key_end < b.key_begin THEN -1 ELSE IF a.key_begin > b.key_end THEN 1 ELSE 0

int_seg_tree_find(segments, idx) ==
  LET wanted == [key_begin |-> idx, key_end |-> idx]
      hit == {i \in DOMAIN segments : integer_key_segment_cmp(segments[i], wanted) = 0}
  IN IF hit = {} THEN 0
     ELSE LET s == segments[CHOOSE i \in hit : TRUE] IN s.values[idx - s.key_begin + 1]
=============================================================================
