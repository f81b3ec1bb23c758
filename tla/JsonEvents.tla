------------------------------ MODULE JsonEvents ------------------------------
(***************************************************************************)
(* A class that src/tools/protocol_maker prints, read from a document of   *)
(* JSON: rapidjson (external) gives one call after the other to JsonDeCode *)
(* of src/include/net_data.hpp, which passes each to the handler that is   *)
(* open: of a struct, of an array, or the hole for what is not known.      *)
(* What was read is then written by ToJson and read again.  A document is  *)
(* a tree, a key or a name a sequence of characters, a value a number.     *)
(* The object is fresh, and integral arrays are given numbers.             *)
(***************************************************************************)
EXTENDS Integers, Sequences, FiniteSets, SequencesExt

CONSTANTS
  Root,        \* the items of the class: [name, kind, size, refer, default, of]
  Documents    \* [kind, number, key, of]: of is what is in an object or an array

VARIABLES
  doc,         \* history: the document
  calls,       \* what rapidjson has still to call
  open,        \* the handlers from the root's to m_handler, with the data of each
  data,        \* the object, once it is read; <<>> before
  complete,    \* IsAllMemberSet, once it is read
  refused,     \* a handler returned false or nullptr
  first        \* history: the object after the first reading, and whether it was complete; <<>> before

eventVars == <<doc, calls, open, data, complete, refused, first>>

ItemSafe(items, i) ==
  /\ items[i].kind \in {"number", "string", "struct", "array", "numbers", "fixed"}
  /\ items[i].refer # 0 => items[i].kind = "fixed" /\ items[items[i].refer].kind = "number"
EventAssumption == Root # <<>> /\ \A i \in DOMAIN Root : ItemSafe(Root, i)

RECURSIVE Fresh(_)
Fresh(items) == [i \in DOMAIN items |->
  CASE items[i].kind \in {"number", "string"} -> 0
    [] items[i].kind = "struct" -> Fresh(items[i].of)
    [] items[i].kind = "fixed" -> [k \in 1 .. items[i].size |-> 0]
    [] OTHER -> <<>>]

\* Handler: m_state (one more than the items for none), m_assigned_bitset, and the handlers of members;
\* of an array its m_handler and m_element_count, of a fixed array m_cur_count.
RECURSIVE Handler(_)
Handler(items) ==
  [state |-> 1, bits |-> {},
   of |-> [i \in DOMAIN items |->
     CASE items[i].kind = "struct" -> Handler(items[i].of)
       [] items[i].kind = "array" -> [state |-> 0, bits |-> {}, of |-> <<Handler(items[i].of)>>]
       [] OTHER -> [state |-> 0, bits |-> {}, of |-> <<>>]]]

\* ResetState: a fixed array of numbers has none.
RECURSIVE ResetState(_, _)
ResetState(items, h) ==
  [state |-> 1, bits |-> {},
   of |-> [i \in DOMAIN items |->
     CASE items[i].kind = "struct" -> ResetState(items[i].of, h.of[i])
       [] items[i].kind = "array" -> [h.of[i] EXCEPT !.state = 0]
       [] OTHER -> h.of[i]]]

\* IsAllMemberSet.
Required(items) == {i \in DOMAIN items : ~items[i].default}
RECURSIVE IsAllMemberSet(_, _, _)
IsAllMemberSet(items, h, v) ==
  /\ Required(items) \subseteq h.bits
  /\ \A i \in Required(items) \cup h.bits :
       /\ items[i].kind = "struct" => IsAllMemberSet(items[i].of, h.of[i], v[i])
       /\ items[i].kind = "array" => h.of[i].state = Len(v[i])

-----------------------------------------------------------------------------
\* What rapidjson calls for a tree.
Call(name, tree) == [call |-> name, number |-> tree.number, key |-> tree.key]
RECURSIVE CallsOf(_)
CallsOf(tree) ==
  LET inner(name) == FlattenSeq([i \in 1 .. Len(tree.of) |->
        (IF name = "Object" THEN <<Call("Key", tree.of[i])>> ELSE <<>>) \o CallsOf(tree.of[i])])
      around(name) == <<Call("Start" \o name, tree)>> \o inner(name) \o <<Call("End" \o name, tree)>>
  IN CASE tree.kind = "object" -> around("Object")
       [] tree.kind = "array" -> around("Array")
       [] tree.kind = "number" -> <<Call("RawNumber", tree)>>
       [] tree.kind = "string" -> <<Call("String", tree)>>
       [] tree.kind = "word" -> <<Call("Word", tree)>>

\* ToJson, as the tree that is read again.
Tree(kind, number, key, of) == [kind |-> kind, number |-> number, key |-> key, of |-> of]
Smaller(a, b) == IF a < b THEN a ELSE b
Count(items, v, i) == IF items[i].refer = 0 THEN items[i].size ELSE Smaller(items[i].size, v[items[i].refer])
RECURSIVE ToJson(_, _, _)
ItemToJson(items, v, i) ==
  LET key == items[i].name
      numbers(n) == [k \in 1 .. n |-> Tree("number", v[i][k], <<>>, <<>>)]
  IN CASE items[i].kind \in {"number", "string"} -> Tree(items[i].kind, v[i], key, <<>>)
       [] items[i].kind = "struct" -> ToJson(items[i].of, v[i], key)
       [] items[i].kind = "array" -> Tree("array", 0, key, [k \in 1 .. Len(v[i]) |-> ToJson(items[i].of, v[i][k], <<>>)])
       [] items[i].kind = "numbers" -> Tree("array", 0, key, numbers(Len(v[i])))
       [] items[i].kind = "fixed" -> Tree("array", 0, key, numbers(Count(items, v, i)))
ToJson(items, v, key) == Tree("object", 0, key, [i \in DOMAIN items |-> ItemToJson(items, v, i)])

-----------------------------------------------------------------------------
EventInit ==
  /\ doc \in Documents
  /\ calls = CallsOf(doc) /\ open = <<>> /\ data = <<>> /\ complete = FALSE /\ refused = FALSE /\ first = <<>>

\* An open handler with its data; `m_ref_count' is the hole's.
Frame(kind, items, v, h) == [kind |-> kind, items |-> items, v |-> v, h |-> h, m_ref_count |-> 0]
Hole == Frame("hole", <<>>, <<>>, Handler(<<>>))
Top == Last(open)
Depth == Len(open)
On(names, kind) ==
  /\ calls # <<>> /\ ~refused /\ Head(calls).call \in names
  /\ open # <<>> /\ Top.kind = kind
  /\ calls' = Tail(calls)
  /\ UNCHANGED <<doc, first>>
Goes(frames) == open' = frames /\ UNCHANGED <<data, complete, refused>>
Refuse == refused' = TRUE /\ UNCHANGED <<open, data, complete>>
With(frame) == Goes([open EXCEPT ![Depth] = frame])
Push(frame) == Goes(Append(open, frame))

\* The item a struct's handler is at.
State == Top.h.state
KindAt == IF State > Len(Top.items) THEN "none" ELSE Top.items[State].kind
Has(kinds) == \E i \in DOMAIN Top.items : Top.items[i].kind \in kinds

\* JsonDeCode::StartObject and StartArray without a handler: the root's.
StartRoot ==
  /\ calls # <<>> /\ open = <<>>
  /\ calls' = Tail(calls)
  /\ Goes(<<Frame("struct", Root, Fresh(Root), Handler(Root))>>)
  /\ UNCHANGED <<doc, first>>

\* Handler::Key: the item it is at if that one's name begins with the key, else the first one of which
\* that is so.
Key ==
  /\ On({"Key"}, "struct")
  /\ LET items == Top.items
         matches(i) == IsPrefix(Head(calls).key, items[i].name)
         from == IF State > Len(items) THEN 1 ELSE State
         some == SelectInSeq(items, LAMBDA item : IsPrefix(Head(calls).key, item.name))
     IN With([Top EXCEPT !.h.state = IF matches(from) THEN from ELSE IF some = 0 THEN Len(items) + 1 ELSE some])

\* The item at m_state gets a value, and the next one is expected.
SetScalar(frame) ==
  [frame EXCEPT !.v[State] = Head(calls).number, !.h.bits = @ \cup {State}, !.h.state = @ + 1]

\* Handler::RawNumber, and Handler::String, which looks for the next key from the start.
RawNumber ==
  /\ On({"RawNumber"}, "struct")
  /\ With(IF KindAt = "number" THEN SetScalar(Top) ELSE Top)
String ==
  /\ On({"String"}, "struct")
  /\ With(IF KindAt = "string" THEN SetScalar(Top)
          ELSE IF Has({"string"}) THEN [Top EXCEPT !.h.state = 1] ELSE Top)

\* JsonHandler::Null and Bool; numbers and strings where an array of structs has its elements.
WordRefused == /\ \/ On({"Word"}, "struct") \/ On({"Word"}, "numbers") \/ On({"Word"}, "fixed")
                  \/ On({"Word", "RawNumber", "String", "StartArray"}, "array")
                  \/ On({"StartObject", "StartArray"}, "numbers") \/ On({"StartObject", "StartArray"}, "fixed")
               /\ Refuse

\* Handler::StartObject and StartArray: the handler of the member, with its bit but for fixed arrays, or
\* the hole.
Assigned == [Top EXCEPT !.h.bits = IF KindAt = "fixed" THEN @ ELSE @ \cup {State}]
Enter(kinds) ==
  IF KindAt \in kinds
  THEN Goes([open EXCEPT ![Depth] = Assigned]
            \o <<Frame(KindAt, Top.items[State].of, Top.v[State], Top.h.of[State])>>)
  ELSE Push(Hole)
StartObject == On({"StartObject"}, "struct") /\ Enter({"struct"})
StartArray == On({"StartArray"}, "struct") /\ Enter({"array", "numbers", "fixed"})

\* DataArrayHandler::StartObject, where m_t is made as new.
StartElement ==
  /\ On({"StartObject"}, "array")
  /\ Push(Frame("struct", Top.items, Fresh(Top.items), ResetState(Top.items, Top.h.of[1])))

\* DataArrayHandler::RawNumber of integers, and of a fixed array, which ignores what it has no room for.
ArrayNumber ==
  /\ On({"RawNumber"}, "numbers")
  /\ With([Top EXCEPT !.v = Append(@, Head(calls).number)])
FixedNumber ==
  /\ On({"RawNumber"}, "fixed")
  /\ With(IF Top.h.state >= Len(Top.v) THEN Top
          ELSE [Top EXCEPT !.v[Top.h.state + 1] = Head(calls).number, !.h.state = @ + 1])

\* HoleJsonHandler: what is in it; objects and arrays in it are counted, and it is its own parent.
HoleTakes == On({"Key", "RawNumber", "String", "Word"}, "hole") /\ Goes(open)
HoleStarts ==
  /\ On({"StartObject", "StartArray"}, "hole")
  /\ With([Top EXCEPT !.m_ref_count = @ + 1])

\* Where the hole ends, the struct around it looks for the next key from the start, unless it has no
\* member that begins as the hole did.
AfterHole(frame, isObject) ==
  LET has == \E i \in DOMAIN frame.items :
               frame.items[i].kind \in (IF isObject THEN {"struct"} ELSE {"array", "numbers", "fixed"})
  IN IF has THEN [frame EXCEPT !.h.state = 1] ELSE frame

\* Mutant: the first end inside the hole is taken for its own.
HoleEnds_AtOnce ==
  /\ On({"EndObject", "EndArray"}, "hole")
  /\ Goes([Front(open) EXCEPT ![Depth - 1] = AfterHole(@, Head(calls).call = "EndObject")])

HoleEnds ==
  /\ On({"EndObject", "EndArray"}, "hole")
  /\ IF Top.m_ref_count > 0 THEN With([Top EXCEPT !.m_ref_count = @ - 1])
     ELSE Goes([Front(open) EXCEPT ![Depth - 1] = AfterHole(@, Head(calls).call = "EndObject")])

\* Handler::EndObject and EndArray for a member, DataArrayHandler::EndObject for an element.
Back(parent, child) ==
  LET i == parent.h.state
      all == IF IsAllMemberSet(child.items, child.h, child.v) THEN 1 ELSE 0
  IN IF parent.kind = "array"
     THEN [parent EXCEPT !.v = Append(@, child.v), !.h.of[1] = child.h, !.h.state = @ + all]
     ELSE [parent EXCEPT !.v[i] = child.v, !.h.of[i] = child.h, !.h.state = @ + 1]
End ==
  /\ \/ On({"EndObject", "EndArray"}, "struct") \/ On({"EndArray"}, "array")
     \/ On({"EndArray"}, "numbers") \/ On({"EndArray"}, "fixed")
  /\ Depth > 1
  /\ Goes([Front(open) EXCEPT ![Depth - 1] = Back(@, Top)])

\* The end of the root, and IsAllMemberSet in UnmarshalJson.
EndRoot ==
  /\ On({"EndObject", "EndArray"}, "struct") /\ Depth = 1
  /\ open' = <<>> /\ data' = Top.v
  /\ complete' = IsAllMemberSet(Root, Top.h, Top.v)
  /\ UNCHANGED refused

\* MarshalJson, and UnmarshalJson of what it wrote into a fresh object.
Again ==
  /\ calls = <<>> /\ data # <<>> /\ first = <<>>
  /\ first' = <<data, complete>>
  /\ doc' = ToJson(Root, data, <<>>) /\ calls' = CallsOf(doc')
  /\ data' = <<>> /\ complete' = FALSE
  /\ UNCHANGED <<open, refused>>

EventNext ==
  \/ StartRoot \/ Key \/ RawNumber \/ String \/ WordRefused \/ StartObject \/ StartArray \/ StartElement
  \/ ArrayNumber \/ FixedNumber \/ HoleTakes \/ HoleStarts \/ HoleEnds \/ End \/ EndRoot \/ Again

EventSpec == EventInit /\ [][EventNext]_eventVars
-----------------------------------------------------------------------------
\* The members of a struct, read one by one: those that are given for the item i with a value of its kind.
KindOf(item) ==
  CASE item.kind = "struct" -> "object"
    [] item.kind \in {"array", "numbers", "fixed"} -> "array"
    [] OTHER -> item.kind
Given(items, members, i) ==
  SelectSeq(members, LAMBDA m : m.key = items[i].name /\ m.kind = KindOf(items[i]))
Inside(trees) == FlattenSeq([k \in 1 .. Len(trees) |-> trees[k].of])
Numbers(trees) == [k \in 1 .. Len(trees) |-> trees[k].number]

\* What a document says: the last value of a member, the elements of all its arrays.
RECURSIVE Reading(_, _)
Reading(items, members) == [i \in DOMAIN items |->
  LET given == Given(items, members, i)
      inside == Inside(given)
  IN CASE items[i].kind \in {"number", "string"} -> IF given = <<>> THEN 0 ELSE Last(given).number
       [] items[i].kind = "struct" -> Reading(items[i].of, inside)
       [] items[i].kind = "array" -> [k \in 1 .. Len(inside) |-> Reading(items[i].of, inside[k].of)]
       [] items[i].kind = "numbers" -> Numbers(inside)
       [] items[i].kind = "fixed" ->
            [k \in 1 .. items[i].size |-> IF k =< Len(inside) THEN inside[k].number ELSE 0]]

\* A member that is not optional is missing somewhere; a fixed array always is.
RECURSIVE Missing(_, _)
Missing(items, members) == \E i \in DOMAIN items :
  LET given == Given(items, members, i)
      inside == Inside(given)
  IN \/ ~items[i].default /\ (given = <<>> \/ items[i].kind = "fixed")
     \/ given # <<>> /\ items[i].kind = "struct" /\ Missing(items[i].of, inside)
     \/ items[i].kind = "array" /\ \E k \in 1 .. Len(inside) : Missing(items[i].of, inside[k].of)

\* A null, true or false stands for a member of a struct that is known, or an array has an element of
\* another kind.
RECURSIVE Strange(_, _)
Strange(items, members) ==
  \/ \E m \in 1 .. Len(members) : members[m].kind = "word"
  \/ \E i \in DOMAIN items :
       LET inside == Inside(Given(items, members, i))
       IN \/ items[i].kind = "struct" /\ Strange(items[i].of, inside)
          \/ items[i].kind = "array" /\ \E k \in 1 .. Len(inside) :
               inside[k].kind # "object" \/ Strange(items[i].of, inside[k].of)
          \/ items[i].kind \in {"numbers", "fixed"} /\ \E k \in 1 .. Len(inside) : inside[k].kind # "number"

\* A key is the beginning of a longer name: the handler takes it for that member.
RECURSIVE Ambiguous(_, _)
Ambiguous(items, members) ==
  \/ \E m \in 1 .. Len(members), i \in DOMAIN items : IsStrictPrefix(members[m].key, items[i].name)
  \/ \E i \in DOMAIN items :
       LET inside == Inside(Given(items, members, i))
       IN \/ items[i].kind = "struct" /\ Ambiguous(items[i].of, inside)
          \/ items[i].kind = "array" /\ \E k \in 1 .. Len(inside) : Ambiguous(items[i].of, inside[k].of)

\* The members of the root.  An array stands for its members in their order.
Ordered == Len(doc.of) =< Len(Root) /\ \A i \in 1 .. Len(doc.of) : doc.of[i].kind = KindOf(Root[i])
Members ==
  IF doc.kind = "object" THEN doc.of ELSE [i \in 1 .. Len(doc.of) |-> [doc.of[i] EXCEPT !.key = Root[i].name]]
Clear == (doc.kind = "array" => Ordered) /\ ~Ambiguous(Root, Members)

\* An object without what its count hides of a fixed array, and without the fixed arrays of all elements
\* but the first of an array, whose numbers the handler ignores.
RECURSIVE Shown(_, _, _)
Shown(items, v, whole) == [i \in DOMAIN items |->
  CASE items[i].kind = "struct" -> Shown(items[i].of, v[i], whole)
    [] items[i].kind = "array" -> [k \in 1 .. Len(v[i]) |-> Shown(items[i].of, v[i][k], whole /\ k = 1)]
    [] items[i].kind = "fixed" -> IF whole THEN SubSeq(v[i], 1, Count(items, v, i)) ELSE <<>>
    [] OTHER -> v[i]]

Read == calls = <<>> /\ data # <<>>

\* An object is read as its document says, whatever the order of its members and whatever is in it that
\* the class does not know, and it is complete if nothing is missing (net_data.hpp:1582-2115,
\* protocolmaker.cpp:483-1163).
DocumentRead ==
  Read /\ Clear =>
    /\ Shown(Root, data, TRUE) = Shown(Root, Reading(Root, Members), TRUE)
    /\ complete = ~Missing(Root, Members)

\* A document is refused for what is strange in it and for nothing else (net_data.hpp:1582-2115).
RefusedForReason ==
  (refused \/ Read) /\ Clear => refused = Strange(Root, Members)

\* What ToJson writes is read again as the same object (protocolmaker.cpp:2178-2318).
SameAgain ==
  first # <<>> => ~refused /\ (Read => Shown(Root, data, TRUE) = Shown(Root, first[1], TRUE))

EventsSafe == DocumentRead /\ RefusedForReason /\ SameAgain
=============================================================================
