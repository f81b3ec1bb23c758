------------------------------ MODULE JsonText -------------------------------
(***************************************************************************)
(* src/json.c: the parser, as it goes through a text token by token; the   *)
(* tree it builds; the loop over a tree that json_to_string,               *)
(* json_to_string_ex and destroy_json share.  A token is a bracket, a      *)
(* sign, a scalar by its name or a string; white space, digits and wording *)
(* are left out.  A string is a sequence of characters: "bs" is the        *)
(* backslash, "nl" one of the characters that are written as a backslash   *)
(* and a letter, which is "n".  Every string of a text has its end.        *)
(***************************************************************************)
EXTENDS Integers, Sequences, FiniteSets, SequencesExt

CONSTANTS
  Scalars,      \* of "null", "true", "false", "integer", "float"
  Strings,      \* strings as they stand in a text, between the quotes
  MaxTokens     \* bound: the length of a text

VARIABLES
  text,         \* history: the tokens read so far
  structs,      \* the json_structs: [type, nodes, stack]; the first is json_struct_root
  current,      \* current_json_struct; its stack is the way back to the structs around it
  key,          \* key_ptr and key_length
  mode          \* where string_to_json, _step_value or _step_key_value is

jsonVars == <<text, structs, current, key, mode>>

\* Tokens.
Sign(kind) == [kind |-> kind, chars |-> <<>>]
Quoted(s) == [kind |-> "string", chars |-> s]
Signs == {"[", "]", "{", "}", ",", ":"} \cup Scalars
Tokens == {Sign(k) : k \in Signs} \cup {Quoted(s) : s \in Strings}

JsonInit == text = <<>> /\ structs = <<>> /\ current = 0 /\ key = <<>> /\ mode = "start"

-----------------------------------------------------------------------------
\* _escape_to.
EscapeTo(s) == FlattenSeq([i \in 1 .. Len(s) |->
  IF s[i] = "bs" THEN <<"bs", "bs">> ELSE IF s[i] = "nl" THEN <<"bs", "n">> ELSE <<s[i]>>])

\* _escape_from: a backslash in front of anything else stays.
RECURSIVE EscapeFrom(_)
EscapeFrom(s) ==
  IF s = <<>> THEN <<>>
  ELSE IF Len(s) > 1 /\ s[1] = "bs" /\ s[2] \in {"bs", "n"}
       THEN <<IF s[2] = "n" THEN "nl" ELSE "bs">> \o EscapeFrom(SubSeq(s, 3, Len(s)))
       ELSE <<s[1]>> \o EscapeFrom(Tail(s))

\* _json_create_object and _json_create_array, pushed on the structs around them.
NewStruct(type) == [type |-> type, nodes |-> <<>>, stack |-> current]

\* _json_struct_add_node.
WithNode(node) == [structs EXCEPT ![current].nodes = Append(@, node)]

\* The key of a node: json_add_float copies it as it stands, the others take out its backslashes;
\* the nodes of an array have none.
KeyFor(type) ==
  IF structs[current].type = "array" THEN <<>>
  ELSE IF type = "float" THEN key ELSE EscapeFrom(key)

Node(type, chars, child) == [type |-> type, key |-> KeyFor(type), chars |-> chars, child |-> child]

-----------------------------------------------------------------------------
Read(token) == mode \notin {"done", "error"} /\ Len(text) < MaxTokens /\ text' = Append(text, token)

\* What follows a comma: _step_key_value or _step_value.
AfterComma == IF structs[current].type = "object" THEN "key" ELSE "value"

\* A value may begin here.
ValueMode == mode \in {"value", "member"}

\* '[' and '{' in string_to_json: json_add_struct, but for the root.
ReadOpen(type) ==
  /\ Read(Sign(IF type = "array" THEN "[" ELSE "{"))
  /\ mode = "start" \/ ValueMode
  /\ LET with == IF mode = "start" THEN structs ELSE WithNode(Node(type, <<>>, Len(structs) + 1))
     IN structs' = Append(with, NewStruct(type))
  /\ current' = Len(structs) + 1
  /\ mode' = IF type = "array" THEN "value" ELSE "first key"
  /\ UNCHANGED key

\* ']' and '}' in string_to_json, where _step_value and _step_key_value let them through: an array may
\* end after a comma, an object after the colon of a key that has no value.
ReadClose(type) ==
  /\ Read(Sign(IF type = "array" THEN "]" ELSE "}"))
  /\ mode \in {"after"} \cup (IF type = "array" THEN {"value"} ELSE {"first key", "member"})
  /\ structs[current].type = type
  /\ current' = structs[current].stack
  /\ mode' = IF structs[current].stack = 0 THEN "end" ELSE "after"
  /\ UNCHANGED <<structs, key>>

\* ',' after a value.
ReadComma ==
  /\ Read(Sign(",")) /\ mode = "after"
  /\ mode' = AfterComma
  /\ UNCHANGED <<structs, current, key>>

\* The key of _step_key_value.
ReadKey(s) ==
  /\ Read(Quoted(s)) /\ mode \in {"first key", "key"}
  /\ key' = s /\ mode' = "colon"
  /\ UNCHANGED <<structs, current>>

ReadColon ==
  /\ Read(Sign(":")) /\ mode = "colon"
  /\ mode' = "member"
  /\ UNCHANGED <<structs, current, key>>

\* Mutant: a string is kept with its backslashes.
ReadString_AsItStands(s) ==
  /\ Read(Quoted(s)) /\ ValueMode
  /\ structs' = WithNode(Node("string", s, 0))
  /\ mode' = "after"
  /\ UNCHANGED <<current, key>>

\* json_add_string.
ReadString(s) ==
  /\ Read(Quoted(s)) /\ ValueMode
  /\ structs' = WithNode(Node("string", EscapeFrom(s), 0))
  /\ mode' = "after"
  /\ UNCHANGED <<current, key>>

\* _step_number with json_add_integer and json_add_float.
ReadNumber(type) ==
  /\ type \in Scalars /\ Read(Sign(type)) /\ ValueMode
  /\ structs' = WithNode(Node(type, <<>>, 0))
  /\ mode' = "after"
  /\ UNCHANGED <<current, key>>

\* json_add_true, json_add_false, json_add_null.
ReadWord(type) ==
  /\ type \in Scalars /\ Read(Sign(type)) /\ ValueMode
  /\ structs' = WithNode(Node(type, <<>>, 0))
  /\ mode' = "after"
  /\ UNCHANGED <<current, key>>

\* The end of the text after the root.
ReadEnd ==
  /\ mode = "end"
  /\ mode' = "done"
  /\ UNCHANGED <<text, structs, current, key>>

\* Any other token: _json_log_error and destroy_json(json_struct_root).
Expected ==
  LET inArray == current # 0 /\ structs[current].type = "array"
      values == {"[", "{", "string"} \cup Scalars
  IN CASE mode = "start" -> {"[", "{"}
       [] mode = "value" -> values \cup {"]"}
       [] mode = "member" -> values \cup {"}"}
       [] mode = "first key" -> {"string", "}"}
       [] mode = "key" -> {"string"}
       [] mode = "colon" -> {":"}
       [] mode = "after" -> {",", IF inArray THEN "]" ELSE "}"}
       [] OTHER -> {}
ReadWrong ==
  /\ \E token \in Tokens : token.kind \notin Expected /\ Read(token)
  /\ mode' = "error"
  /\ UNCHANGED <<structs, current, key>>

JsonNext ==
  \/ \E type \in {"array", "object"} : ReadOpen(type) \/ ReadClose(type)
  \/ ReadComma \/ ReadColon \/ ReadEnd \/ ReadWrong
  \/ \E s \in Strings : ReadKey(s) \/ ReadString(s)
  \/ \E type \in {"integer", "float"} : ReadNumber(type)
  \/ \E type \in {"true", "false", "null"} : ReadWord(type)

JsonSpec == JsonInit /\ [][JsonNext]_jsonVars

-----------------------------------------------------------------------------
\* The loop over a tree: `at' is node_ptr, `stack' node_stack_head; what it does, in order.  A
\* struct without nodes is left at once.
RECURSIVE Visit(_, _), Leave(_)
Visit(at, stack) ==
  IF at.i > Len(structs[at.s].nodes) THEN Leave(stack)
  ELSE LET node == structs[at.s].nodes[at.i]
           next == [at EXCEPT !.i = @ + 1]
       IN IF node.type \in {"array", "object"}
          THEN <<[do |-> "open", of |-> at]>> \o Visit([s |-> node.child, i |-> 1], <<at>> \o stack)
          ELSE <<[do |-> "scalar", of |-> at]>>
                 \o IF next.i > Len(structs[at.s].nodes) THEN Leave(stack)
                    ELSE <<[do |-> "comma", of |-> at]>> \o Visit(next, stack)
Leave(stack) ==
  IF stack = <<>> THEN <<>>
  ELSE LET at == Head(stack)
           next == [at EXCEPT !.i = @ + 1]
       IN <<[do |-> "close", of |-> at]>>
            \o IF next.i > Len(structs[at.s].nodes) THEN Leave(Tail(stack))
               ELSE <<[do |-> "comma", of |-> at]>> \o Visit(next, Tail(stack))

Walk == IF structs = <<>> THEN <<>> ELSE Visit([s |-> 1, i |-> 1], <<>>)

NodeOf(at) == structs[at.s].nodes[at.i]
Bracket(type, opens) == IF type = "array" THEN (IF opens THEN "[" ELSE "]") ELSE (IF opens THEN "{" ELSE "}")
InQuotes(s) == Quoted(EscapeTo(s))

\* json_to_string_ex: the pieces it appends, each with what json_to_string asks to be left in its
\* buffer: twice the length of a string, and its quotes.
StringNeed(s, signs) == 2 * Len(s) + signs
BytesOf(token) ==
  CASE token.kind = "string" -> Len(token.chars) + 2
    [] token.kind \in {"null", "true"} -> 4
    [] token.kind = "false" -> 5
    [] token.kind = "integer" -> 1
    [] token.kind = "float" -> 8
    [] OTHER -> 1
Piece(token, need) == [token |-> token, need |-> need]
Plain(kind) == Piece(Sign(kind), BytesOf(Sign(kind)))

KeyPieces(at) ==
  IF structs[at.s].type = "array" THEN <<>>
  ELSE <<Piece(InQuotes(NodeOf(at).key), StringNeed(NodeOf(at).key, 3)), Piece(Sign(":"), 0)>>
PiecesOf(event) ==
  LET node == NodeOf(event.of)
  IN CASE event.do = "comma" -> <<Plain(",")>>
       [] event.do = "close" -> <<Plain(Bracket(node.type, FALSE))>>
       [] event.do = "open" -> KeyPieces(event.of) \o <<Plain(Bracket(node.type, TRUE))>>
       [] node.type = "string" ->
            KeyPieces(event.of) \o <<Piece(InQuotes(node.chars), StringNeed(node.chars, 2))>>
       [] OTHER -> KeyPieces(event.of) \o <<Plain(node.type)>>

\* The first bracket needs one byte only.
Pieces ==
  <<Piece(Sign(Bracket(structs[1].type, TRUE)), 0)>>
    \o FlattenSeq([i \in 1 .. Len(Walk) |-> PiecesOf(Walk[i])])
    \o <<Plain(Bracket(structs[1].type, FALSE))>>

Written == [i \in 1 .. Len(Pieces) |-> Pieces[i].token]

\* json_to_string into a buffer of `size' bytes: 0 where a piece might not fit, the length of the
\* text else; the zero at the end is written if two bytes are left.
WriteTo(size) ==
  LET left == FoldLeft(LAMBDA l, p : IF l > p.need THEN l - BytesOf(p.token) ELSE -1, size, Pieces)
  IN [length |-> IF left < 0 THEN 0 ELSE size - left, terminated |-> left > 1]

-----------------------------------------------------------------------------
\* A text without what the parser lets pass: a comma at the end of an array, a key without a value.
RECURSIVE Canon(_)
Canon(t) ==
  LET is(i, kind) == i =< Len(t) /\ t[i].kind = kind
  IN IF t = <<>> THEN <<>>
     ELSE IF is(1, ",") /\ is(2, "]") THEN Canon(Tail(t))
     ELSE IF is(2, ":") /\ is(3, "}") THEN Canon(SubSeq(t, 3, Len(t)))
     ELSE IF is(1, ",") /\ is(3, ":") /\ is(4, "}") THEN Canon(SubSeq(t, 4, Len(t)))
     ELSE <<IF is(1, "string") THEN InQuotes(EscapeFrom(t[1].chars)) ELSE t[1]>> \o Canon(Tail(t))

\* json_add_float leaves the backslashes in a key, and json_to_string doubles them.
RawKey == \E s \in 1 .. Len(structs) : \E i \in 1 .. Len(structs[s].nodes) :
  structs[s].nodes[i].type = "float" /\ Contains(structs[s].nodes[i].key, "bs")

\* What the parser accepts is in the tree, and written again it is the same text (json.c:364-846, 1349-2055).
TextKept == mode = "done" /\ ~RawKey => Written = Canon(text)

\* The grammar of JSON, read from the top: the place after the value at i, Open if the text ends
\* before the value does, Wrong if it is none.
Open == 0
Wrong == -1
Kind(t, i) == IF i =< Len(t) THEN t[i].kind ELSE "end"
RECURSIVE AfterValue(_, _), AfterItems(_, _, _)
AfterItems(t, i, close) ==
  LET colon == i + 1
      item == IF close = "]" THEN AfterValue(t, i)
              ELSE IF Kind(t, i) \notin {"string", "end"} \/ Kind(t, colon) \notin {":", "end"} THEN Wrong
              ELSE IF colon > Len(t) THEN Open ELSE AfterValue(t, colon + 1)
  IN IF item \in {Open, Wrong} THEN item
     ELSE IF Kind(t, item) = "end" THEN Open
     ELSE IF Kind(t, item) = close THEN item + 1
     ELSE IF Kind(t, item) = "," THEN AfterItems(t, item + 1, close)
     ELSE Wrong
AfterValue(t, i) ==
  LET kind == Kind(t, i)
      close == IF kind = "[" THEN "]" ELSE "}"
  IN IF kind = "end" THEN Open
     ELSE IF kind \in Scalars \cup {"string"} THEN i + 1
     ELSE IF kind \notin {"[", "{"} THEN Wrong
     ELSE IF Kind(t, i + 1) = close THEN i + 2 ELSE AfterItems(t, i + 1, close)

\* No text of JSON is refused, and nothing follows the root (json.c:1349-2055).
JsonAccepted ==
  LET after == AfterValue(text, 1)
  IN /\ mode = "error" => after = Wrong \/ (after # Open /\ after =< Len(text)) \/ Kind(text, 1) \notin {"[", "{"}
     /\ mode = "done" => after \in {Wrong, Len(text) + 1}

\* The nodes and structs destroy_json frees: a scalar at its visit, a struct with its node when it is left.
Freed == SelectSeq(Walk, LAMBDA e : e.do \in {"scalar", "close"})

\* destroy_json frees every node and every struct once, also in the middle of a text, and a struct
\* after what is in it (json.c:864-1017).
FreedOnce ==
  /\ Len(Freed) = FoldSeq(LAMBDA s, n : n + Len(s.nodes), 0, structs)
  /\ \A i, j \in 1 .. Len(Freed) : Freed[i] = Freed[j] => i = j
  /\ \A i, j \in 1 .. Len(Freed) : NodeOf(Freed[i].of).child = Freed[j].of.s => j < i

\* json_to_string stays in its buffer and gives the whole text or 0; it gives the text if every string
\* may double, and ends it with a zero but in a buffer that has room for just that
\* (json.c:364-662).
BufferKept ==
  mode = "done" =>
    LET full == FoldSeq(LAMBDA p, n : n + BytesOf(p.token), 0, Pieces)
        worst == FoldSeq(LAMBDA p, n : n + p.need + 1, 2, Pieces)
    IN \A size \in 0 .. worst :
         LET w == WriteTo(size)
         IN /\ w.length = 0 \/ (w.length = full /\ full < size)
            /\ size = worst => w.length = full
            /\ w.length # 0 => w.terminated = (size # full + 1)

JsonSafe == TextKept /\ JsonAccepted /\ FreedOnce /\ BufferKept
=============================================================================
