------------------------------- MODULE NetWire -------------------------------
(***************************************************************************)
(* Messages of the protocol classes that src/tools/protocol_maker prints,  *)
(* on their way through NetEnCode and NetDeCode of src/include/net_data.hpp.*)
(* The bytes arrive in pieces; the receiver calls HandleProtocol on what it*)
(* holds and, where that refuses, again when more has come.  A byte is a   *)
(* number below Wide, and every integral, length and size has one byte.    *)
(***************************************************************************)
EXTENDS Integers, Sequences, FiniteSets, SequencesExt

CONSTANTS
  Wide,          \* values of an integral type
  Module,        \* module_id of this protocol file
  Protocols,     \* of each protocol_id + 1, its items: [kind, size, refer, of]
  Messages,      \* messages to send: [id, value]
  Junk,          \* what a peer of another version sends: sequences of bytes
  ReserveSize,   \* of NetEnCode
  MaxMessages    \* bound: messages sent

VARIABLES
  enc,           \* NetEnCode: what it holds, and m_end - m_buffer
  wire,          \* bytes sent that have not arrived
  dec,           \* NetDeCode: the bytes the receiver holds, m_cur_pos, and whether HandleProtocol refused them
  kept,          \* an object of each protocol, to which the receiver assigns the messages it gets
  sent, handled, \* history: what was sent and what OnRecv got
  last           \* history: what each object should equal

wireVars == <<enc, wire, dec, kept, sent, handled, last>>

Signed(b) == IF b >= Wide \div 2 THEN b - Wide ELSE b

-----------------------------------------------------------------------------
\* What __WriteItem accepts: an item refers to an integral before it that is no array, and only an
\* array with a count refers to one; a string has a length below that of the types.
WrittenItem(items, i) ==
  LET item == items[i]
  IN /\ item.kind \in {"integral", "string", "array", "fixed"}
     /\ item.refer # 0 => item.kind = "fixed" /\ item.refer < i /\ items[item.refer].kind = "integral"
     /\ item.kind = "string" => item.size \in 1 .. Wide - 1
RECURSIVE WrittenData(_)
WrittenData(items) ==
  \A i \in 1 .. Len(items) : WrittenItem(items, i) /\ (items[i].kind = "array" => WrittenData(items[i].of))

WireAssumption ==
  /\ \A p \in 1 .. Len(Protocols) : WrittenData(Protocols[p])
  /\ \A m \in Messages : m.id < Len(Protocols)
  /\ ReserveSize \in Nat \ {0, 1}

\* The elements of an array with a count that are there.
Count(items, v, i) ==
  IF items[i].refer = 0 THEN items[i].size
  ELSE LET n == Signed(v[items[i].refer][1]) IN IF items[i].size < n THEN items[i].size ELSE n

\* EnCode, EnCodeEx: one piece for each call of NetEnCode.
RECURSIVE EnCode(_, _)
EnCodeItem(items, v, i) ==
  CASE items[i].kind = "integral" -> <<v[i]>>
    [] items[i].kind = "fixed" -> <<SubSeq(v[i], 1, Count(items, v, i))>>
    [] items[i].kind = "string" -> <<<<Len(v[i])>>, v[i]>>
    [] items[i].kind = "array" ->
         <<<<Len(v[i])>>>> \o FlattenSeq([k \in 1 .. Len(v[i]) |-> EnCode(items[i].of, v[i][k])])
EnCode(items, v) == FlattenSeq([i \in 1 .. Len(items) |-> EnCodeItem(items, v, i)])

\* NetEnCode::__extend, which goes on by half until `more' bytes have room.
RECURSIVE Extend(_, _, _)
Extend(size, pos, more) ==
  LET larger == size + size \div 2 IN IF larger - pos >= more THEN larger ELSE Extend(larger, pos, more)

\* AddIntegral, AddBlob and the rest of AddString.
Add(e, piece) ==
  [data |-> e.data \o piece,
   size |-> IF Len(e.data) + Len(piece) > e.size THEN Extend(e.size, Len(e.data), Len(piece)) ELSE e.size]

\* NetDeCode: DelIntegral, DelBlob, DelString, DelArray, each on what was read before: [ok, pos, value].
Refused(r) == [r EXCEPT !.ok = FALSE]
DelBlob(bytes, r, n) ==
  IF r.pos + n > Len(bytes) THEN Refused(r)
  ELSE [ok |-> TRUE, pos |-> r.pos + n, value |-> Append(r.value, SubSeq(bytes, r.pos + 1, r.pos + n))]

DelString(bytes, r, size) ==
  LET len == bytes[r.pos + 1]
  IN IF r.pos + 1 > Len(bytes) THEN Refused(r)
     ELSE IF r.pos + 1 + len > Len(bytes) \/ len + 1 > size THEN Refused(r)
     ELSE DelBlob(bytes, [r EXCEPT !.pos = @ + 1], len)

RECURSIVE DeCode(_, _, _)
DelArray(bytes, r, of) ==
  IF r.pos + 1 > Len(bytes) THEN Refused(r)
  ELSE LET elements == FoldLeft(LAMBDA a, k :
                 IF ~a.ok THEN a
                 ELSE LET e == DeCode(of, bytes, a.pos)
                      IN [ok |-> e.ok, pos |-> e.pos, value |-> Append(a.value, e.value)],
               [ok |-> TRUE, pos |-> r.pos + 1, value |-> <<>>],
               [k \in 1 .. bytes[r.pos + 1] |-> k])
       IN [elements EXCEPT !.value = Append(r.value, elements.value)]

\* DeCode, DeCodeEx: item after item until one is refused.
DeCodeItem(items, bytes, r, i) ==
  CASE items[i].kind = "integral" -> DelBlob(bytes, r, 1)
    [] items[i].kind = "string" -> DelString(bytes, r, items[i].size)
    [] items[i].kind = "array" -> DelArray(bytes, r, items[i].of)
    [] items[i].kind = "fixed" ->
         LET n == Count(items, r.value, i)
             got == DelBlob(bytes, r, n)
             zeros == [k \in 1 .. items[i].size - n |-> 0]
         IN IF n < 0 THEN Refused(r)
            ELSE IF got.ok THEN [got EXCEPT !.value = Append(r.value, Last(got.value) \o zeros)] ELSE got
DeCode(items, bytes, pos) ==
  FoldLeft(LAMBDA r, i : IF r.ok THEN DeCodeItem(items, bytes, r, i) ELSE r,
           [ok |-> TRUE, pos |-> pos, value |-> <<>>], [i \in 1 .. Len(items) |-> i])

\* operator=: the elements of an array with a count that are not there keep what they had.
CopyItem(items, to, from, i) ==
  IF items[i].kind # "fixed" THEN from[i]
  ELSE LET n == Count(items, from, i) IN [k \in 1 .. items[i].size |-> IF k =< n THEN from[i][k] ELSE to[i][k]]
Copy(items, to, from) == [i \in 1 .. Len(items) |-> CopyItem(items, to, from, i)]

\* operator==.
EqualItem(items, v, w, i) ==
  IF items[i].kind # "fixed" THEN v[i] = w[i]
  ELSE LET n == Count(items, v, i) IN n = Count(items, w, i) /\ SubSeq(v[i], 1, n) = SubSeq(w[i], 1, n)
Equal(items, v, w) == \A i \in 1 .. Len(items) : EqualItem(items, v, w, i)

\* A fresh object, and Reset: the integral an array refers to is reset before it, so that
\* nothing of the array is.
Fresh(items) ==
  [i \in 1 .. Len(items) |-> CASE items[i].kind = "integral" -> <<0>>
                               [] items[i].kind = "fixed" -> [k \in 1 .. items[i].size |-> 0]
                               [] OTHER -> <<>>]
Reset(items, v) ==
  [i \in 1 .. Len(items) |-> IF items[i].refer # 0 THEN v[i] ELSE Fresh(items)[i]]

-----------------------------------------------------------------------------
WireInit ==
  /\ enc = [data |-> <<>>, size |-> ReserveSize]
  /\ wire = <<>> /\ dec = [bytes |-> <<>>, pos |-> 0, refused |-> TRUE]
  /\ kept = [p \in 1 .. Len(Protocols) |-> Fresh(Protocols[p])]
  /\ sent = <<>> /\ handled = <<>>
  /\ last = kept

\* BuildProtocol.
BuildProtocol(m) ==
  /\ Len(sent) < MaxMessages
  /\ sent' = Append(sent, m)
  /\ enc' = FoldLeft(Add, enc, <<<<Module>>, <<m.id>>>> \o EnCode(Protocols[m.id + 1], m.value))
  /\ UNCHANGED <<wire, dec, kept, handled, last>>

\* The sender gives Data() and Length() to its session, and calls Clear.
Send ==
  /\ enc.data # <<>>
  /\ wire' = wire \o enc.data /\ enc' = [enc EXCEPT !.data = <<>>]
  /\ UNCHANGED <<dec, kept, sent, handled, last>>

\* A message of another module, of a protocol this version has not, or one that is malformed.
SendJunk(j) ==
  /\ Len(sent) < MaxMessages /\ enc.data = <<>>
  /\ sent' = Append(sent, [id |-> -1, value |-> <<>>])
  /\ wire' = wire \o j
  /\ UNCHANGED <<enc, dec, kept, handled, last>>

\* Some bytes arrive; the receiver makes a NetDeCode on those it has not handled.
Arrive(n) ==
  /\ n \in 1 .. Len(wire)
  /\ dec' = [bytes |-> SubSeq(dec.bytes, dec.pos + 1, Len(dec.bytes)) \o SubSeq(wire, 1, n),
             pos |-> 0, refused |-> FALSE]
  /\ wire' = SubSeq(wire, n + 1, Len(wire))
  /\ UNCHANGED <<enc, kept, sent, handled, last>>

\* The message before m_cur_pos: its two ids, and its items.
Header == DelBlob(dec.bytes, [ok |-> TRUE, pos |-> dec.pos, value |-> <<>>], 2)
Id == Header.value[1][2]
Ours == Header.ok /\ Header.value[1][1] = Module
Known == Ours /\ Id < Len(Protocols)
Read == DeCode(Protocols[Id + 1], dec.bytes, dec.pos + 2)

\* HandleProtocol, which gives the message to OnRecv; the receiver assigns it to its object.
HandleProtocol ==
  /\ ~dec.refused /\ Known /\ Read.ok
  /\ dec' = [dec EXCEPT !.pos = Read.pos, !.refused = Read.pos = Len(dec.bytes)]
  /\ handled' = Append(handled, [id |-> Id, value |-> Read.value])
  /\ LET p == Id + 1
     IN /\ kept' = [kept EXCEPT ![p] = Copy(Protocols[p], @, Read.value)]
        /\ last' = [last EXCEPT ![p] = Read.value]
  /\ UNCHANGED <<enc, wire, sent>>

\* Mutant: net_data.Reset is forgotten where the rest of a message is missing.
HandleRefuses_KeepsHeader ==
  /\ ~dec.refused /\ ~(Known /\ Read.ok)
  /\ dec' = [dec EXCEPT !.refused = TRUE, !.pos = IF Ours THEN @ + 2 ELSE @]
  /\ UNCHANGED <<enc, wire, kept, sent, handled, last>>

\* HandleProtocol returns false: it goes back to the start of the message, but for a protocol_id it
\* does not know.
HandleRefuses ==
  /\ ~dec.refused /\ ~(Known /\ Read.ok)
  /\ dec' = [dec EXCEPT !.refused = TRUE, !.pos = IF Ours /\ ~Known THEN @ + 2 ELSE @]
  /\ UNCHANGED <<enc, wire, kept, sent, handled, last>>

\* The receiver resets an object.
ResetKept(p) ==
  /\ last[p] # Fresh(Protocols[p])
  /\ kept' = [kept EXCEPT ![p] = Reset(Protocols[p], @)]
  /\ last' = [last EXCEPT ![p] = Fresh(Protocols[p])]
  /\ UNCHANGED <<enc, wire, dec, sent, handled>>

WireNext ==
  \/ \E m \in Messages : BuildProtocol(m)
  \/ \E j \in Junk : SendJunk(j)
  \/ \E n \in 1 .. Len(wire) : Arrive(n)
  \/ Send \/ HandleProtocol \/ HandleRefuses
  \/ \E p \in 1 .. Len(Protocols) : ResetKept(p)

WireSpec == WireInit /\ [][WireNext]_wireVars

-----------------------------------------------------------------------------
BytesOf(m) == <<Module, m.id>> \o FlattenSeq(EnCode(Protocols[m.id + 1], m.value))

\* The messages before the first that is not of this version.
Ordinary == SelectInSeq(sent, LAMBDA m : m.id = -1)
Understood == IF Ordinary = 0 THEN Len(sent) ELSE Ordinary - 1
Smaller(a, b) == IF a < b THEN a ELSE b

\* The receiver gets the messages that were sent, in their order, wherever the stream was cut
\* (net_data.hpp:940-1229, protocolmaker.cpp:2320-2672, 2742-2830).
HandledAsSent ==
  /\ \A i \in 1 .. Smaller(Len(handled), Understood) :
       handled[i].id = sent[i].id /\ Equal(Protocols[sent[i].id + 1], handled[i].value, sent[i].value)
  /\ Understood = Len(sent) => Len(handled) =< Len(sent)

\* Nothing that has arrived as a whole is left lying (protocolmaker.cpp:2788-2830).
NothingLeftLying ==
  dec.refused /\ Len(handled) < Understood =>
    LET left == SubSeq(dec.bytes, dec.pos + 1, Len(dec.bytes))
        next == BytesOf(sent[Len(handled) + 1])
    IN Len(left) < Len(next) /\ IsPrefix(left, next)

\* Whatever a peer sends, what is handled fits its object: a string with its zero, no negative count
\* (net_data.hpp:1158-1176, protocolmaker.cpp:2448-2461).
HandledFits ==
  \A i \in 1 .. Len(handled) :
    LET items == Protocols[handled[i].id + 1]
    IN \A k \in 1 .. Len(items) :
         /\ items[k].kind = "string" => Len(handled[i].value[k]) < items[k].size
         /\ items[k].kind = "fixed" => Count(items, handled[i].value, k) >= 0

\* An object the receiver assigned a message to is sent on as that message, and equals it, whatever it
\* held before; so is one that was reset (protocolmaker.cpp:1875-2176).
CopiesEqual ==
  \A p \in 1 .. Len(Protocols) :
    /\ EnCode(Protocols[p], kept[p]) = EnCode(Protocols[p], last[p])
    /\ Equal(Protocols[p], kept[p], last[p])

EncoderHasRoom == Len(enc.data) =< enc.size

WireSafe == HandledAsSent /\ NothingLeftLying /\ HandledFits /\ CopiesEqual /\ EncoderHasRoom
=============================================================================
