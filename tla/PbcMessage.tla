----------------------------- MODULE PbcMessage -----------------------------
(***************************************************************************)
(* Messages of pbc on their way from one program to the other: built field *)
(* by field in a growing buffer (pbc/src/wmessage.c), read back into an    *)
(* index (rmessage.c) or as a series of callbacks (decode.c), by a reader  *)
(* whose schema may lack some of the fields.                               *)
(*                                                                         *)
(* A number is its 64 bits, a real its bit pattern, a string its bytes.    *)
(***************************************************************************)
EXTENDS PbcWire, SequencesExt, FiniteSetsExt

CONSTANTS
  Schema,     \* message type -> field name -> [id, type, label, default, of]
  Known,      \* message type -> names of the fields the reader knows
  Root,       \* the type of the message sent
  Inputs,     \* field type -> the lists of values a field of it is given
  WMESSAGE_SIZE,
  MaxFields,  \* bound: fields given in all
  MaxSubs     \* bound: sub-messages

VARIABLES
  msgs,   \* the pbc_wmessages: the root and its sub-messages, by handle
  given,  \* history: for each of them, field name -> values given
  wire    \* the finished buffer, <<>> before

msgVars == <<msgs, given, wire>>

Numbers32 == {"uint32", "enum", "bool"}
Varint64  == {"int64", "uint64", "int32"}
Fixed64   == {"double", "fixed64", "sfixed64"}
Fixed32   == {"float", "fixed32", "sfixed32"}

----------------------------------------------------------------------------
(***************************************************************************)
(* wmessage.c                                                              *)
(***************************************************************************)
\* _wmessage_new.  fits says that no write has left the buffer yet.
NewWMessage(type) ==
  [type |-> type, buf |-> <<>>, cap |-> WMESSAGE_SIZE, sub |-> <<>>,
   packed |-> [k \in {} |-> <<>>], fits |-> TRUE]

\* _expand_message: room for sz more bytes, the capacity doubled until it does.
Expand(m, sz) ==
  LET need == Len(m.buf) + sz
      caps == {m.cap * 2^k : k \in 1 .. 8}
  IN  IF need <= m.cap THEN m ELSE [m EXCEPT !.cap = Min({c \in caps : c >= need})]

Write(m, bytes) ==
  [m EXCEPT !.buf = @ \o bytes, !.fits = @ /\ Len(m.buf) + Len(bytes) <= m.cap]

Tag(id, wt) == Encode({b + 3 : b \in Bits(id)} \cup wt)

\* The wire type and the bytes of one number or real.
WireType(type) ==
  CASE type \in Fixed64 -> WT_BIT64
    [] type \in Fixed32 -> WT_BIT32
    [] type \in {"string", "bytes", "message"} -> WT_LEND
    [] OTHER -> WT_VARINT

Body(type, v) ==
  CASE type \in Varint64  -> Encode(v)
    [] type \in Numbers32 -> Encode(Low(v))
    [] type \in Fixed64   -> FixedBytes(v, 8)
    [] type \in Fixed32   -> FixedBytes(Low(v), 4)
    [] type = "sint32"    -> Encode(ZigZag(Low(v), 32))
    [] type = "sint64"    -> Encode(ZigZag(v, 64))

\* Mutant of IsDefault: the low half of every number is compared.
IsDefaultLow(f, v) == Low(v) = Low(f.default)

\* Of an enum only the low half is compared with the default.
IsDefault(f, v) == (IF f.type = "enum" THEN Low(v) ELSE v) = f.default

\* _packed_integer, _packed_real: the values wait for the end.
Pack(m, key, vals) ==
  LET waiting == IF key \in DOMAIN m.packed THEN m.packed[key] ELSE <<>>
  IN  [m EXCEPT !.packed = [k \in DOMAIN m.packed \cup {key} |->
                              IF k = key THEN waiting \o vals ELSE m.packed[k]]]

\* pbc_wmessage_integer and pbc_wmessage_real.
WMessageNumber(m, key, v) ==
  LET f == Schema[m.type][key]
      wide == IF f.type \in {"float", "double"} THEN 18 ELSE 20
  IN  IF f.label = "optional" /\ IsDefault(f, v) THEN m
      ELSE Write(Write(Expand(m, wide), Tag(f.id, WireType(f.type))), Body(f.type, v))

\* pbc_wmessage_string for strings and bytes; empty bytes are the default.
WMessageString(m, key, v) ==
  LET f == Schema[m.type][key]
      none == IF f.type = "bytes" THEN <<>> ELSE f.default
      head == Write(Expand(m, 20), Tag(f.id, WT_LEND) \o Encode(Bits(Len(v))))
  IN  IF f.label = "optional" /\ v = none THEN m
      ELSE Write(Expand(head, Len(v)), v)

WMessageValue(m, key, v) ==
  IF Schema[m.type][key].type \in {"string", "bytes"}
  THEN WMessageString(m, key, v) ELSE WMessageNumber(m, key, v)

\* All values of a field, one call for each.
WMessageValues(m, key, vals) ==
  IF Schema[m.type][key].label = "packed" THEN Pack(m, key, vals)
  ELSE FoldLeft(LAMBDA acc, v : WMessageValue(acc, key, v), m, vals)

\* Every element of a packed 64-bit field in eight bytes.
PackPacked64(m, type, vals) ==
  LET head == Write(Expand(m, 10 + 8 * Len(vals)), Encode(Bits(8 * Len(vals))))
  IN  Write(head, FlattenSeq([i \in DOMAIN vals |-> Body(type, vals[i])]))

\* Of a packed 32-bit field: element i is put at byte 8 * i of an area of
\* 4 * n bytes; the gaps keep what the heap held, zero here, and what lies
\* behind the area is overwritten by what follows.
PackPacked32(m, type, vals) ==
  LET n    == Len(vals)
      head == Write(Expand(m, 10 + 4 * n), Encode(Bits(4 * n)))
      area == [j \in 1 .. 4 * n |->
                 IF (j - 1) % 8 < 4
                 THEN Body(type, vals[((j - 1) \div 8) + 1])[((j - 1) % 8) + 1] ELSE {}]
  IN  [Write(head, area) EXCEPT !.fits = @ /\ Len(head.buf) + 8 * n - 4 <= head.cap]

\* Of a packed varint field: the length is guessed first, and put right
\* afterwards, with the body moved if the right one has another size.  There
\* is room for ten bytes before each element is written.
PackPackedVarint(m, type, vals) ==
  LET n       == Len(vals)
      guess   == IF type = "bool" THEN n ELSE 2 * n
      head    == Encode(Bits(guess))
      bytes   == [i \in 1 .. n |-> IF type = "int32" THEN Encode(Low(vals[i]))
                                   ELSE Body(type, vals[i])]
      body    == FlattenSeq(bytes)
      start   == Write(Expand(m, 10 + guess), head)
      all     == Write(Expand(start, Len(body) - Len(bytes[n]) + 10), body)
      right   == Encode(Bits(Len(body)))
      roomy   == IF Len(right) # Len(head) THEN Expand(all, Len(right)) ELSE all
  IN  IF Len(body) = guess THEN all
      ELSE Write([roomy EXCEPT !.buf = m.buf], right \o body)

PackPacked(m, key) ==
  LET f    == Schema[m.type][key]
      vals == m.packed[key]
      head == Write(Expand(m, 10), Tag(f.id, WT_LEND))
  IN  CASE f.type \in Fixed64 -> PackPacked64(head, f.type, vals)
        [] f.type \in Fixed32 -> PackPacked32(head, f.type, vals)
        [] OTHER -> PackPackedVarint(head, f.type, vals)

\* pbc_wmessage_buffer: the packed fields in the order of the table, then the
\* sub-messages, finished first; a sub-message has a greater handle.
WMessageBuffer(order) ==
  LET finish[h \in 1 .. Len(msgs) + 1] ==
        IF h > Len(msgs) THEN <<>>
        ELSE
          LET later == finish[h + 1]  \* of the handles h + 1 .. Len(msgs)
              packed == FoldLeft(PackPacked, msgs[h], order[h])
              AddSub(m, s) ==
                LET inner == later[s.handle - h].buf
                IN  Write(Expand(m, 20 + Len(inner)),
                          Tag(s.id, WT_LEND) \o Encode(Bits(Len(inner))) \o inner)
          IN  <<FoldLeft(AddSub, packed, msgs[h].sub)>> \o later
  IN  finish[1]

----------------------------------------------------------------------------
(***************************************************************************)
(* rmessage.c and decode.c                                                 *)
(***************************************************************************)
FieldOf(type, id) ==
  LET hits == {k \in Known[type] : Schema[type][k].id = id}
  IN  IF hits = {} THEN "unknown" ELSE CHOOSE k \in hits : TRUE

\* A value out of an atom (read_value, push_value_array, call_type).
AtomValue(type, a, buf) ==
  CASE type = "sint32" -> DeZigZag32(a.value)
    [] type = "sint64" -> DeZigZag64(a.value)
    [] type = "enum" -> Low(a.value)
    [] type \in {"string", "bytes", "message"} -> SubSeq(buf, a.start, a.end)
    [] OTHER -> a.value

\* The values of a packed field (_pbcP_unpack_packed, call_array).
PackedValues(type, a, buf) ==
  CASE type \in Fixed64 -> PackedFixed(buf, a.start, a.end, 8)
    [] type \in Fixed32 -> PackedFixed(buf, a.start, a.end, 4)
    [] OTHER -> LET vs == PackedVarints(buf, a.start, a.end) IN
                [i \in DOMAIN vs |-> AtomValue(type, [a EXCEPT !.value = vs[i]], buf)]

\* _pbc_rmessage_new: field name -> values, in the order of the buffer.
RMessage(type, buf) ==
  LET atoms == Open(buf)
      Of(i) == FieldOf(type, atoms[i].id)
      Add(idx, i) ==
        LET f    == Schema[type][Of(i)]
            vals == IF f.label = "packed" THEN PackedValues(f.type, atoms[i], buf)
                    ELSE <<AtomValue(f.type, atoms[i], buf)>>
        IN  IF Of(i) = "unknown" THEN idx ELSE [idx EXCEPT ![Of(i)] = @ \o vals]
  IN  FoldLeft(Add, [k \in Known[type] |-> <<>>], [i \in DOMAIN atoms |-> i])

\* pbc_decode: the callbacks, with the field's name, or its number if unknown.
CallUnknown(a, buf) ==
  [key |-> "unknown", id |-> a.id,
   value |-> IF a.wire = WT_LEND THEN SubSeq(buf, a.start, a.end) ELSE a.value]

CallType(key, f, a, buf) ==
  <<[key |-> key, id |-> f.id,
     value |-> IF f.type \in {"int32", "uint32", "bool"} \cup Fixed32
               THEN Low(a.value) ELSE AtomValue(f.type, a, buf)]>>

CallArray(key, f, a, buf) ==
  LET vals == PackedValues(f.type, a, buf)
  IN  [i \in DOMAIN vals |-> [key |-> key, id |-> f.id, value |-> vals[i]]]

PbcDecode(type, buf) ==
  LET atoms == Open(buf)
      Calls(a) ==
        LET k == FieldOf(type, a.id) IN
        IF k = "unknown" THEN <<CallUnknown(a, buf)>>
        ELSE IF Schema[type][k].label = "packed" THEN CallArray(k, Schema[type][k], a, buf)
        ELSE CallType(k, Schema[type][k], a, buf)
  IN  FlattenSeq([i \in DOMAIN atoms |-> Calls(atoms[i])])

\* _pbcP_message_default
MessageDefault(type, key) == Schema[type][key].default

\* pbc_rmessage_integer, _real, _string, _size: what the program asks for.
Ask(type, idx, key) ==
  LET f == Schema[type][key]
  IN  IF idx[key] # <<>> THEN idx[key]
      ELSE IF f.label \in {"optional", "required"} /\ f.type # "message"
           THEN <<MessageDefault(type, key)>>
      ELSE <<>>

----------------------------------------------------------------------------
NoneGiven(type) == [k \in DOMAIN Schema[type] |-> <<>>]

MsgInit ==
  /\ msgs = <<NewWMessage(Root)>>
  /\ given = <<NoneGiven(Root)>>
  /\ wire = <<>>

GivenCount == FoldLeft(LAMBDA n, g : n + Cardinality({k \in DOMAIN g : g[k] # <<>>}), 0, given)

\* The Lua encoder gives a field once: one value, or all of a repeated one.
Give(h, key, vals) ==
  LET f == Schema[msgs[h].type][key] IN
  /\ wire = <<>> /\ GivenCount < MaxFields
  /\ f.type # "message" /\ given[h][key] = <<>>
  /\ f.label \in {"optional", "required"} => Len(vals) = 1
  /\ msgs' = [msgs EXCEPT ![h] = WMessageValues(@, key, vals)]
  /\ given' = [given EXCEPT ![h][key] = vals]
  /\ UNCHANGED wire

\* pbc_wmessage_message: the sub-message is kept by its parent.
GiveMessage(h, key) ==
  LET f == Schema[msgs[h].type][key]
      n == Len(msgs) + 1
  IN
  /\ wire = <<>> /\ Len(msgs) <= MaxSubs
  /\ f.type = "message"
  /\ f.label # "repeated" => given[h][key] = <<>>
  /\ msgs' = Append([msgs EXCEPT ![h].sub = Append(@, [handle |-> n, id |-> f.id])],
                    NewWMessage(f.of))
  /\ given' = Append([given EXCEPT ![h][key] = Append(@, n)], NoneGiven(f.of))
  /\ UNCHANGED wire

\* The root is finished; the order is that of the hash tables.
Finish ==
  /\ wire = <<>>
  /\ \E order \in {o \in [1 .. Len(msgs) -> UNION {SetToSeqs(DOMAIN msgs[h].packed) :
                                                     h \in 1 .. Len(msgs)}] :
                     \A h \in 1 .. Len(msgs) : ToSet(o[h]) = DOMAIN msgs[h].packed} :
       /\ msgs' = WMessageBuffer(order)
       /\ wire' = msgs'[1].buf
       /\ wire' # <<>>
  /\ UNCHANGED given

MsgNext ==
  \/ \E h \in DOMAIN msgs : \E key \in DOMAIN Schema[msgs[h].type] :
       \/ \E vals \in Inputs[Schema[msgs[h].type][key].type] : Give(h, key, vals)
       \/ GiveMessage(h, key)
  \/ Finish

MsgSpec == MsgInit /\ [][MsgNext]_msgVars

----------------------------------------------------------------------------
\* What the Lua binding makes of a number: 32 bits of the narrow types.
Narrow == {"int32", "sint32"} \cup Numbers32 \cup {"fixed32", "sfixed32", "float"}
Seen(type, v) == IF type \in Narrow THEN Low(v) ELSE v

\* What the reader gets out of the bytes of m[h], one of the messages m that
\* were given g.
Delivered(m, g, h) ==
  LET type == m[h].type
      idx  == RMessage(type, m[h].buf)
  IN  \A k \in Known[type] :
        LET f    == Schema[type][k]
            sent == g[h][k]
            back == Ask(type, idx, k)
        IN  IF f.type = "message"
            THEN /\ Len(back) = Len(sent)
                 /\ \A i \in DOMAIN sent : back[i] = m[sent[i]].buf
            ELSE [i \in DOMAIN back |-> Seen(f.type, back[i])] =
                   IF sent = <<>> /\ f.label \in {"optional", "required"}
                   THEN <<Seen(f.type, f.default)>>
                   ELSE [i \in DOMAIN sent |-> Seen(f.type, sent[i])]

(***************************************************************************)
(* What is given to a message is what a reader gets out of the bytes it is *)
(* finished with: the default of a field that was not written, all values  *)
(* of a repeated or packed one in order, sub-messages whole, fields it     *)
(* does not know skipped (wmessage.c, rmessage.c).                         *)
(***************************************************************************)
RoundTrip ==
  [][wire' # <<>> => \A h \in DOMAIN msgs' : Delivered(msgs', given', h)]_msgVars

\* No write leaves the buffer: the room _expand_message makes is enough for
\* what is written after it, the corrected length of a packed field included.
WritesFit(m) == \A h \in DOMAIN m : m[h].fits

\* A buffer that was cut short is refused, or read as the whole fields it
\* still holds, never as others (wiretype_decode's checks of cap).
CutIsSeen(w) ==
  \A n \in 1 .. Len(w) - 1 :
    LET part == Open(SubSeq(w, 1, n)) IN IsPrefix(part, Open(w)) \/ part = <<>>

(***************************************************************************)
(* descriptor.proto:346, "The packed option can be enabled for repeated    *)
(* primitive fields": a packed field carries the values it was given.      *)
(***************************************************************************)
PackedCarriesItsValues ==
  wire # <<>> =>
    \A h \in DOMAIN msgs : \A k \in Known[msgs[h].type] :
      LET f == Schema[msgs[h].type][k] IN
      f.label = "packed" =>
        RMessage(msgs[h].type, msgs[h].buf)[k]
          = [i \in DOMAIN given[h][k] |-> Seen(f.type, given[h][k][i])]
=============================================================================
