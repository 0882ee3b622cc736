----------------------------- MODULE PbcPattern -----------------------------
(***************************************************************************)
(* The other way to read and write a message of PbcMessage: a pattern puts *)
(* the fields of a C struct into a slice of fixed size and back            *)
(* (pbc/src/pattern.c).                                                    *)
(*                                                                         *)
(* The struct is a function from field name to what lies there: 64 bits    *)
(* (the high ones zero where the C type is narrower), bytes of a slice, or *)
(* the elements of an array.  A C type is named by its format letter, "p"  *)
(* being the array of a packed field.  Reals are not converted: a float    *)
(* field goes with %f, a double with %F.                                   *)
(***************************************************************************)
EXTENDS PbcMessage

CONSTANTS
  Failed,                \* what pack, unpack and new return on an error
  SliceSize, ArraySize   \* sizeof(struct pbc_slice) and sizeof(pbc_array)

Letters == {"string", "bytes", "message"}
Reals   == {"float", "double"}

----------------------------------------------------------------------------
\* _check_ctype
CtypeFits(f, c) ==
  CASE f.label = "repeated" -> c = "a"
    [] f.label = "packed" -> c = "p"
    [] f.type \in Letters -> c = "s"
    [] f.type \in Reals -> c \in {"F", "f"}
    [] f.type = "enum" -> c \in {"c", "h", "d", "D"}
    [] OTHER -> c \in {"d", "D", "b", "h", "c"}

\* _pattern_new and pbc_pattern_new: format is a set of <<field, letter>>; the
\* fields of a pattern are in the order of their ids.
PatternNew(type, format) ==
  LET Exists(x) == x[1] \in DOMAIN Schema[type]
      Ctype(x)  == IF x[2] = "a" /\ Schema[type][x[1]].label = "packed" THEN "p" ELSE x[2]
      Field(x)  == [key |-> x[1], ctype |-> Ctype(x)] @@ Schema[type][x[1]]
  IN  IF \A x \in format : Exists(x) /\ CtypeFits(Schema[type][x[1]], Ctype(x))
      THEN LET fields == {Field(x) : x \in format}
               Rank(f) == Cardinality({g \in fields : g.id <= f.id})
           IN  [i \in 1 .. Cardinality(fields) |-> CHOOSE f \in fields : Rank(f) = i]
      ELSE Failed

\* bsearch_pattern: the place of a field id, 0 if the pattern lacks it.
Place(pat, id) ==
  IF \E i \in DOMAIN pat : pat[i].id = id
  THEN CHOOSE i \in DOMAIN pat : pat[i].id = id ELSE 0

\* write_longlong, write_real and set_default_v; a 16-bit number is written
\* by the first as one byte, and the other keeps what was there.
Bool(v) == IF Low(v) = {} THEN {} ELSE {0}

Stored(c, v) ==
  CASE c \in {"d", "f"} -> Low(v)
    [] c = "b" -> Bool(v)
    [] c = "c" -> Cut(v, 0, 8)
    [] c = "h" -> Cut(v, 0, 16)
    [] OTHER -> v

Written(c, v, old) ==
  IF c = "h" THEN Cut(v, 0, 8) \cup {b \in old : b \in 8 .. 15} ELSE Stored(c, v)

\* Mutant of Default: numbers are zeroed.
DefaultZero(f) ==
  IF f.ctype \in {"a", "p"} THEN <<>> ELSE IF f.ctype = "s" THEN f.default ELSE {}

\* _pattern_set_default
Default(f) == IF f.ctype \in {"a", "p"} THEN <<>> ELSE
              IF f.ctype = "s" THEN f.default ELSE Stored(f.ctype, f.default)

\* _ctype_size
CtypeSize(c) ==
  CASE c \in {"f", "d"} -> 4
    [] c \in {"F", "D"} -> 8
    [] c \in {"b", "c"} -> 1
    [] c = "h" -> 2
    [] c = "s" -> SliceSize
    [] OTHER -> ArraySize

----------------------------------------------------------------------------
(***************************************************************************)
(* Packing.  A slice is what was written, the room left, and whether       *)
(* everything fitted so far.                                               *)
(***************************************************************************)
NewSlice(cap) == [buf |-> <<>>, left |-> cap, ok |-> TRUE]
NoRoom(s) == [s EXCEPT !.ok = FALSE]

\* _pack_wiretype, _pack_varint64, _pack_sint32, _pack_sint64, memcpy.
Put(s, bytes) ==
  IF ~s.ok \/ Len(bytes) > s.left THEN NoRoom(s)
  ELSE [buf |-> s.buf \o bytes, left |-> s.left - Len(bytes), ok |-> TRUE]

\* _pack_field: the tag, for letters the length, and the value.
FieldBytes(f, v) ==
  Tag(f.id, WireType(f.type)) \o
    (IF f.type \in Letters THEN Encode(Bits(Len(v))) \o v ELSE Body(f.type, v))

PackField(s, f, v) == Put(s, FieldBytes(f, v))

\* _pack_repeated
PackRepeated(s, f, vals) == Put(s, FlattenSeq([i \in DOMAIN vals |-> FieldBytes(f, vals[i])]))

\* _pack_number for all elements: the first that finds no room ends it.
PackNumbers(s, type, vals) == Put(s, FlattenSeq([i \in DOMAIN vals |-> Body(type, vals[i])]))

\* _pack_packed_fixed: the test takes the size of the length off once more.
PackPackedFixed(s, f, width, vals) ==
  LET size == width * Len(vals)
      head == Put(s, Encode(Bits(size)))
      len  == Len(head.buf) - Len(s.buf)
  IN  IF head.left - len < size THEN NoRoom(head) ELSE PackNumbers(head, f.type, vals)

\* Mutant of PackPackedVarints: the body is moved without a test for room.
PackPackedVarintsUntested(s, f, vals) ==
  LET head  == Put(s, Encode(Bits(Len(vals))))
      all   == PackNumbers(head, f.type, vals)
      body  == SubSeq(all.buf, Len(head.buf) + 1, Len(all.buf))
      right == Encode(Bits(Len(body)))
  IN  IF ~all.ok \/ Len(body) = Len(vals) THEN all
      ELSE [buf |-> s.buf \o right \o body, left |-> s.left - Len(right \o body), ok |-> TRUE]

\* _pack_packed_varint: the length is guessed as the number of elements, and
\* the body moved when the right one has another size.
PackPackedVarints(s, f, vals) ==
  LET head  == Put(s, Encode(Bits(Len(vals))))
      all   == PackNumbers(head, f.type, vals)
      body  == SubSeq(all.buf, Len(head.buf) + 1, Len(all.buf))
      right == Encode(Bits(Len(body)))
  IN  IF ~all.ok \/ Len(body) = Len(vals) THEN all
      ELSE IF Len(right) + Len(body) > s.left THEN NoRoom(all)
      ELSE [buf |-> s.buf \o right \o body, left |-> s.left - Len(right \o body), ok |-> TRUE]

\* _pack_packed of pattern.c
PatternPackPacked(s, f, vals) ==
  LET tagged == Put(s, Tag(f.id, WT_LEND))
  IN  CASE vals = <<>> -> s
        [] f.type \in Fixed64 -> PackPackedFixed(tagged, f, 8, vals)
        [] f.type \in Fixed32 -> PackPackedFixed(tagged, f, 4, vals)
        [] OTHER -> PackPackedVarints(tagged, f, vals)

\* _is_default: compared as the C type, bytes and messages never.
HoldsDefault(f, v) ==
  CASE f.ctype = "s" -> f.type = "string" /\ v = f.default
    [] OTHER -> v = Stored(f.ctype, f.default)

\* pbc_pattern_pack into cap bytes.
PatternPack(pat, data, cap) ==
  LET Add(s, f) ==
        LET v == data[f.key] IN
        CASE ~s.ok -> s
          [] f.label = "optional" /\ HoldsDefault(f, v) -> s
          [] f.label = "repeated" -> PackRepeated(s, f, v)
          [] f.label = "packed" -> PatternPackPacked(s, f, v)
          [] OTHER -> PackField(s, f, v)
      upto[i \in 0 .. Len(pat)] ==
        IF i = 0 THEN NewSlice(cap) ELSE LET s == upto[i - 1] IN Add(s, pat[i])
      end == upto[Len(pat)]
  IN  IF end.ok THEN end.buf ELSE Failed

----------------------------------------------------------------------------
(***************************************************************************)
(* Unpacking                                                               *)
(***************************************************************************)
\* unpack_field and unpack_array: the content of f after the atoms that are
\* its own; a scalar is overwritten by the last.
Unpacked(f, own, buf, old) ==
  LET values == [i \in DOMAIN own |-> AtomValue(f.type, own[i], buf)]
  IN  CASE f.ctype = "p" ->
             FlattenSeq([i \in DOMAIN own |-> PackedValues(f.type, own[i], buf)])
        [] f.ctype = "a" -> values
        [] f.ctype = "s" -> Last(values)
        [] OTHER -> Written(f.ctype, Last(values), old)

\* A packed field must hold whole elements; the only wire type looked at is
\* that of a string, also asked of a sint64 (CHECK_LEND).
Refused(f, a, buf) ==
  CASE f.ctype = "p" /\ f.type \in Fixed64 \cup Fixed32 ->
         (a.end - a.start + 1) % (IF f.type \in Fixed64 THEN 8 ELSE 4) # 0
    [] f.ctype = "p" -> a.end >= a.start /\ 7 \in buf[a.end]
    [] OTHER -> f.type \in Letters \cup {"sint64"} /\ a.wire # WT_LEND

\* pbc_pattern_unpack into a struct that held old: an array is opened when
\* its field is first met, a field not met gets its default.
PatternUnpack(pat, buf, old) ==
  LET atoms == Open(buf)
      Own(f) == SelectSeq(atoms, LAMBDA a : Place(pat, a.id) # 0 /\ pat[Place(pat, a.id)] = f)
      Field(k) == CHOOSE f \in Range(pat) : f.key = k
      New(f) == IF Own(f) = <<>> THEN Default(f) ELSE Unpacked(f, Own(f), buf, old[f.key])
  IN  IF buf # <<>> /\ (atoms = <<>> \/ \E f \in Range(pat) :
                                         \E a \in Range(Own(f)) : Refused(f, a, buf))
      THEN Failed
      ELSE [k \in {f.key : f \in Range(pat)} |-> New(Field(k))]
=============================================================================
