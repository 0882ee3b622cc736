------------------------------ MODULE PbcWire ------------------------------
(***************************************************************************)
(* The wire encoding of pbc: varints and zigzag (pbc/src/varint.c), fixed  *)
(* numbers (wmessage.c) and the split of a buffer into atoms (context.c).  *)
(*                                                                         *)
(* A word is the set of its one bits, so that 32 and 64 bits are exact: a  *)
(* byte is a subset of 0..7, the pair (low, hi) of struct longlong is one  *)
(* subset of 0..63.  A buffer is a sequence of bytes.                      *)
(***************************************************************************)
EXTENDS Integers, Sequences, FiniteSets

Byte   == SUBSET (0 .. 7)
Word32 == SUBSET (0 .. 31)
Word64 == SUBSET (0 .. 63)

\* Bits from .. from + n - 1 of v as a word of n bits.
Cut(v, from, n) == {b - from : b \in {x \in v : from <= x /\ x < from + n}}

Low(v) == Cut(v, 0, 32)
Hi(v)  == Cut(v, 32, 32)
Xor(a, b) == (a \ b) \cup (b \ a)

\* v << 1 in w bits, and the sign of v spread over w bits.
Twice(v, w) == {b + 1 : b \in {x \in v : x < w - 1}}
Sign(v, w)  == IF w - 1 \in v THEN 0 .. w - 1 ELSE {}

----------------------------------------------------------------------------
(***************************************************************************)
(* varint.c                                                                *)
(***************************************************************************)
\* The bytes a number below 2^64 needs, seven bits each.
VarintLen(v) == CHOOSE n \in 1 .. 10 :
                  /\ \A b \in v : b < 7 * n
                  /\ n = 1 \/ \E b \in v : b >= 7 * (n - 1)

\* _pbcV_encode and _pbcV_encode32: every byte but the last has bit 7.
Encode(v) ==
  LET n == VarintLen(v)
  IN  [i \in 1 .. n |-> Cut(v, 7 * (i - 1), 7) \cup (IF i < n THEN {7} ELSE {})]

\* The length _pbcV_decode finds in at most ten bytes.
DecodeLen(bytes) ==
  IF \E i \in 1 .. 10 : 7 \notin bytes[i]
  THEN CHOOSE i \in 1 .. 10 : 7 \notin bytes[i] /\ \A j \in 1 .. i - 1 : 7 \in bytes[j]
  ELSE 10

\* _pbcV_decode: 28 bits from four bytes, the rest from bytes five to ten;
\* what does not fit in 64 bits is cut off and an endless number is zero.
Decode(bytes) ==
  LET n == DecodeLen(bytes)
  IN  IF 7 \in bytes[n] THEN {}
      ELSE (UNION {{b + 7 * (i - 1) : b \in bytes[i] \ {7}} : i \in 1 .. n}) \cap (0 .. 63)

ZigZag(v, w) == Xor(Twice(v, w), Sign(v, w))

\* (v >> 1) ^ -(v & 1)
DeZigZag(v, w) ==
  Xor({b - 1 : b \in v \ {0}}, IF 0 \in v THEN 0 .. w - 1 ELSE {})

DeZigZag64(v) == DeZigZag(v, 64)

\* The high half follows bit 31 of the encoded number, not the sign of the result.
DeZigZag32(v) ==
  DeZigZag(Low(v), 32) \cup (IF 31 \in v THEN 32 .. 63 ELSE {})

----------------------------------------------------------------------------
(***************************************************************************)
(* Fixed numbers, least byte first.                                        *)
(***************************************************************************)
FixedBytes(v, n) == [i \in 1 .. n |-> Cut(v, 8 * (i - 1), 8)]

FixedValue(bytes, at, n) ==
  UNION {{b + 8 * (i - 1) : b \in bytes[at + i - 1]} : i \in 1 .. n}

----------------------------------------------------------------------------
(***************************************************************************)
(* context.c.  The bytes beyond the end stand for what memcpy leaves       *)
(* unset: any value, since a varint that needs them is refused.            *)
(***************************************************************************)
WT_VARINT == {}
WT_BIT64  == {0}
WT_LEND   == {1}
WT_BIT32  == {0, 2}

Bytes10(buf, at) ==
  [i \in 1 .. 10 |-> IF at + i - 1 <= Len(buf) THEN buf[at + i - 1] ELSE {7}]

\* The numbers met as lengths and field ids are small.
Number(v) ==
  LET sum[b \in 0 .. 15] == (IF b \in v THEN 2^b ELSE 0) + (IF b = 0 THEN 0 ELSE sum[b - 1])
  IN  sum[15]

Bits(n) == {b \in 0 .. 15 : (n \div 2^b) % 2 = 1}

NoAtom == [next |-> 0, id |-> 0, wire |-> {}, value |-> {}, start |-> 0, end |-> 0]

\* wiretype_decode at position at: an atom and where the next one starts, or
\* NoAtom; a slice is buf[start .. end].
WiretypeDecode(buf, at) ==
  LET tag  == Bytes10(buf, at)
      len  == DecodeLen(tag)
      key  == Decode(tag)
      at1  == at + len
      rest == Len(buf) - at1 + 1
      arg  == Bytes10(buf, at1)
      alen == DecodeLen(arg)
      val  == Decode(arg)
      size == Number(val)
      Atom(w, v, next) == [next |-> next, id |-> Number(Cut(key, 3, 29)), wire |-> w,
                           value |-> v, start |-> 0, end |-> 0]
      wire == key \cap (0 .. 2)
  IN
  CASE len > Len(buf) - at + 1 \/ Hi(key) # {} -> NoAtom
    [] wire = WT_VARINT /\ alen <= rest -> Atom(wire, val, at1 + alen)
    [] wire = WT_BIT64 /\ rest >= 8 -> Atom(wire, FixedValue(buf, at1, 8), at1 + 8)
    [] wire = WT_BIT32 /\ rest >= 4 -> Atom(wire, FixedValue(buf, at1, 4), at1 + 4)
    [] wire = WT_LEND /\ alen + size <= rest /\ Hi(val) = {} ->
         [Atom(wire, {}, at1 + alen + size) EXCEPT !.start = at1 + alen,
                                                   !.end = at1 + alen + size - 1]
    [] OTHER -> NoAtom

\* _pbcC_open: the atoms of a buffer, or <<>> if one of them is cut short.
Open(buf) ==
  LET from[at \in 1 .. Len(buf) + 1] ==
        IF at > Len(buf) THEN <<>>
        ELSE LET a == WiretypeDecode(buf, at)
             IN  IF a = NoAtom THEN <<NoAtom>> ELSE <<a>> \o from[a.next]
      atoms == from[1]
  IN  IF \E i \in DOMAIN atoms : atoms[i] = NoAtom THEN <<>> ELSE atoms

\* _open_packed_varint: the varints of a slice, none longer than ten bytes; one
\* begins behind every byte that ends one.
PackedVarints(buf, start, end) ==
  LET starts == SelectSeq([i \in 1 .. end - start + 1 |-> start + i - 1],
                          LAMBDA at : at = start \/ 7 \notin buf[at - 1])
  IN  [i \in DOMAIN starts |-> Decode(Bytes10(buf, starts[i]))]

\* _pbcC_open_packed for numbers of n bytes; a rest shorter than n is ignored.
PackedFixed(buf, start, end, n) ==
  [i \in 1 .. (end - start + 1) \div n |-> FixedValue(buf, start + n * (i - 1), n)]
=============================================================================
