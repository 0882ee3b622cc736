------------------------------- MODULE PbcLua -------------------------------
(***************************************************************************)
(* pbc as Lua programs use it: protobuf.lua's encode and decode, pack and  *)
(* unpack, over the C functions of pbc/binding/lua53/pbc-lua53.c.          *)
(*                                                                         *)
(* A Lua integer is 64 bits, a boolean {} or {0}, an enum's name stands    *)
(* for its number.  A table holds for each field a list: no value, one, or *)
(* those of an array.                                                      *)
(***************************************************************************)
EXTENDS PbcPattern

IsArray(f) == f.label \in {"repeated", "packed"}

\* An int32_t becomes a lua_Integer.
Extend(v) == Low(v) \cup (IF 31 \in v THEN 32 .. 63 ELSE {})

----------------------------------------------------------------------------
(***************************************************************************)
(* decode                                                                  *)
(***************************************************************************)
\* Mutant of PushValue: 32 bits are taken as unsigned.
PushValueUnsigned(type, v) ==
  CASE type \in {"int32", "sint32", "fixed32", "sfixed32"} -> Low(v)
    [] type = "bool" -> Bool(v)
    [] OTHER -> v

\* push_value: PBC_INT and PBC_FIXED32 are taken as signed.
PushValue(type, v) ==
  CASE type \in {"int32", "sint32", "fixed32", "sfixed32"} -> Extend(v)
    [] type = "bool" -> Bool(v)
    [] OTHER -> v

\* _decode, decode_cb and new_array: fields without a name are left out, one
\* that repeats is collected, another overwritten.
DecodeTable(type, buf) ==
  LET calls == PbcDecode(type, buf)
      ListOf(k) ==
        LET mine == SelectSeq(calls, LAMBDA c : c.key = k)
        IN  [i \in DOMAIN mine |-> PushValue(Schema[type][k].type, mine[i].value)]
  IN  [k \in Known[type] |->
         IF IsArray(Schema[type][k]) \/ ListOf(k) = <<>> THEN ListOf(k) ELSE <<Last(ListOf(k))>>]

\* Reading field k of a decoded table: what is absent comes from the table of
\* defaults, an rmessage of no bytes.
LuaField(type, t, k) ==
  IF t[k] # <<>> THEN t[k] ELSE Ask(type, RMessage(type, <<>>), k)

----------------------------------------------------------------------------
(***************************************************************************)
(* pack and unpack                                                         *)
(***************************************************************************)
\* _pattern_type of protobuf.lua: the letter for pbc and the one for Lua.
CForm(f) ==
  CASE IsArray(f) -> "a"
    [] f.type \in Reals -> "F"
    [] f.type \in Letters -> "s"
    [] f.type \in {"int32", "sint32", "fixed32", "sfixed32", "bool", "enum"} -> "d"
    [] OTHER -> "D"

LuaForm(f) ==
  LET lower == CASE f.type \in Reals -> "r"
                 [] f.type \in {"string", "bytes"} -> "s"
                 [] f.type = "message" -> "m"
                 [] f.type = "bool" -> "b"
                 [] f.type \in {"int32", "sint32", "fixed32", "sfixed32", "enum"} -> "i"
                 [] OTHER -> "d"
      upper == [r |-> "R", s |-> "S", m |-> "M", b |-> "B", i |-> "I", d |-> "D"]
  IN  IF IsArray(f) THEN upper[lower] ELSE lower

\* _pattern_size
FormSize(form) ==
  CASE form \in {"b", "i"} -> 4
    [] form \in {"r", "d"} -> 8
    [] form \in {"s", "m"} -> SliceSize
    [] OTHER -> ArraySize

\* _get_value and _get_array_value: from Lua into the struct.
GetValue(form, x) == IF form = "i" THEN Low(x) ELSE x
GetArrayValue(form, x) == IF form = "I" THEN Extend(x) ELSE x

\* _push_value and _push_array: from the struct to Lua.
PushForm(form, v) ==
  CASE form \in {"i", "I"} -> Extend(v)
    [] form \in {"b", "B"} -> Bool(v)
    [] OTHER -> v

\* _pattern_create, with _pattern_new of the binding.
LuaPattern(type, keys) == PatternNew(type, {<<k, CForm(Schema[type][k])>> : k \in keys})

\* The struct _pattern_pack fills from the arguments.
StructOf(type, vals) ==
  [k \in DOMAIN vals |->
     LET f == Schema[type][k] IN
     IF IsArray(f) THEN [i \in DOMAIN vals[k] |-> GetArrayValue(LuaForm(f), vals[k][i])]
     ELSE GetValue(LuaForm(f), vals[k][1])]

\* _pattern_pack: 128 bytes, doubled until the message fits.
LuaPack(type, vals) ==
  LET pat == LuaPattern(type, DOMAIN vals)
      try[n \in 0 .. 5] ==
        LET r == PatternPack(pat, StructOf(type, vals), 128 * 2^n)
        IN  IF r # Failed \/ n = 5 THEN r ELSE try[n + 1]
  IN  try[0]

\* _pattern_unpack: the struct holds whatever was on the stack.
LuaUnpack(type, keys, buf) ==
  LET out == PatternUnpack(LuaPattern(type, keys), buf, [k \in keys |-> 0 .. 63])
      ListOf(k) ==
        LET f == Schema[type][k] IN
        IF IsArray(f) THEN [i \in DOMAIN out[k] |-> PushForm(LuaForm(f), out[k][i])]
        ELSE <<PushForm(LuaForm(f), out[k])>>
  IN  IF out = Failed THEN Failed ELSE [k \in keys |-> ListOf(k)]

----------------------------------------------------------------------------
\* What a program that gave these values expects to find in a field.
Expected(m, g, h, k) ==
  LET f == Schema[m[h].type][k]
  IN  IF g[h][k] = <<>> /\ ~IsArray(f) THEN <<f.default>> ELSE g[h][k]

\* The fields of message m[h] a pattern can carry unchanged: a sint64 outside a
\* packed field is never unpacked, and a 64-bit array goes through a double.
Packable(m, g, h) ==
  {k \in DOMAIN Schema[m[h].type] :
     LET f == Schema[m[h].type][k] IN
     /\ f.type # "message"
     /\ f.type = "sint64" => f.label = "packed"
     /\ LuaForm(f) = "D" => \A i \in DOMAIN g[h][k] : g[h][k][i] \subseteq 0 .. 52}

\* The table read from finished message m[h] is the one it was made of.
TableRead(m, g, h) ==
  LET type == m[h].type
      t    == DecodeTable(type, m[h].buf)
  IN  \A k \in Known[type] :
        IF Schema[type][k].type = "message"
        THEN t[k] = [i \in DOMAIN g[h][k] |-> m[g[h][k][i]].buf]
        ELSE LuaField(type, t, k) = Expected(m, g, h, k)

(***************************************************************************)
(* A Lua table comes back from decode(encode(t)) as it was: numbers of 32  *)
(* bits with their sign, arrays in order, absent fields as their default,  *)
(* sub-messages as the bytes they are expanded from when they are read     *)
(* (push_value, decode_cb, protobuf.lua's default_table).                  *)
(***************************************************************************)
TableComesBack ==
  [][wire' # <<>> => \A h \in DOMAIN msgs' : TableRead(msgs', given', h)]_msgVars

\* The values of finished message m[h] go through pack, unpack and decode.
PackRead(m, g, h) ==
  LET type == m[h].type
      keys == Packable(m, g, h)
      vals == [k \in keys |-> Expected(m, g, h, k)]
      buf  == LuaPack(type, vals)
      t    == DecodeTable(type, buf)
  IN  /\ LuaUnpack(type, keys, buf) = vals
      /\ \A k \in keys \cap Known[type] : LuaField(type, t, k) = vals[k]
      /\ LuaUnpack(type, keys, m[h].buf) = vals
      /\ \A k \in keys : FormSize(LuaForm(Schema[type][k])) = CtypeSize(CForm(Schema[type][k]))

(***************************************************************************)
(* pack and unpack agree with each other and with encode: the values come  *)
(* back from a packed buffer by unpack and by decode, and from an encoded  *)
(* one by unpack; the struct has the size the binding makes for it.        *)
(***************************************************************************)
PackComesBack ==
  [][wire' # <<>> => \A h \in DOMAIN msgs' : PackRead(msgs', given', h)]_msgVars

\* A pack into a slice either fails or has written the whole message inside
\* of it; with room for a length more than needed it does not fail.
PackStaysInside(m, g, h) ==
  LET type  == m[h].type
      vals  == [k \in Packable(m, g, h) |-> Expected(m, g, h, k)]
      Into(cap) == PatternPack(LuaPattern(type, DOMAIN vals), StructOf(type, vals), cap)
      whole == LuaPack(type, vals)
  IN  /\ \A cap \in {Len(whole) - 2, Len(whole) - 1} : cap >= 0 => Into(cap) = Failed
      /\ Into(Len(whole)) \in {whole, Failed}
      /\ Into(Len(whole) + 5) = whole

(***************************************************************************)
(* Nothing is written or read outside of a buffer: the writer's room, grown*)
(* by guesses, is enough; a pack into a slice of any size stays inside or  *)
(* fails; a message that lost its end is never read as something else.     *)
(***************************************************************************)
WireSafe ==
  [][/\ WritesFit(msgs')
     /\ wire' # <<>> => /\ CutIsSeen(wire')
                        /\ \A h \in DOMAIN msgs' : PackStaysInside(msgs', given', h)]_msgVars
=============================================================================
