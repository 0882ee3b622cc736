------------------------------- MODULE Cjson --------------------------------
(***************************************************************************)
(* The cjson module table: its options, the encode buffer it may keep from *)
(* one call to the next, and the calls of encode and decode                *)
(* (lua-cjson/lua_cjson.c).                                                *)
(***************************************************************************)
EXTENDS Json

CONSTANTS
  LuaValues,       \* the Lua values given to encode
  Options,      \* option -> the values it may be set to
  MaxSets       \* bound: options changed

VARIABLES
  cfg,    \* json_config_t
  buf,    \* its encode_buf, NoBuf when it is freed
  strbufs,   \* strbufs allocated
  text,   \* the text encoded and not yet decoded, NoText if there is none
  want,   \* history: what decode should make of it
  sets    \* options changed so far

jsonVars == <<cfg, buf, strbufs, text, want, sets>>

NoBuf  == [size |-> 0, bytes |-> <<>>, over |-> FALSE]
NoText == <<-1>>

\* json_create_config, with small limits of depth.
DefaultConfig ==
  [sparse_convert |-> FALSE, sparse_ratio |-> 2, sparse_safe |-> 3,
   encode_max_depth |-> 3, decode_max_depth |-> 3,
   encode_invalid |-> "off", decode_invalid |-> TRUE,
   keep_buffer |-> TRUE, precision |-> 14, empty_as_object |-> TRUE]

JsonInit ==
  /\ cfg = DefaultConfig
  /\ buf = StrbufInit(0)
  /\ strbufs = 1
  /\ text = NoText /\ want = Nil
  /\ sets = 0

\* json_integer_option and json_enum_option.
SetOption(o, v) ==
  /\ sets < MaxSets /\ o \notin {"keep_buffer", "encode_invalid", "decode_invalid"}
  /\ cfg' = [cfg EXCEPT ![o] = v]
  /\ sets' = sets + 1
  /\ UNCHANGED <<buf, strbufs, text, want>>

\* json_cfg_encode_invalid_numbers ("off", "on", "null") and decode's (on, off).
SetInvalidNumbers(o, v) ==
  /\ sets < MaxSets /\ o \in {"encode_invalid", "decode_invalid"}
  /\ cfg' = [cfg EXCEPT ![o] = v]
  /\ sets' = sets + 1
  /\ UNCHANGED <<buf, strbufs, text, want>>

\* json_cfg_encode_keep_buffer: the buffer comes and goes with the option.
SetKeepBuffer(v) ==
  /\ sets < MaxSets
  /\ cfg' = [cfg EXCEPT !.keep_buffer = v]
  /\ IF v = cfg.keep_buffer THEN UNCHANGED <<buf, strbufs>>
     ELSE /\ buf' = IF v THEN StrbufInit(0) ELSE NoBuf
          /\ strbufs' = IF v THEN strbufs + 1 ELSE strbufs - 1
  /\ sets' = sets + 1
  /\ UNCHANGED <<text, want>>

----------------------------------------------------------------------------
\* What a number is read as when it was written.
Reread(v) == Strtod(AppendNumber(cfg, v)[1].bytes, 1).v

\* What decode makes of the text of v: a hole is null, a key a string, NaN and
\* the infinities are themselves or null.
RECURSIVE Meaning(_)
Meaning(v) ==
  CASE v.t = "num" -> IF v.k # "int" /\ cfg.encode_invalid = "null" THEN Null ELSE Reread(v)
    [] v.t = "nil" -> Null
    [] v.t = "table" ->
         LET len == ArrayLength(cfg, v.kv)
             Key(k) == IF k.t = "str" THEN k ELSE Str(AppendNumber(cfg, k)[1].bytes)
             LastOf(k) == Max({i \in DOMAIN v.kv : Key(v.kv[i][1]) = k})
         IN  IF len >= 0
             THEN Table({<<Whole(i), Meaning(RawGet(v.kv, i))>> : i \in 1 .. len})
             ELSE Table({<<k, Meaning(v.kv[LastOf(k)][2])>> :
                           k \in {Key(v.kv[i][1]) : i \in DOMAIN v.kv}})
    [] OTHER -> v

RECURSIVE Depth(_)
Depth(v) == IF v.t # "table" THEN 0 ELSE 1 + Max({0} \cup {Depth(x[2]) : x \in v.kv})

RECURSIVE Finite(_)
Finite(v) == CASE v.t = "num" -> v.k = "int"
               [] v.t = "table" -> \A x \in v.kv : Finite(x[2])
               [] OTHER -> TRUE

----------------------------------------------------------------------------
\* Mutant of FreedAt: nesting that is too deep frees nothing.
FreedAtException(chunks) ==
  IF ~cfg.keep_buffer /\ \E i \in DOMAIN chunks : chunks[i] = Exception[1] THEN 1 ELSE 0

\* json_encode_exception and json_check_encode_depth free a buffer that is
\* not kept before they leave.
FreedAt(chunks) ==
  IF cfg.keep_buffer THEN 0
  ELSE IF \E i \in DOMAIN chunks : chunks[i] \in {Exception[1], TooDeep[1]} THEN 1 ELSE 0

\* json_encode
JsonEncode(v) ==
  /\ text = NoText
  /\ LET chunks == AppendData(cfg, 0, v)
         start  == IF cfg.keep_buffer THEN [buf EXCEPT !.bytes = <<>>] ELSE StrbufInit(0)
         end    == Encoded(start, chunks)
         failed == GivenUp(chunks)
     IN
     /\ text' = IF failed THEN NoText ELSE end.bytes
     /\ want' = IF failed THEN Nil ELSE Meaning(v)
     /\ buf'  = IF cfg.keep_buffer THEN end ELSE [NoBuf EXCEPT !.over = end.over]
     /\ strbufs' = strbufs + (IF cfg.keep_buffer THEN 0 ELSE 1)
                     - (IF failed THEN FreedAt(chunks) ELSE IF cfg.keep_buffer THEN 0 ELSE 1)
     /\ UNCHANGED <<cfg, sets>>

\* json_decode of the text, under options that may have changed since; its
\* own buffer is gone when it returns.
JsonDecode ==
  /\ text # NoText
  /\ text' = NoText /\ want' = Nil
  /\ UNCHANGED <<cfg, buf, strbufs, sets>>

JsonNext ==
  \/ \E o \in DOMAIN Options : \E v \in Options[o] : SetOption(o, v) \/ SetInvalidNumbers(o, v)
  \/ \E v \in BOOLEAN : SetKeepBuffer(v)
  \/ \E v \in LuaValues : JsonEncode(v)
  \/ JsonDecode

JsonSpec == JsonInit /\ [][JsonNext]_jsonVars

----------------------------------------------------------------------------
\* Under the options c, text s is read as w.
TextRead(c, s, w) ==
  LET r == Decoded(c, s)
  IN  IF Depth(w) > c.decode_max_depth \/ (~Finite(w) /\ ~c.decode_invalid)
      THEN ~r.ok ELSE r.ok /\ r.v = w

(***************************************************************************)
(* What encode wrote, decode reads back as the same value: holes as null,  *)
(* keys as strings, numbers as they print, whatever the buffer went        *)
(* through before and whichever options were changed in between.  It is    *)
(* refused only for its depth, or for NaN and the infinities where decode  *)
(* does not take them.                                                     *)
(***************************************************************************)
JsonComesBack == [][JsonDecode => TextRead(cfg, text, want)]_jsonVars

\* The room json_append_string and json_append_number ask for is enough for
\* what they write untested, and strbuf_resize gives what was asked.
EncodeFits(b) == ~b.over

\* Between two calls the only strbuf alive is the kept one: every way out of
\* encode frees a private buffer, once.
NoStrbufLeaks(c, alive) == alive = IF c.keep_buffer THEN 1 ELSE 0

DamagedBytes == {0, 32, Quote, Backslash, Comma, Colon, 48, 91, 93, 117, 123, 125}

Damaged(s) ==
  {SubSeq(s, 1, n) : n \in 1 .. Len(s) - 1}
    \cup {[s EXCEPT ![i] = b] : i \in DOMAIN s, b \in DamagedBytes}

\* A table's text that lost its end is refused, and no string read from a
\* damaged text is longer than the text, the room json_decode makes for what
\* json_next_string_token appends untested.
DamageIsSafe(c, s, w) ==
  \A d \in Damaged(s) :
    LET r == Decoded(c, d)
    IN  /\ r.tmp <= Len(d)
        /\ (w.t = "table" /\ Len(d) < Len(s)) => ~r.ok

(***************************************************************************)
(* The buffers of cjson are sound: no untested append leaves one, in       *)
(* encode or in the decode of a damaged text, and none is leaked or freed  *)
(* twice, however the options change between calls.                        *)
(***************************************************************************)
JsonBuffers ==
  [][/\ EncodeFits(buf') /\ NoStrbufLeaks(cfg', strbufs')
     /\ JsonDecode => DamageIsSafe(cfg, text, want)]_jsonVars
=============================================================================
