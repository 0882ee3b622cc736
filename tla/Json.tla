-------------------------------- MODULE Json --------------------------------
(***************************************************************************)
(* cjson: Lua values to JSON text and back (lua-cjson/lua_cjson.c) through *)
(* a growing buffer (strbuf.c).                                            *)
(*                                                                         *)
(* Text and strings are sequences of bytes.  Of the numbers there are the  *)
(* small integers, the infinities and NaN; fractions are left out.  A      *)
(* table given to encode is the list of its pairs in the order lua_next    *)
(* meets them, one made by decode the set of its pairs.                    *)
(***************************************************************************)
EXTENDS Integers, Sequences, FiniteSets, SequencesExt, FiniteSetsExt

CONSTANT STRBUF_DEFAULT_SIZE

Quote == 34
Backslash == 92
Slash == 47
Comma == 44
Colon == 58
Digits == 48 .. 57
White == {9, 10, 13, 32}

\* The words met in texts, as bytes.
TrueWord  == <<116, 114, 117, 101>>
FalseWord == <<102, 97, 108, 115, 101>>
NullWord  == <<110, 117, 108, 108>>
InfWord   == <<105, 110, 102>>
NanWord   == <<110, 97, 110>>

Nil     == [t |-> "nil"]
Null    == [t |-> "null"]
Str(s)  == [t |-> "str", s |-> s]
Boolean(b) == [t |-> "bool", b |-> b]
Num(k, n) == [t |-> "num", k |-> k, n |-> n]   \* k: "int", "inf", "nan"
Whole(n)  == Num("int", n)
Table(kv) == [t |-> "table", kv |-> kv]

----------------------------------------------------------------------------
(***************************************************************************)
(* strbuf.c.  over says that an append without a test left the buffer.     *)
(***************************************************************************)
\* calculate_new_size: twice the size until it holds len bytes and the 0.
NewSize(size, len) ==
  LET fits == {size * 2^k : k \in 0 .. 10}
  IN  IF size > len + 1 THEN len + 1 ELSE Min({s \in fits : s >= len + 1})

\* strbuf_init
StrbufInit(len) ==
  [size |-> IF len <= 0 THEN STRBUF_DEFAULT_SIZE ELSE len + 1, bytes |-> <<>>, over |-> FALSE]

Ensure(b, len) ==
  IF len > b.size - Len(b.bytes) - 1
  THEN [b EXCEPT !.size = NewSize(b.size, Len(b.bytes) + len)] ELSE b

\* A chunk is what is appended after room for it was made.
Chunk(room, bytes) == [room |-> room, bytes |-> bytes]
Mem(bytes) == <<Chunk(Len(bytes), bytes)>>

AppendChunk(b, c) ==
  LET e == Ensure(b, c.room)
  IN  [e EXCEPT !.bytes = @ \o c.bytes,
                !.over = @ \/ Len(e.bytes) + Len(c.bytes) > e.size - 1]

----------------------------------------------------------------------------
(***************************************************************************)
(* Encoding: a list of chunks, one with room -1 where it is given up.      *)
(***************************************************************************)
Exception == <<Chunk(-1, <<>>)>>
TooDeep   == <<Chunk(-2, <<>>)>>
GivenUp(chunks) == \E i \in DOMAIN chunks : chunks[i].room < 0

HexByte(c) ==
  LET Hex(d) == IF d < 10 THEN 48 + d ELSE 87 + d
  IN  <<Backslash, 117, 48, 48, Hex(c \div 16), Hex(c % 16)>>

\* char2escape
EscapeOf(c) ==
  CASE c \in {Quote, Backslash, Slash} -> <<Backslash, c>>
    [] c = 8 -> <<Backslash, 98>>
    [] c = 9 -> <<Backslash, 116>>
    [] c = 10 -> <<Backslash, 110>>
    [] c = 12 -> <<Backslash, 102>>
    [] c = 13 -> <<Backslash, 114>>
    [] c < 32 \/ c = 127 -> HexByte(c)
    [] OTHER -> <<c>>

\* json_append_string: room for the worst case, then no test.
AppendString(s) ==
  <<Chunk(6 * Len(s) + 2,
          <<Quote>> \o FlattenSeq([i \in DOMAIN s |-> EscapeOf(s[i])]) \o <<Quote>>)>>

DecimalOf(a) ==
  LET from[n \in 0 .. a] == IF n < 10 THEN <<48 + n>> ELSE from[n \div 10] \o <<48 + (n % 10)>>
  IN  from[a]

\* %.<precision>g of an integer: with one digit it is rounded, ties to even.
FormatG(n, precision) ==
  LET a == IF n < 0 THEN -n ELSE n
      sign == IF n < 0 THEN <<45>> ELSE <<>>
      up == a % 10 > 5 \/ (a % 10 = 5 /\ (a \div 10) % 2 = 1)
      r == (a \div 10) + (IF up THEN 1 ELSE 0)
  IN  sign \o
      CASE a < 10 \/ precision > 1 -> DecimalOf(a)
        [] r < 10 -> <<48 + r, 101, 43, 48, 49>>
        [] OTHER -> <<49, 101, 43, 48, 50>>

FPCONV_G_FMT_BUFSIZE == 32

\* json_append_number and fpconv_g_fmt.
AppendNumber(cfg, v) ==
  CASE v.k = "int" -> <<Chunk(FPCONV_G_FMT_BUFSIZE, FormatG(v.n, cfg.precision))>>
    [] cfg.encode_invalid = "off" -> Exception
    [] cfg.encode_invalid = "null" -> Mem(NullWord)
    [] v.k = "nan" -> Mem(NanWord)
    [] OTHER -> <<Chunk(FPCONV_G_FMT_BUFSIZE, (IF v.n < 0 THEN <<45>> ELSE <<>>) \o InfWord)>>

\* lua_array_length: the length of an array, -1 for an object, -2 for an
\* array with too many holes.
ArrayLength(cfg, kv) ==
  LET Index(k) == k.t = "num" /\ k.k = "int" /\ k.n >= 1
      max == Max({0} \cup {kv[i][1].n : i \in DOMAIN kv})
  IN  IF \E i \in DOMAIN kv : ~Index(kv[i][1]) THEN -1
      ELSE IF cfg.sparse_ratio > 0 /\ max > Len(kv) * cfg.sparse_ratio /\ max > cfg.sparse_safe
      THEN IF cfg.sparse_convert THEN -1 ELSE -2
      ELSE max

\* lua_rawgeti
RawGet(kv, n) ==
  IF \E i \in DOMAIN kv : kv[i][1] = Whole(n)
  THEN kv[CHOOSE i \in DOMAIN kv : kv[i][1] = Whole(n)][2] ELSE Nil

\* The parts with a comma between each two of them.
WithCommas(parts) ==
  FlattenSeq([i \in DOMAIN parts |-> (IF i > 1 THEN Mem(<<Comma>>) ELSE <<>>) \o parts[i]])

RECURSIVE AppendData(_, _, _)

AppendKey(cfg, k) ==
  CASE k.t = "num" -> Mem(<<Quote>>) \o AppendNumber(cfg, k) \o Mem(<<Quote, Colon>>)
    [] k.t = "str" -> AppendString(k.s) \o Mem(<<Colon>>)
    [] OTHER -> Exception

\* json_append_array
AppendArray(cfg, depth, kv, len) ==
  Mem(<<91>>)
    \o WithCommas([i \in 1 .. len |-> AppendData(cfg, depth, RawGet(kv, i))])
    \o Mem(<<93>>)

\* json_append_object
AppendObject(cfg, depth, kv) ==
  Mem(<<123>>)
    \o WithCommas([i \in DOMAIN kv |->
                     AppendKey(cfg, kv[i][1]) \o AppendData(cfg, depth, kv[i][2])])
    \o Mem(<<125>>)

\* json_append_data and json_check_encode_depth.
AppendData(cfg, depth, v) ==
  CASE v.t = "str" -> AppendString(v.s)
    [] v.t = "num" -> AppendNumber(cfg, v)
    [] v.t = "bool" -> Mem(IF v.b THEN TrueWord ELSE FalseWord)
    [] v.t \in {"nil", "null"} -> Mem(NullWord)
    [] v.t = "table" ->
         LET len == ArrayLength(cfg, v.kv) IN
         IF depth + 1 > cfg.encode_max_depth THEN TooDeep
         ELSE IF len = -2 THEN Exception
         ELSE IF len > 0 \/ (len = 0 /\ ~cfg.empty_as_object)
         THEN AppendArray(cfg, depth + 1, v.kv, len)
         ELSE AppendObject(cfg, depth + 1, v.kv)
    [] OTHER -> Exception

\* What has been appended when encoding ends, in order, to buffer b.
Encoded(b, chunks) ==
  LET upto[i \in 0 .. Len(chunks)] ==
        IF i = 0 THEN b ELSE LET p == upto[i - 1] IN AppendChunk(p, chunks[i])
      end == IF GivenUp(chunks)
             THEN Min({i \in DOMAIN chunks : chunks[i].room < 0}) - 1 ELSE Len(chunks)
  IN  upto[end]

----------------------------------------------------------------------------
(***************************************************************************)
(* Decoding.  Beyond the text there is the 0 that ends a Lua string.       *)
(***************************************************************************)
At(text, p) == IF p <= Len(text) THEN text[p] ELSE 0
Starts(text, p, word) == \A i \in DOMAIN word : At(text, p + i - 1) = word[i]

\* Mutant of HexDigit: the letters begin at 0.
HexDigitZero(c) ==
  CASE c \in Digits -> c - 48
    [] c \in 97 .. 102 -> c - 97
    [] c \in 65 .. 70 -> c - 65
    [] OTHER -> -1

\* hexdigit2int and decode_hex4
HexDigit(c) ==
  CASE c \in Digits -> c - 48
    [] c \in 97 .. 102 -> c - 87
    [] c \in 65 .. 70 -> c - 55
    [] OTHER -> -1

DecodeHex4(text, p) ==
  LET Number(d) == IF \E i \in 0 .. 3 : d[i] < 0 THEN -1
                   ELSE 4096 * d[0] + 256 * d[1] + 16 * d[2] + d[3]
  IN  Number([i \in 0 .. 3 |-> HexDigit(At(text, p + i))])

\* codepoint_to_utf8
Utf8(c) ==
  LET Tail6(k) == 128 + ((c \div k) % 64)
  IN  CASE c <= 127 -> <<c>>
        [] c <= 2047 -> <<192 + (c \div 64), Tail6(1)>>
        [] c <= 65535 -> <<224 + (c \div 4096), Tail6(64), Tail6(1)>>
        [] OTHER -> <<240 + (c \div 262144), Tail6(4096), Tail6(64), Tail6(1)>>

\* json_append_unicode_escape at the backslash: the bytes and the length of
\* the escape, 0 if it is invalid.
UnicodeEscape(text, p) ==
  LET Half(x) == x >= 55296 /\ x < 57344
      invalid == [len |-> 0, bytes |-> <<>>]
      Pair(c, low) ==
        IF low < 56320 \/ ~Half(low) THEN invalid
        ELSE [len |-> 12, bytes |-> Utf8((c % 1024) * 1024 + (low % 1024) + 65536)]
      Escape(c) ==
        CASE c < 0 -> invalid
          [] ~Half(c) -> [len |-> 6, bytes |-> Utf8(c)]
          [] c >= 56320 \/ At(text, p + 6) # Backslash \/ At(text, p + 7) # 117 -> invalid
          [] OTHER -> Pair(c, DecodeHex4(text, p + 8))
  IN  Escape(DecodeHex4(text, p + 2))

\* escape2char, 0 for what may not be escaped.
Unescaped(c) ==
  CASE c \in {Quote, Backslash, Slash} -> c
    [] c = 98 -> 8
    [] c = 116 -> 9
    [] c = 110 -> 10
    [] c = 102 -> 12
    [] c = 114 -> 13
    [] OTHER -> 0

Token(type, next) == [type |-> type, next |-> next, tmp |-> 0]

\* json_next_string_token, behind the opening quote; tmp is what it has put
\* in the buffer, which nothing tests.
StringToken(text, p0) ==
  LET scan[p \in 1 .. Len(text) + 12] ==
        LET fail == [ok |-> FALSE, next |-> p, bytes |-> <<>>]
            Then(bytes, len) == [scan[p + len] EXCEPT !.bytes = bytes \o @]
            Unicode(uni) == IF uni.len = 0 THEN fail ELSE Then(uni.bytes, uni.len)
            Escaped(c)   == IF c = 0 THEN fail ELSE Then(<<c>>, 2)
            Behind(c, esc) ==
              CASE c = Quote -> [ok |-> TRUE, next |-> p + 1, bytes |-> <<>>]
                [] c = 0 -> fail
                [] c # Backslash -> Then(<<c>>, 1)
                [] esc = 117 -> Unicode(UnicodeEscape(text, p))
                [] OTHER -> Escaped(Unescaped(esc))
        IN  Behind(At(text, p), At(text, p + 1))
      Result(end) == [type |-> IF end.ok THEN "string" ELSE "error", next |-> end.next,
                      tmp |-> Len(end.bytes), v |-> Str(end.bytes)]
  IN  Result(scan[p0])

\* strtod: a sign, then inf, nan, or digits and an exponent.
Strtod(text, p) ==
  LET neg  == At(text, p) = 45
      q    == IF At(text, p) \in {43, 45} THEN p + 1 ELSE p
      run[i \in 1 .. Len(text) + 8] == IF At(text, i) \in Digits THEN run[i + 1] ELSE i
      Value(from, to) ==
        LET upto[i \in from - 1 .. to - 1] ==
              IF i < from THEN 0 ELSE 10 * upto[i - 1] + text[i] - 48
        IN  upto[to - 1]
      end  == run[q]
      exp  == At(text, end) = 101 /\ At(text, end + 1) = 43 /\ At(text, end + 2) \in Digits
      stop == IF exp THEN run[end + 2] ELSE end
      n    == Value(q, end) * (IF exp THEN 10^Value(end + 2, stop) ELSE 1)
      sign == IF neg THEN -1 ELSE 1
  IN  CASE Starts(text, q, InfWord) -> [next |-> q + 3, v |-> Num("inf", sign)]
        [] Starts(text, q, NanWord) -> [next |-> q + 3, v |-> Num("nan", 0)]
        [] end = q -> [next |-> p, v |-> Whole(0)]
        [] OTHER -> [next |-> stop, v |-> Whole(sign * n)]

\* json_is_invalid_number
InvalidNumber(text, p) ==
  LET q == IF At(text, p) = 45 THEN p + 1 ELSE p
      c == At(text, q)
  IN  CASE At(text, p) = 43 -> TRUE
        [] c = 48 -> At(text, q + 1) \in Digits \cup {120, 88}
        [] c <= 57 -> FALSE
        [] OTHER -> Starts(text, q, InfWord) \/ Starts(text, q, NanWord)

NumberToken(text, p) ==
  LET r == Strtod(text, p)
  IN  IF r.next = p THEN Token("error", p)
      ELSE [type |-> "number", next |-> r.next, tmp |-> 0, v |-> r.v]

Single == (123 :> "{") @@ (125 :> "}") @@ (91 :> "[") @@ (93 :> "]") @@ (44 :> ",") @@ (58 :> ":")

\* json_next_token
NextToken(cfg, text, p0) ==
  LET skip[p \in 1 .. Len(text) + 1] == IF At(text, p) \in White THEN skip[p + 1] ELSE p
      p == IF p0 > Len(text) THEN p0 ELSE skip[p0]
      c == At(text, p)
      Word(v, word) == [type |-> "value", next |-> p + Len(word), tmp |-> 0, v |-> v]
  IN  CASE c = 0 -> Token("end", p)
        [] c \in DOMAIN Single -> Token(Single[c], p + 1)
        [] c = Quote -> StringToken(text, p + 1)
        [] c = 45 \/ c \in Digits ->
             IF ~cfg.decode_invalid /\ InvalidNumber(text, p) THEN Token("error", p)
             ELSE NumberToken(text, p)
        [] Starts(text, p, TrueWord)  -> Word(Boolean(TRUE), TrueWord)
        [] Starts(text, p, FalseWord) -> Word(Boolean(FALSE), FalseWord)
        [] Starts(text, p, NullWord)  -> Word(Null, NullWord)
        [] OTHER -> IF cfg.decode_invalid /\ InvalidNumber(text, p) THEN NumberToken(text, p)
                    ELSE Token("error", p)

\* A value that was read, where the text goes on, and the longest string met.
Got(v, next, tmp) == [ok |-> TRUE, v |-> v, next |-> next, tmp |-> tmp]
Bad(tmp) == [ok |-> FALSE, v |-> Nil, next |-> 0, tmp |-> tmp]
Most(a, b) == IF a > b THEN a ELSE b

\* lua_rawset: a later value of the same key takes the place of the earlier.
RawSet(kv, k, v) == {x \in kv : x[1] # k} \cup {<<k, v>>}

RECURSIVE ProcessValue(_, _, _, _), ParseArray(_, _, _, _, _, _), ParseObject(_, _, _, _, _, _)

\* json_parse_array_context, from the token of element i.
ParseArray(cfg, text, tok, depth, i, kv) ==
  LET Rest(r, most) == [r EXCEPT !.tmp = Most(@, most)]
      Behind(e, sep, kv2) ==
        CASE ~e.ok -> e
          [] sep.type = "]" -> Got(Table(kv2), sep.next, e.tmp)
          [] sep.type = "," ->
               Rest(ParseArray(cfg, text, NextToken(cfg, text, sep.next), depth, i + 1, kv2), e.tmp)
          [] OTHER -> Bad(Most(e.tmp, sep.tmp))
      Element(e) == Behind(e, NextToken(cfg, text, e.next), RawSet(kv, Whole(i), e.v))
  IN  Element(ProcessValue(cfg, text, tok, depth))

\* json_parse_object_context, from the token of a key.
ParseObject(cfg, text, tok, depth, tmp, kv) ==
  LET Behind(e, sep, most, kv2) ==
        CASE ~e.ok -> Bad(most)
          [] sep.type = "}" -> Got(Table(kv2), sep.next, most)
          [] sep.type = "," ->
               ParseObject(cfg, text, NextToken(cfg, text, sep.next), depth, most, kv2)
          [] OTHER -> Bad(Most(most, sep.tmp))
      Pair(e) == Behind(e, NextToken(cfg, text, e.next), Most(Most(tmp, tok.tmp), e.tmp),
                        RawSet(kv, tok.v, e.v))
      Key(colon) ==
        IF tok.type # "string" \/ colon.type # ":" THEN Bad(Most(tmp, tok.tmp))
        ELSE Pair(ProcessValue(cfg, text, NextToken(cfg, text, colon.next), depth))
  IN  Key(NextToken(cfg, text, tok.next))

\* json_process_value and json_decode_descend.
ProcessValue(cfg, text, tok, depth) ==
  LET Inside(first) ==
        CASE first.type = "}" /\ tok.type = "{" -> Got(Table({}), first.next, 0)
          [] first.type = "]" /\ tok.type = "[" -> Got(Table({}), first.next, 0)
          [] tok.type = "{" -> ParseObject(cfg, text, first, depth + 1, 0, {})
          [] OTHER -> ParseArray(cfg, text, first, depth + 1, 1, {})
  IN  CASE tok.type \in {"string", "number", "value"} -> Got(tok.v, tok.next, tok.tmp)
        [] tok.type \notin {"{", "["} \/ depth + 1 > cfg.decode_max_depth -> Bad(tok.tmp)
        [] OTHER -> Inside(NextToken(cfg, text, tok.next))

\* json_decode: text in UTF-16 or UTF-32 is told by its zeros; nothing may
\* follow the value.
Decoded(cfg, text) ==
  LET r == ProcessValue(cfg, text, NextToken(cfg, text, 1), 0)
  IN  IF Len(text) >= 2 /\ (text[1] = 0 \/ text[2] = 0) THEN Bad(0)
      ELSE IF r.ok /\ NextToken(cfg, text, r.next).type # "end" THEN Bad(r.tmp)
      ELSE r
=============================================================================
