------------------------------ MODULE MCCjson -------------------------------
(***************************************************************************)
(* Small instances of Cjson: strings with every kind of escape, numbers    *)
(* that are rounded or not finite, arrays with holes and too many holes,   *)
(* mixed and equal keys, nesting up to and past the limits.                *)
(***************************************************************************)
EXTENDS Cjson

A == Str(<<97>>)
Escapes == Str(<<34, 92, 47, 8, 9, 10, 12, 13, 1, 31, 127, 195, 169>>)
Row(s) == Table([i \in DOMAIN s |-> <<Whole(i), s[i]>>])
Obj(s) == Table(s)

SmallValues ==
  {Nil, Null, Boolean(TRUE), A, Escapes, Whole(0), Whole(-3), Whole(12), Whole(95),
   Num("inf", -1), Num("nan", 0), [t |-> "function"],
   Row(<<>>), Row(<<A, Whole(7), Boolean(FALSE)>>),
   Table(<<<<Whole(2), A>>>>), Table(<<<<Whole(4), A>>>>), Table(<<<<Whole(3), A>>, <<Whole(1), Null>>>>),
   Obj(<<<<Whole(1), A>>, <<Str(<<49>>), Boolean(TRUE)>>>>),
   Obj(<<<<Str(<<49>>), Boolean(TRUE)>>, <<Whole(1), A>>>>),
   Obj(<<<<Whole(0), A>>, <<Str(<<>>), Row(<<>>)>>>>),
   Obj(<<<<Boolean(TRUE), A>>>>),
   Row(<<Obj(<<<<A, Row(<<Whole(1)>>)>>>>), A>>),
   Row(<<Row(<<Row(<<Row(<<>>)>>)>>)>>),
   Row(<<A, Num("nan", 0)>>)}

SmallOptions ==
  [sparse_convert |-> {TRUE}, sparse_ratio |-> {0, 1}, sparse_safe |-> {1},
   encode_max_depth |-> {1, 4}, decode_max_depth |-> {1, 2},
   encode_invalid |-> {"on", "null"}, decode_invalid |-> {FALSE},
   precision |-> {1}, empty_as_object |-> {FALSE}]
=============================================================================
