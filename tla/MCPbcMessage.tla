---------------------------- MODULE MCPbcMessage ----------------------------
(***************************************************************************)
(* Small instances of PbcMessage: fields of every type and label, numbers  *)
(* at the edges of the varint lengths and of 32 and 64 bits, lists long    *)
(* enough to change the size of a packed field's length either way, and a  *)
(* reader that does not know some of the fields.                           *)
(***************************************************************************)
EXTENDS PbcLua

F(id, type, label, default) ==
  [id |-> id, type |-> type, label |-> label, default |-> default, of |-> "none"]
M(id, label, of) ==
  [id |-> id, type |-> "message", label |-> label, default |-> <<>>, of |-> of]

SmallSchema ==
  [Root |-> [a |-> F(1, "int32", "optional", {}),
             b |-> F(2, "sint32", "required", {}),
             c |-> F(16, "sint64", "repeated", {}),
             d |-> F(3, "double", "optional", {62}),
             e |-> F(4, "enum", "optional", {0}),
             s |-> F(5, "string", "optional", <<{0}>>),
             t |-> F(6, "bytes", "repeated", <<>>),
             p |-> F(7, "int32", "packed", {}),
             q |-> F(8, "bool", "packed", {}),
             x |-> F(9, "fixed32", "repeated", {}),
             m |-> M(10, "repeated", "Sub"),
             o |-> M(11, "optional", "Sub")],
   Sub  |-> [u |-> F(1, "uint64", "optional", {}),
             p |-> F(2, "sint64", "packed", {}),
             f |-> F(3, "fixed64", "packed", {})]]

SmallKnown == [Root |-> DOMAIN SmallSchema.Root \ {"t", "q"}, Sub |-> {"u", "p", "f"}]

One(S) == {<<v>> : v \in S}
Edge32 == {{}, {7}, 0 .. 63, {31} \cup (32 .. 63), 0 .. 30}
Edge64 == {{}, {28}, {32}, {63}, 0 .. 62, 0 .. 63}
Fill(n, v) == [i \in 1 .. n |-> v]

SmallInputs ==
  [message |-> {},
   int32   |-> One(Edge32) \cup {Fill(64, {0}), Fill(30, 0 .. 63)},
   sint32  |-> One(Edge32),
   sint64  |-> One(Edge64) \cup {<<{}, 0 .. 63>>, Fill(17, {52})},
   double  |-> One({{}, {62}, {0, 63}}),
   enum    |-> One({{}, {0}, {1}}),
   string  |-> {<<<<>>>>, <<<<{0}>>>>, <<<<{1}, {}>>>>, <<Fill(130, {7})>>},
   bytes   |-> {<<<<>>, <<{7}, {7}>>>>},
   bool    |-> {<<{0}>>, Fill(3, {0})},
   fixed32 |-> {<<{0}, {31} \cup (32 .. 63)>>},
   uint64  |-> One(Edge64),
   fixed64 |-> {<<{0}>>, <<{52}, {32}, {31}>>}]

\* A packed field of 32-bit numbers.
Schema32 == [Root |-> [w |-> F(1, "fixed32", "packed", {}),
                       g |-> F(2, "float", "packed", {}),
                       n |-> F(3, "uint32", "optional", {})]]
Known32  == [Root |-> {"w", "g", "n"}]
Inputs32 == [fixed32 |-> {<<{0}>>, <<{0}, {8, 31}>>}, float |-> {<<{30}>>}, uint32 |-> One({{}, {3}})]
=============================================================================
