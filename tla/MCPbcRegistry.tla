--------------------------- MODULE MCPbcRegistry ---------------------------
(***************************************************************************)
(* Small instance of PbcRegistry: a file to build on, one that uses and    *)
(* extends it, one that extends both in turn, one with an extension of a   *)
(* message that comes later, and one that needs the built-in file.         *)
(***************************************************************************)
EXTENDS PbcRegistry

Decl(name, id, type, type_name, label) ==
  [name |-> name, id |-> id, type |-> type, type_name |-> type_name,
   label |-> label, packed |-> FALSE, default |-> None]

Ext(extendee, name, id) ==
  [name |-> name, id |-> id, type |-> "int", type_name |-> None, extendee |-> extendee,
   label |-> "repeated", packed |-> TRUE, default |-> None]

Message(name, fields, exts) ==
  [kind |-> "message", name |-> name, fields |-> fields, exts |-> exts]

Enum(name, values) == [kind |-> "enum", name |-> name, values |-> values]
Extends(exts) == [kind |-> "extend", exts |-> exts]

SmallFiles ==
  [base |-> [deps |-> <<>>, decls |->
     <<Enum("E", <<"V0", "V1">>),
       Message("A", <<Decl("self", 1, "message", "A", "optional"),
                      Decl("later", 2, "message", "A.N", "repeated"),
                      [Decl("e", 3, "enum", "E", "optional") EXCEPT !.default = "V1"]>>, <<>>),
       Message("A.N", <<Decl("e", 1, "enum", "E", "required")>>, <<>>)>>],
   user |-> [deps |-> <<"base">>, decls |->
     <<Message("B", <<Decl("a", 1, "message", "A", "optional")>>, <<Ext("A", "B.x", 10)>>),
       Message("Empty", <<>>, <<>>),
       Extends(<<Ext("A", "y", 11), Ext("Empty", "z", 1)>>)>>],
   twice |-> [deps |-> <<"base", "user">>, decls |->
     <<Extends(<<Ext("A", "p", 12), Ext("B", "q", 10), Ext("A", "r", 13)>>)>>],
   early |-> [deps |-> <<>>, decls |->
     <<Message("C", <<Decl("d", 1, "message", "D", "optional")>>, <<Ext("D", "C.x", 5)>>),
       Message("D", <<Decl("n", 1, "int", None, "optional")>>, <<>>)>>],
   option |-> [deps |-> <<"descriptor">>, decls |->
     <<Message("O", <<Decl("n", 1, "int", None, "optional")>>, <<>>)>>]]

SmallBuiltIn ==
  [name |-> "descriptor",
   enum_name |-> <<"Label", "Type">>, enum_size |-> <<1, 2>>,
   enum_string |-> <<"OPTIONAL", "DOUBLE", "FLOAT">>,
   message_name |-> <<"Set", "File">>, message_size |-> <<1, 2>>,
   message_field |-> <<Decl("file", 1, "message", "File", "repeated"),
                       Decl("type", 1, "enum", "Type", "optional"),
                       Decl("label", 2, "enum", "Label", "optional")>>]

\* They are what protoc could have written.
ASSUME SmallIsWellFormed == WellFormed
=============================================================================
