---------------------------- MODULE PbcRegistry ----------------------------
(***************************************************************************)
(* The type registry of pbc (pbc/src/register.c, proto.c, bootstrap.c): an *)
(* environment of files, enums and messages, filled from descriptor sets   *)
(* whose files may come in any order, in one call or in several, and may   *)
(* extend each other's messages.                                           *)
(*                                                                         *)
(* A file is the list of its declarations in the order _register visits    *)
(* them, names already joined to their scope by _concat_name: its enums,   *)
(* each message followed by its own extensions, enums and nested types,    *)
(* then its own extensions.  The tables are functions here; PbcMap shows   *)
(* that they are.                                                          *)
(***************************************************************************)
EXTENDS Naturals, Sequences, FiniteSets, FiniteSetsExt, SequencesExt

CONSTANTS
  Files,    \* name -> [deps : names, decls : declarations]
  BuiltIn,  \* pbc_descriptor: the file record read by register_internal
  NullPtr,     \* the null pointer
  MaxSet,   \* bound: files of a descriptor set
  MaxCalls  \* bound: calls of pbc_register

ASSUME RegAssumption ==
  /\ NullPtr \notin DOMAIN Files \cup {"pool"}
  /\ MaxSet \in Nat /\ MaxCalls \in Nat

None == ""

VARIABLES
  env,       \* struct pbc_env: files, enums, msgs
  lasterror,
  call,      \* the pbc_register that runs, or NoCall
  goal,      \* history: what the last call should have brought about
  calls      \* bound

regVars == <<env, lasterror, call, goal, calls>>

MapPut(f, k, v) == [x \in DOMAIN f \cup {k} |-> IF x = k THEN v ELSE f[x]]
EmptyMap     == [x \in {} |-> x]
Lookup(f, k) == IF k \in DOMAIN f THEN f[k] ELSE NullPtr

----------------------------------------------------------------------------
(***************************************************************************)
(* proto.c                                                                 *)
(***************************************************************************)
\* An enum known already is kept; the first value is the default.
PushEnum(s, name, table) ==
  IF name \in DOMAIN s.enums THEN s
  ELSE [enums |-> MapPut(s.enums, name, [values |-> table, default |-> table[1]]),
        msgs  |-> s.msgs, queue |-> s.queue]

NewMessage(key) == [key |-> key, name |-> EmptyMap, id |-> NullPtr]

\* The field joins the names of its message, made if need be; a field with a
\* type to look up is queued.  key says where the bytes of name live.
PushMessage(s, name, key, f) ==
  LET old == IF name \in DOMAIN s.msgs THEN s.msgs[name] ELSE NewMessage(key)
      new == [key |-> old.key, name |-> MapPut(old.name, f.name, f), id |-> old.id]
  IN  [enums |-> s.enums, msgs |-> MapPut(s.msgs, name, new),
       queue |-> IF f.type \in {"message", "enum"}
                 THEN Append(s.queue, <<name, f.name>>) ELSE s.queue]

\* The id map: by number, the name of a field that has it.
IdMap(fields) ==
  [i \in {fields[n].id : n \in DOMAIN fields} |->
     CHOOSE n \in DOMAIN fields : fields[n].id = i]

\* Mutant of InitMessage: an id map that is there is kept.
InitMessageOnce(s, name, key) ==
  LET new == IF name \notin DOMAIN s.msgs THEN NewMessage(key)
             ELSE IF s.msgs[name].id # NullPtr THEN s.msgs[name]
             ELSE [s.msgs[name] EXCEPT !.id = IdMap(s.msgs[name].name)]
  IN  [s EXCEPT !.msgs = MapPut(s.msgs, name, new)]

\* The id map is made again from all the fields the message has by now.
InitMessage(s, name, key) ==
  LET new == IF name \notin DOMAIN s.msgs THEN NewMessage(key)
             ELSE [key |-> s.msgs[name].key, name |-> s.msgs[name].name,
                   id  |-> IdMap(s.msgs[name].name)]
  IN  [enums |-> s.enums, msgs |-> MapPut(s.msgs, name, new), queue |-> s.queue]

----------------------------------------------------------------------------
(***************************************************************************)
(* register.c: a registration under way is [enums, msgs, queue], the last  *)
(* being the fields whose types are looked up at the end.                  *)
(***************************************************************************)
\* _register_field: label and packed option, type, default.
Field(d) ==
  [name |-> d.name, id |-> d.id, type |-> d.type, type_name |-> d.type_name,
   label |-> IF d.packed THEN "packed" ELSE d.label,
   default |-> d.default, target |-> NullPtr]

PushFields(s, name, fields) ==
  LET at[i \in 0 .. Len(fields)] ==
        IF i = 0 THEN s ELSE PushMessage(at[i - 1], name, "pool", Field(fields[i]))
  IN  at[Len(fields)]

\* The id maps are remade when the extended message changes, and at the end.
RegisterExtension(s, exts) ==
  LET n == Len(exts)
      at[i \in 0 .. n] ==
        IF i = 0 THEN s
        ELSE LET to     == exts[i].extendee
                 pushed == PushMessage(at[i - 1], to, "message", Field(exts[i]))
             IN  IF i > 1 /\ exts[i - 1].extendee # to
                 THEN InitMessage(pushed, exts[i - 1].extendee, "message") ELSE pushed
  IN  IF n = 0 THEN s ELSE InitMessage(at[n], exts[n].extendee, "message")

RegisterMessage(s, d) ==
  RegisterExtension(InitMessage(PushFields(s, d.name, d.fields), d.name, "pool"), d.exts)

Declare(s, d) ==
  CASE d.kind = "enum"    -> PushEnum(s, d.name, d.values)
    [] d.kind = "message" -> RegisterMessage(s, d)
    [] d.kind = "extend"  -> RegisterExtension(s, d.exts)

DeclareAll(s, decls) ==
  LET at[i \in 0 .. Len(decls)] == IF i = 0 THEN s ELSE Declare(at[i - 1], decls[i])
  IN  at[Len(decls)]

\* bootstrap.c, set_field_one: the type is looked up by name (the pointer is
\* that name here), an enum field gets its default by name or the enum's own.
SetFieldOne(enums, msgs, f) ==
  LET Set(table, default) ==
        [name |-> f.name, id |-> f.id, type |-> f.type, type_name |-> f.type_name,
         label |-> f.label, default |-> default,
         target |-> IF f.type_name \in DOMAIN table THEN f.type_name ELSE NullPtr]
  IN  CASE f.type = "message" -> Set(msgs, f.default)
        [] f.type = "enum" -> Set(enums, IF f.default # None THEN f.default
                                         ELSE enums[f.type_name].default)
        [] OTHER -> f

RegisterFields(s) ==
  LET msgs[i \in 0 .. Len(s.queue)] ==
        IF i = 0 THEN s.msgs
        ELSE LET q   == s.queue[i]
                 msg == msgs[i - 1][q[1]]
                 f   == SetFieldOne(s.enums, msgs[i - 1], msg.name[q[2]])
             IN  MapPut(msgs[i - 1], q[1], [key |-> msg.key, name |-> MapPut(msg.name, q[2], f),
                                            id |-> msg.id])
  IN  msgs[Len(s.queue)]

Register(e, decls) ==
  LET s == DeclareAll([enums |-> e.enums, msgs |-> e.msgs, queue |-> <<>>], decls)
  IN  [enums |-> s.enums, msgs |-> RegisterFields(s)]

\* Mutant of CheckFileName: only the first dependency is looked at.
CheckFirstDependency(e, f) ==
  IF Lookup(e.files, f) # NullPtr THEN "EXIST"
  ELSE IF Files[f].deps # <<>> /\ Lookup(e.files, Files[f].deps[1]) = NullPtr
       THEN "DEPENDENCY" ELSE "OK"

CheckFileName(e, f) ==
  IF Lookup(e.files, f) # NullPtr THEN "EXIST"
  ELSE IF \E i \in DOMAIN Files[f].deps : Lookup(e.files, Files[f].deps[i]) = NullPtr
       THEN "DEPENDENCY" ELSE "OK"

----------------------------------------------------------------------------
(***************************************************************************)
(* bootstrap.c, register_internal: the built-in file keeps sizes and flat  *)
(* lists; each enum and message takes the next slice.  RegInit enters it   *)
(* under its name with a null pool.                                        *)
(***************************************************************************)
Slice(sizes, list, i) ==
  LET start == FoldLeft(+, 0, SubSeq(sizes, 1, i - 1))
  IN  SubSeq(list, start + 1, start + sizes[i])

\* What set_enums and set_msgs go through.
InternalDecls(file) ==
  LET n == Len(file.enum_name)
  IN  [i \in 1 .. n + Len(file.message_name) |->
         IF i <= n
         THEN [kind |-> "enum", name |-> file.enum_name[i],
               values |-> Slice(file.enum_size, file.enum_string, i)]
         ELSE [kind |-> "message", name |-> file.message_name[i - n],
               fields |-> Slice(file.message_size, file.message_field, i - n),
               exts |-> <<>>]]

RegisterInternal(e, file) == Register(e, InternalDecls(file))

----------------------------------------------------------------------------
NoCall == [files |-> <<>>, i |-> 0, rr |-> 0, r |-> 0]

Pools == {f \in DOMAIN env.files : env.files[f] # NullPtr}

Ready(f, have) == \A i \in DOMAIN Files[f].deps : Files[f].deps[i] \in have

\* What can be had from a set besides have: the least that is closed under it.
Closure(have, set) ==
  {f \in have \cup set :
     \A c \in SUBSET (have \cup set) :
       have \subseteq c /\ (\A g \in set : Ready(g, c) => g \in c) => f \in c}

\* pbc_new
RegInit ==
  /\ LET e == RegisterInternal([enums |-> EmptyMap, msgs |-> EmptyMap], BuiltIn)
     IN  env = [files |-> MapPut(EmptyMap, BuiltIn.name, NullPtr), enums |-> e.enums, msgs |-> e.msgs]
  /\ lasterror = None /\ call = NoCall
  /\ goal = {} /\ calls = 0

Sets == UNION {[1 .. n -> DOMAIN Files] : n \in 0 .. MaxSet}

\* pbc_register with a readable set.
OpenSet(set) ==
  /\ call = NoCall /\ calls < MaxCalls
  /\ calls' = calls + 1
  /\ goal' = Closure(Pools, {set[i] : i \in DOMAIN set})
  /\ IF set = <<>>
     THEN /\ lasterror' = "register empty"
          /\ UNCHANGED call
     ELSE /\ call' = [files |-> set, i |-> 1, rr |-> 0, r |-> Len(set)]
          /\ UNCHANGED lasterror
  /\ UNCHANGED env

\* The set or one of its files does not parse: nothing is registered.
OpenFail ==
  /\ call = NoCall /\ calls < MaxCalls
  /\ calls' = calls + 1
  /\ lasterror' = "register open fail"
  /\ UNCHANGED <<env, call, goal>>

\* One round of the loop of _register_no_dependency.
RegisterNoDependency ==
  /\ call # NoCall /\ call.i <= Len(call.files)
  /\ LET f == call.files[call.i] IN
     IF f = NullPtr
     THEN call' = [call EXCEPT !.i = @ + 1] /\ UNCHANGED env
     ELSE \/ /\ CheckFileName(env, f) = "EXIST"
             /\ call' = [call EXCEPT !.i = @ + 1]
             /\ UNCHANGED env
          \/ /\ CheckFileName(env, f) = "DEPENDENCY"
             /\ call' = [call EXCEPT !.i = @ + 1, !.rr = @ + 1]
             /\ UNCHANGED env
          \/ /\ CheckFileName(env, f) = "OK"
             /\ call' = [call EXCEPT !.i = @ + 1, !.files[call.i] = NullPtr]
             /\ LET e == Register(env, Files[f].decls) IN
                env' = [files |-> MapPut(env.files, f, "pool"), enums |-> e.enums, msgs |-> e.msgs]
  /\ UNCHANGED <<lasterror, goal, calls>>

\* Names that point into the set are gone when pbc_rmessage_delete frees it.
Dangle(e) ==
  [files |-> e.files, enums |-> e.enums,
   msgs  |-> [n \in DOMAIN e.msgs |->
                [key  |-> IF e.msgs[n].key = "message" THEN "freed" ELSE e.msgs[n].key,
                 name |-> e.msgs[n].name, id |-> e.msgs[n].id]]]

\* The end of a round: no progress, done, or another round.
PassEnd ==
  /\ call # NoCall /\ call.i > Len(call.files)
  /\ IF call.rr = call.r \/ call.rr = 0
     THEN /\ call' = NoCall
          /\ env' = Dangle(env)
          /\ lasterror' = IF call.rr = call.r THEN "register dependency error" ELSE lasterror
     ELSE /\ call' = [call EXCEPT !.i = 1, !.r = call.rr, !.rr = 0]
          /\ UNCHANGED <<env, lasterror>>
  /\ UNCHANGED <<goal, calls>>

RegNext == (\E set \in Sets : OpenSet(set)) \/ OpenFail \/ RegisterNoDependency \/ PassEnd

RegSpec == RegInit /\ [][RegNext]_regVars

----------------------------------------------------------------------------
\* pbc_type: the type of a field and whether it repeats, 0 if there is none.
PbcType(m, k) ==
  IF m \notin DOMAIN env.msgs \/ k \notin DOMAIN env.msgs[m].name THEN <<0, None>>
  ELSE LET f == env.msgs[m].name[k]
       IN  <<f.type, IF f.label \in {"repeated", "packed"} THEN "repeated" ELSE None>>

\* pbc_enum_id: the place of a name among the values, -1 written as 0.
PbcEnumId(e, v) ==
  IF e \notin DOMAIN env.enums THEN 0
  ELSE LET hits == {i \in DOMAIN env.enums[e].values : env.enums[e].values[i] = v}
       IN  IF hits = {} THEN 0 ELSE Min(hits)

----------------------------------------------------------------------------
(***************************************************************************)
(* pbc_register's rounds end with exactly those files registered that can  *)
(* be had from the set and what was there before, whatever the order of    *)
(* the set; what a failed call left out is not kept.                       *)
(***************************************************************************)
OrderDoesNotMatter == call = NoCall => Pools = goal

\* A field of a message or enum type points to it, also when the type is
\* declared later in the file or is the message itself; an enum field has a
\* default that is a value of its enum.
TypesResolved ==
  \A m \in DOMAIN env.msgs : \A k \in DOMAIN env.msgs[m].name :
    LET f == env.msgs[m].name[k] IN
      /\ f.type \in {"message", "enum"} => f.target = f.type_name
      /\ f.type = "message" => f.target \in DOMAIN env.msgs
      /\ f.type = "enum" => PbcEnumId(f.type_name, f.default) # 0

\* Decoding by number finds every field that encoding by name finds.
MapsAgree ==
  \A m \in DOMAIN env.msgs :
    LET msg == env.msgs[m]
        ids == {msg.name[n].id : n \in DOMAIN msg.name}
    IN  IF DOMAIN msg.name = {} THEN msg.id = NullPtr
        ELSE DOMAIN msg.id = ids /\ \A i \in ids : msg.name[msg.id[i]].id = i

\* pbc_type answers for every field declared by a registered file.
DeclaredIsKnown ==
  \A f \in Pools : \A i \in DOMAIN Files[f].decls :
    LET d == Files[f].decls[i] IN
      /\ d.kind = "message" =>
           \A x \in DOMAIN d.fields : PbcType(d.name, d.fields[x].name)[1] = d.fields[x].type
      /\ d.kind \in {"message", "extend"} =>
           \A x \in DOMAIN d.exts : PbcType(d.exts[x].extendee, d.exts[x].name)[1] = d.exts[x].type
      /\ d.kind = "enum" => \A x \in DOMAIN d.values : PbcEnumId(d.name, d.values[x]) = x

Messages(f) == {i \in DOMAIN Files[f].decls : Files[f].decls[i].kind = "message"}

\* A message of f is extended inside a message that comes before it.
ExtendedEarly(m) ==
  \E f \in DOMAIN Files : \E i, j \in Messages(f) :
    /\ i < j /\ Files[f].decls[j].name = m
    /\ \E x \in DOMAIN Files[f].decls[i].exts : Files[f].decls[i].exts[x].extendee = m

\* The name of a message lives as long as the environment, unless the message
\* was first met as an extendee (_register_extension hands on a pointer into
\* the descriptor set, which pbc_register frees).
NamesOutliveTheSet ==
  call = NoCall =>
    \A m \in DOMAIN env.msgs : env.msgs[m].key = "freed" => ExtendedEarly(m)

(***************************************************************************)
(* The registry is closed: every declared field and enum value can be      *)
(* found, the two maps of a message agree after extensions that came       *)
(* later, every type a field names is there, and nothing points into the   *)
(* descriptor set that is freed (register.c, proto.c, bootstrap.c).        *)
(***************************************************************************)
RegistryClosed == DeclaredIsKnown /\ MapsAgree /\ TypesResolved /\ NamesOutliveTheSet

----------------------------------------------------------------------------
(***************************************************************************)
(* What protoc sees to in the files it writes, and pbc relies on; that the *)
(* extensions of a file come last is _register's doing.  NullPtr stands    *)
(* for the built-in file here.                                             *)
(***************************************************************************)
Units    == DOMAIN Files \cup {NullPtr}
Decls(u) == IF u = NullPtr THEN InternalDecls(BuiltIn) ELSE Files[u].decls
Deps(u)  == IF u = NullPtr THEN {} ELSE {Files[u].deps[i] : i \in DOMAIN Files[u].deps}

\* What u is built on: the least set of files with u, its dependencies and
\* theirs, and the built-in file.
Visible(u) ==
  {v \in Units : \A c \in SUBSET Units :
     {u, NullPtr} \subseteq c /\ (\A x \in c : Deps(x) \cap Units \subseteq c) => v \in c}

\* The places in u where something is declared, and whether u sees one.
Places(u, kind, name) ==
  {i \in DOMAIN Decls(u) : Decls(u)[i].kind = kind /\ Decls(u)[i].name = name}
Sees(u, kind, name) == \E v \in Visible(u) : Places(v, kind, name) # {}

\* The fields a declaration adds, each with its message.
Added(d) ==
  UNION {IF d.kind = "message" THEN {<<d.name, d.fields[x]>> : x \in DOMAIN d.fields} ELSE {},
         IF d.kind = "enum" THEN {} ELSE {<<d.exts[x].extendee, d.exts[x]>> : x \in DOMAIN d.exts}}

\* A field of u fits: its message and its type are seen, and its default is
\* a value of the type.
Fits(u, a) ==
  /\ a.type = "message" => Sees(u, "message", a.type_name)
  /\ a.type = "enum" =>
       \E v \in Visible(u) : \E i \in Places(v, "enum", a.type_name) :
         \/ a.default = None
         \/ \E x \in DOMAIN Decls(v)[i].values : Decls(v)[i].values[x] = a.default

IsList(s) == Len(s) \in Nat /\ DOMAIN s = 1 .. Len(s)

IsDeclaration(d) ==
  \/ /\ d.kind = "enum" /\ IsList(d.values) /\ 1 \in DOMAIN d.values
     /\ \A x, y \in DOMAIN d.values : d.values[x] = d.values[y] => x = y
  \/ d.kind = "message" /\ IsList(d.fields) /\ IsList(d.exts)
  \/ d.kind = "extend" /\ IsList(d.exts)

\* A message or an enum is declared once, a field of a message added once,
\* and the extensions of a file come after its messages.
WellFormed ==
  /\ IsList(BuiltIn.enum_name) /\ IsList(BuiltIn.message_name)
  /\ \A u \in Units : IsList(Decls(u)) /\ \A i \in DOMAIN Decls(u) : IsDeclaration(Decls(u)[i])
  /\ \A u, v \in Units : \A kind \in {"message", "enum"} :
       \A i \in DOMAIN Decls(u) : Decls(u)[i].kind = kind =>
         \A j \in Places(v, kind, Decls(u)[i].name) : u = v /\ i = j
  /\ \A u, v \in Units : \A i \in DOMAIN Decls(u) : \A j \in DOMAIN Decls(v) :
       \A p \in Added(Decls(u)[i]), q \in Added(Decls(v)[j]) :
         p[1] = q[1] /\ p[2].name = q[2].name => p[2] = q[2]
  /\ \A u \in Units : \A i \in DOMAIN Decls(u) : \A p \in Added(Decls(u)[i]) :
       Sees(u, "message", p[1]) /\ Fits(u, p[2])
  /\ \A u \in Units : \A i, j \in DOMAIN Decls(u) :
       Decls(u)[i].kind = "extend" /\ Decls(u)[j].kind = "message" => j < i
=============================================================================
