------------------------------- MODULE PbcMap -------------------------------
(***************************************************************************)
(* The three hash tables of pbc/src/map.c: map_sp (string to pointer, open *)
(* addressing with chains through the slots, doubled when full), map_ip    *)
(* (integer to pointer, an array or a closed hash) and map_si (string to   *)
(* integer, a closed hash).                                                *)
(*                                                                         *)
(* Slots are numbered from 0 and next is 0 for none, else a slot number    *)
(* plus one, as in the code.  calc_hash is any function on the keys, fixed *)
(* at the start, so that every pattern of collisions is met.               *)
(***************************************************************************)
EXTENDS Integers, Sequences, FiniteSets, FiniteSetsExt, SequencesExt

CONSTANTS Keys,     \* strings
          Values,   \* pointers
          NULL,     \* the null pointer, also the null key
          Hashes,   \* results of calc_hash
          Caps,     \* the max arguments of _pbcM_sp_new
          Ids,      \* integers: field and enum numbers
          MaxRows   \* bound: rows of a closed table

ASSUME MapAssumption ==
  /\ NULL \notin Keys \cup Values
  /\ Hashes \subseteq Nat /\ Caps \subseteq Nat /\ Ids \subseteq Int
  /\ MaxRows \in Nat

VARIABLES hash,   \* calc_hash
          sp,     \* a map_sp, NoMap before _pbcM_sp_new
          ip,     \* a map_ip, NULL before _pbcM_ip_new
          ipRows, \* history: the rows ip was made from
          si      \* a map_si with its rows, NULL before _pbcM_si_new

mapVars == <<hash, sp, ip, ipRows, si>>

----------------------------------------------------------------------------
(***************************************************************************)
(* The chain of a table of n slots from its slot first, cut after n steps. *)
(***************************************************************************)
Chain(slot, n, first) ==
  LET at[i \in 0 .. n] ==
        IF i = 0 THEN first + 1
        ELSE LET p == at[i - 1] IN IF p = 0 THEN 0 ELSE slot[p - 1].next
  IN  at

\* Where a loop that looks for one of the slots wanted stops: there or at -1.
Found(slot, n, first, wanted) ==
  LET at   == Chain(slot, n, first)
      hits == {i \in 0 .. n : at[i] # 0 /\ at[i] - 1 \in wanted}
  IN  IF hits = {} THEN -1 ELSE at[Min(hits)] - 1

----------------------------------------------------------------------------
(***************************************************************************)
(* map_sp                                                                  *)
(***************************************************************************)
FreeSpSlot == [key |-> NULL, pointer |-> NULL, next |-> 0]
NoMap == [cap |-> 0, size |-> 0, slot |-> <<>>]
FreeMap(n) == [cap |-> n, size |-> 0, slot |-> [i \in 0 .. n - 1 |-> FreeSpSlot]]

\* Doubled as long as it is below max, which takes no more than max rounds.
SpNew(max) ==
  LET cap[i \in 0 .. max] ==
        IF i = 0 THEN 1 ELSE LET c == cap[i - 1] IN IF c < max THEN 2 * c ELSE c
  IN  FreeMap(cap[max])

SpFind(m, k) ==
  Found(m.slot, m.cap, hash[k] % m.cap, {i \in DOMAIN m.slot : m.slot[i].key = k})

SpQuery(m, k) == LET i == SpFind(m, k) IN IF i = -1 THEN NULL ELSE m.slot[i].pointer

\* The first free slot at or cyclically after i.
NextFree(m, i) ==
  LET free == {d \in 0 .. m.cap - 1 : m.slot[(i + d) % m.cap].key = NULL}
  IN  (i + Min(free)) % m.cap

\* Mutant of SpPlace: what was linked in after the main position is lost.
SpPlaceUnlinked(m, k, v) ==
  LET h == hash[k] % m.cap
      e == NextFree(m, (h + 1) % m.cap)
  IN  [cap |-> m.cap, size |-> m.size + 1,
       slot |-> IF m.slot[h].key = NULL
                THEN [m.slot EXCEPT ![h].key = k, ![h].pointer = v]
                ELSE [m.slot EXCEPT ![e].key = k, ![e].pointer = v, ![h].next = e + 1]]

\* The new entry goes to its main position or is linked in right after it.
SpPlace(m, k, v) ==
  LET h == hash[k] % m.cap
      e == NextFree(m, (h + 1) % m.cap)
  IN  [cap |-> m.cap, size |-> m.size + 1,
       slot |-> IF m.slot[h].key = NULL
                THEN [m.slot EXCEPT ![h].key = k, ![h].pointer = v]
                ELSE [m.slot EXCEPT ![e] = [key |-> k, pointer |-> v,
                                            next |-> m.slot[h].next],
                                    ![h].next = e + 1]]

SpRehash(m) ==
  LET put[i \in 0 .. m.size] ==
        IF i = 0 THEN FreeMap(2 * m.cap)
        ELSE SpPlace(put[i - 1], m.slot[i - 1].key, m.slot[i - 1].pointer)
  IN  put[m.size]

SpInsert(m, k, v) == SpPlace(IF m.cap > m.size THEN m ELSE SpRehash(m), k, v)

\* The caller writes the value through the pointer it gets, at once.
SpQueryInsert(m, k, v) ==
  LET i == SpFind(m, k)
  IN  IF i # -1 THEN [m EXCEPT !.slot[i].pointer = v]
      ELSE SpPlace(IF m.cap > m.size THEN m ELSE SpRehash(m), k, v)

\* _pbcM_sp_next from the key of the last round, NULL to begin and at the end.
SpNext(m, k) ==
  LET from  == IF k = NULL THEN 0 ELSE SpFind(m, k) + 1
      later == {i \in from .. m.cap - 1 : m.slot[i].pointer # NULL}
  IN  IF later = {} \/ (k # NULL /\ from = 0) THEN NULL ELSE m.slot[Min(later)].key

----------------------------------------------------------------------------
(***************************************************************************)
(* The closed tables: a slot for each row.  A row whose main position is   *)
(* taken goes to the lowest free slot and is linked in after the main one. *)
(***************************************************************************)
ClosedInsert(slots, h, row) ==
  LET e == Min({i \in DOMAIN slots : slots[i].pointer = NULL})
  IN  IF slots[h].pointer = NULL
      THEN [slots EXCEPT ![h].id = row.id, ![h].pointer = row.pointer]
      ELSE [slots EXCEPT ![e] = [id |-> row.id, pointer |-> row.pointer,
                                 next |-> slots[h].next],
                         ![h].next = e + 1]

\* Row i has its main position at home[i].
ClosedTable(rows, home) ==
  LET n     == Len(rows)
      empty == [i \in 0 .. n - 1 |-> [id |-> 0, pointer |-> NULL, next |-> 0]]
      put[i \in 0 .. n] ==
        IF i = 0 THEN empty ELSE ClosedInsert(put[i - 1], home[i], rows[i])
  IN  put[n]

\* (unsigned)id % size for a 32-bit id.
UnsignedMod(id, size) ==
  IF id >= 0 THEN id % size
  ELSE ((id % size) + ((65536 % size) * (65536 % size))) % size

IpNewHash(rows) ==
  [array |-> <<>>, hash_size |-> Len(rows),
   slot |-> ClosedTable(rows, [i \in 1 .. Len(rows) |-> UnsignedMod(rows[i].id, Len(rows))])]

\* Mutant of IpNew: negative ids are not looked for.
IpNewUnsigned(rows) ==
  LET ids == {rows[i].id : i \in DOMAIN rows}
      max == Max(ids \cup {0})
      Of(i) == Max({j \in DOMAIN rows : rows[j].id = i})
  IN  IF max > Len(rows) * 2 THEN IpNewHash(rows)
      ELSE [array |-> [i \in 0 .. max |-> IF i \in ids THEN rows[Of(i)].pointer ELSE NULL],
            hash_size |-> Len(rows), slot |-> <<>>]

\* An array when the largest id is at most twice the rows and none is negative.
IpNew(rows) ==
  LET size == Len(rows)
      ids  == {rows[i].id : i \in 1 .. size}
      max  == Max(ids)
      last(i) == Max({j \in 1 .. size : rows[j].id = i})
  IN  IF max > size * 2 \/ Min(ids) < 0 THEN IpNewHash(rows)
      ELSE [array |-> [i \in 0 .. max |-> IF i \in ids THEN rows[last(i)].pointer ELSE NULL],
            hash_size |-> size, slot |-> <<>>]

IpQuery(m, id) ==
  IF m.array # <<>>
  THEN IF id \in DOMAIN m.array THEN m.array[id] ELSE NULL
  ELSE LET i == Found(m.slot, m.hash_size, UnsignedMod(id, m.hash_size),
                      {j \in DOMAIN m.slot : m.slot[j].id = id})
       IN  IF i = -1 THEN NULL ELSE m.slot[i].pointer

\* _inject: the rows of a map in the order of its array or of its slots.
Inject(m) ==
  LET used   == {i \in DOMAIN m.array : m.array[i] # NULL}
      nth(n) == CHOOSE i \in used : Cardinality({j \in used : j < i}) = n - 1
  IN  IF m.array # <<>>
      THEN [n \in 1 .. m.hash_size |->
              IF n <= Cardinality(used) THEN [id |-> nth(n), pointer |-> m.array[nth(n)]]
              ELSE [id |-> 0, pointer |-> NULL]]
      ELSE [n \in 1 .. m.hash_size |->
              [id |-> m.slot[n - 1].id, pointer |-> m.slot[n - 1].pointer]]

IpCombine(a, b) == IpNew(Inject(a) \o Inject(b))

\* map_si: the key of a row is what the hash is taken of.
SiNew(rows) ==
  ClosedTable(rows, [i \in 1 .. Len(rows) |-> hash[rows[i].pointer] % Len(rows)])

SiFind(slots, k) ==
  LET n == Cardinality(DOMAIN slots)
  IN  Found(slots, n, hash[k] % n, {i \in DOMAIN slots : slots[i].pointer = k})

----------------------------------------------------------------------------
MapInit ==
  /\ hash \in [Keys -> Hashes]
  /\ sp = NoMap /\ ip = NULL /\ ipRows = {} /\ si = NULL

SpOpen ==
  /\ sp = NoMap
  /\ \E max \in Caps : sp' = SpNew(max)
  /\ UNCHANGED <<hash, ip, ipRows, si>>

\* The callers of _pbcM_sp_insert have looked the key up and not found it.
SpAdd(k, v) ==
  /\ sp # NoMap /\ SpQuery(sp, k) = NULL
  /\ sp' = SpInsert(sp, k, v)
  /\ UNCHANGED <<hash, ip, ipRows, si>>

\* The callers of _pbcM_sp_query_insert set the value only if it was null.
SpEnsure(k, v) ==
  /\ sp # NoMap
  /\ sp' = SpQueryInsert(sp, k, IF SpQuery(sp, k) = NULL THEN v ELSE SpQuery(sp, k))
  /\ UNCHANGED <<hash, ip, ipRows, si>>

\* Rows of distinct ids, none of them among taken, in any order.
Tables(taken) ==
  {rows \in UNION {[1 .. n -> [id : Ids \ taken, pointer : Values]] : n \in 1 .. MaxRows} :
     \A i, j \in DOMAIN rows : rows[i].id = rows[j].id => i = j}

IpOpen ==
  /\ ip = NULL
  /\ \E rows \in Tables({}) :
       /\ ip' = IpNew(rows)
       /\ ipRows' = {rows[i] : i \in DOMAIN rows}
  /\ UNCHANGED <<hash, sp, si>>

\* A later definition of fields for the same message.
IpMerge ==
  /\ ip # NULL
  /\ \E rows \in Tables({r.id : r \in ipRows}) :
       /\ ip' = IpCombine(ip, IpNew(rows))
       /\ ipRows' = ipRows \cup {rows[i] : i \in DOMAIN rows}
  /\ Cardinality(ipRows) < 2 * MaxRows
  /\ UNCHANGED <<hash, sp, si>>

\* Enum names: distinct keys with any ids.
SiOpen ==
  /\ si = NULL
  /\ \E n \in 1 .. MaxRows : \E k \in Injection(1 .. n, Keys) :
       LET rows == [i \in 1 .. n |-> [id |-> i, pointer |-> k[i]]]
       IN  si' = [slot |-> SiNew(rows), rows |-> {rows[i] : i \in 1 .. n}]
  /\ UNCHANGED <<hash, sp, ip, ipRows>>

MapNext ==
  \/ SpOpen
  \/ \E k \in Keys, v \in Values : SpAdd(k, v) \/ SpEnsure(k, v)
  \/ IpOpen \/ IpMerge \/ SiOpen

MapSpec == MapInit /\ [][MapNext]_mapVars

----------------------------------------------------------------------------
Present == IF sp = NoMap THEN {} ELSE {k \in Keys : SpFind(sp, k) # -1}

Dict == INSTANCE PbcDict WITH
          Key <- Keys, Value <- Values, dict <- [k \in Present |-> SpQuery(sp, k)]

(***************************************************************************)
(* map_sp implements a dictionary: whatever collides and however often the *)
(* table doubles, an insertion makes one key findable and keeps every      *)
(* other with its value (_pbcM_sp_insert, query_insert, rehash, query).    *)
(***************************************************************************)
SpIsADictionary == Dict!DictSpec

\* n rounds of the walk from the start meet n keys, and then it is over.
WalkMeetsAll ==
  sp # NoMap =>
    LET n == Cardinality(Present)
        at[i \in 0 .. n] == IF i = 0 THEN SpNext(sp, NULL) ELSE SpNext(sp, at[i - 1])
    IN  /\ {at[i] : i \in 0 .. n - 1} = Present
        /\ at[n] = NULL
        /\ sp.size = n

IpAnswers ==
  ip # NULL =>
    \A id \in Ids :
      LET r == {x \in ipRows : x.id = id}
      IN  IpQuery(ip, id) = IF r = {} THEN NULL ELSE (CHOOSE x \in r : TRUE).pointer

SiAnswers ==
  si # NULL =>
    \A k \in Keys :
      LET r == {x \in si.rows : x.pointer = k}
          i == SiFind(si.slot, k)
      IN  IF r = {} THEN i = -1 ELSE i # -1 /\ [id |-> si.slot[i].id, pointer |-> k] \in r

(***************************************************************************)
(* The tables answer for exactly what was put in: the walk of              *)
(* _pbcM_sp_next (pbc_rmessage_next) meets every key once and ends, map_ip *)
(* finds every field by its number, whether it is an array, a hash, or two *)
(* of either kind combined, and map_si every enum value by its name; what  *)
(* was never inserted is not found.                                        *)
(***************************************************************************)
TablesAnswer == WalkMeetsAll /\ IpAnswers /\ SiAnswers
=============================================================================
