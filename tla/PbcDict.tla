------------------------------ MODULE PbcDict ------------------------------
(***************************************************************************)
(* What a table of pbc/src/map.c promises: a partial function, to which a  *)
(* key is added once and from which nothing is ever removed.               *)
(***************************************************************************)
CONSTANTS Key, Value

VARIABLE dict    \* from the keys present to their values

DictInit == dict = [k \in {} |-> k]

Add(k, v) ==
  /\ k \notin DOMAIN dict
  /\ dict' = [x \in DOMAIN dict \cup {k} |-> IF x = k THEN v ELSE dict[x]]

DictNext == \E k \in Key, v \in Value : Add(k, v)

DictSpec == DictInit /\ [][DictNext]_dict
=============================================================================
