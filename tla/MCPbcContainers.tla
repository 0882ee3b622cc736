-------------------------- MODULE MCPbcContainers --------------------------
(***************************************************************************)
(* The containers of pbc, one exercised at a time: they share no state, so *)
(* their states add up instead of multiplying.                             *)
(***************************************************************************)
EXTENDS PbcMap, PbcStore

SmallIds == {-1, 1, 2, 3, 9}

Fresh(x) ==
  CASE x = "sp" -> sp = NoMap [] x = "ip" -> ip = NULL [] x = "si" -> si = NULL
    [] x = "arr" -> arr.number = 0 [] x = "pool" -> pool.strings = <<>>
    [] x = "heap" -> heap.blocks = <<>>

\* Only the tables of strings hash them: the others run under one hash.
Only(x) ==
  /\ x \in {"sp", "si"} => inner = 1
  /\ x \notin {"sp", "si"} => hash = [k \in Keys |-> 0]
  /\ \A y \in {"sp", "ip", "si", "arr", "pool", "heap"} \ {x} : Fresh(y)

ContainersInit == MapInit /\ StoreInit

Sp == SpOpen \/ \E k \in Keys, v \in Values : SpAdd(k, v) \/ SpEnsure(k, v)

ContainersNext ==
  \/ Only("sp") /\ Sp /\ UNCHANGED storeVars
  \/ Only("ip") /\ (IpOpen \/ IpMerge) /\ UNCHANGED storeVars
  \/ Only("si") /\ SiOpen /\ UNCHANGED storeVars
  \/ Only("arr") /\ Push /\ UNCHANGED mapVars
  \/ Only("pool") /\ (\E sz \in StringSizes : Build(sz)) /\ UNCHANGED mapVars
  \/ Only("heap") /\ (\E sz \in BlockSizes : Alloc(sz)) /\ UNCHANGED mapVars
=============================================================================
