---------------------------- MODULE MCSequential ----------------------------
(***************************************************************************)
(* The parts of the program that run without interleaving, in one run: the *)
(* containers, the registry and the messages of pbc, cjson, the tiles of a *)
(* mahjong player and the scores of a round.  They share no state, so      *)
(* focus names the one that is exercised and their states add up instead   *)
(* of multiplying.                                                         *)
(***************************************************************************)
EXTENDS MCPbcContainers, MCPbcRegistry, MCPbcMessage, MCCjson, MCMahjongHand, MahjongScore

VARIABLE focus

ContainerVars == <<mapVars, storeVars>>
seqVars == <<focus, ContainerVars, regVars, msgVars, jsonVars, handVars, scoreVars>>

\* What is not exercised starts in one way only, and no hand is being played.
NoHand ==
  /\ hand = <<>> /\ drawn = 0 /\ holds = <<>> /\ noDeal = 0 /\ phase = "over"
  /\ asked = 0 /\ offer = {} /\ left = [t \in Tiles |-> 0] /\ turns = 0
OneStart ==
  /\ focus # "containers" => inner = 1 /\ hash = [k \in Keys |-> 0]
  /\ focus # "scores" => ~paid

Init ==
  /\ focus \in {"containers", "registry", "messages", "json", "tiles", "scores"}
  /\ ContainersInit /\ RegInit /\ MsgInit /\ JsonInit /\ ScoreInit
  /\ IF focus = "tiles" THEN TilesInit ELSE NoHand
  /\ OneStart

Next ==
  /\ UNCHANGED focus
  /\ \/ /\ focus = "containers" /\ ContainersNext
        /\ UNCHANGED <<regVars, msgVars, jsonVars, handVars, scoreVars>>
     \/ /\ focus = "registry" /\ RegNext
        /\ UNCHANGED <<ContainerVars, msgVars, jsonVars, handVars, scoreVars>>
     \/ /\ focus = "messages" /\ MsgNext
        /\ UNCHANGED <<ContainerVars, regVars, jsonVars, handVars, scoreVars>>
     \/ /\ focus = "json" /\ JsonNext
        /\ UNCHANGED <<ContainerVars, regVars, msgVars, handVars, scoreVars>>
     \/ /\ focus = "tiles" /\ TilesStep
        /\ UNCHANGED <<ContainerVars, regVars, msgVars, jsonVars, scoreVars>>
     \/ /\ focus = "scores" /\ ScoreNext
        /\ UNCHANGED <<ContainerVars, regVars, msgVars, jsonVars, handVars>>

Spec == Init /\ [][Next]_seqVars
=============================================================================
