--------------------------- MODULE GoldRoomProofs ---------------------------
(***************************************************************************)
(* Proofs about gold rooms, for any number of players, tables and seats.   *)
(* First, the ctrl's lock keeps two players from being on the way to the   *)
(* same table, however clients overlap their leave requests.  Then, for    *)
(* clients that have one leave under way at a time, the counts are exact,  *)
(* seats match the players, and userdata, ctrl and tables agree on where   *)
(* a player is.                                                            *)
(***************************************************************************)
EXTENDS GoldRoom, FiniteSetTheorems, WellFoundedInduction, TLAPS

(* The variables the argument is about. *)
RouteType ==
  /\ req \in [User -> Requests] /\ target \in [User -> TableOrNone]
  /\ state \in [Table -> States]
  /\ free \subseteq Table /\ locked \subseteq Table

(* A request that has been given a table: while the table's service starts *)
(* and until its answer has been handled.                                  *)
Routed(u) == req[u] \in {"service", "table", "joined"}

RouteInv ==
  /\ \A u \in User : Routed(u) => target[u] \in Table /\ state[target[u]] # "none"
  /\ \A t \in free : state[t] # "none"
  /\ \A u \in User : OnTheWay(u) => target[u] \in locked
  /\ \A u \in User : req[u] = "service" => target[u] \notin free
  /\ \A u, v \in User : Routed(u) /\ Routed(v) /\ target[u] = target[v] => u = v

IInv == RouteType /\ RouteInv

(* Tables come to life and never go back. *)
TablesStay == \A t \in Table : state[t] # "none" => state'[t] # "none"

-----------------------------------------------------------------------------

LEMMA InitIInv == Init => IInv
  BY DEF Init, IInv, RouteType, RouteInv, Routed, OnTheWay, Requests, States, TableOrNone

(* Steps that leave the requests and the ctrl's tables alone. *)
LEMMA QuietStep ==
  ASSUME IInv, UNCHANGED <<req, target, locked>>, free' \subseteq free,
         state' \in [Table -> States], TablesStay
  PROVE  IInv'
  <1>1. RouteType'
    BY DEF IInv, RouteType
  <1>2. RouteInv'
    BY DEF IInv, RouteType, RouteInv, Routed, OnTheWay, TablesStay
  <1> QED BY <1>1, <1>2 DEF IInv

(* Steps that end a request or keep it from being routed. *)
LEMMA UnroutedStep ==
  ASSUME IInv, NEW u \in User, NEW r \in {"none", "ctrl", "refused", "back"},
         req' = [req EXCEPT ![u] = r],
         target' = target \/ target' = [target EXCEPT ![u] = None],
         free' = free, locked \ {target[u]} \subseteq locked', locked' \subseteq locked,
         locked' = locked \/ req[u] = "joined",
         state' \in [Table -> States], TablesStay
  PROVE  IInv'
  <1> USE DEF IInv, RouteType
  <1>1. RouteType'
    BY DEF Requests, TableOrNone
  <1>2. \A v \in User : Routed(v)' => v # u /\ Routed(v) /\ target'[v] = target[v]
    BY DEF Routed, Requests
  <1>3. \A v \in User : OnTheWay(v)' => v # u /\ OnTheWay(v) /\ target'[v] = target[v]
    BY DEF OnTheWay, Requests
  <1>4. \A v \in User : req'[v] = "service" => v # u /\ req[v] = "service" /\ target'[v] = target[v]
    BY DEF Requests
  <1>5. \A v \in User : OnTheWay(v)' => target'[v] \in locked'
    BY <1>3 DEF RouteInv, Routed, OnTheWay
  <1>6. \A v \in User : Routed(v)' => target'[v] \in Table /\ state'[target'[v]] # "none"
    BY <1>2 DEF RouteInv, TablesStay
  <1>7. \A v, w \in User : Routed(v)' /\ Routed(w)' /\ target'[v] = target'[w] => v = w
    BY <1>2 DEF RouteInv
  <1>8. \A t \in free' : state'[t] # "none"
    BY DEF RouteInv, TablesStay
  <1>9. \A v \in User : req'[v] = "service" => target'[v] \notin free'
    BY <1>4 DEF RouteInv
  <1>10. RouteInv'
    BY <1>5, <1>6, <1>7, <1>8, <1>9 DEF RouteInv
  <1> QED BY <1>1, <1>10

-----------------------------------------------------------------------------
(* The steps of a join, one by one. *)

LEMMA CtrlJoinStep == ASSUME IInv, NEW u \in User, CtrlJoin(u) PROVE IInv'
  <1> USE DEF IInv, RouteType
  <1>1. CASE req' = [req EXCEPT ![u] = "none"] /\ UNCHANGED <<target, locked, state>>
    <2>1. free' = free /\ TablesStay
      BY <1>1 DEF CtrlJoin, TablesStay
    <2> QED BY <1>1, <2>1, UnroutedStep
  <1>2. ASSUME NEW t \in Candidates, SendTo(u, t), UNCHANGED <<free, state>>
        PROVE  IInv'
    <2>1. t \in Table /\ t \in free /\ t \notin locked
      BY <1>2 DEF Candidates
    <2>2. \A v \in User : Routed(v) => target[v] # t
      BY <2>1 DEF RouteInv, Routed, OnTheWay
    <2>3. RouteType'
      BY <1>2, <2>1 DEF SendTo, Requests, TableOrNone
    <2>4. RouteInv'
      BY <1>2, <2>1, <2>2 DEF SendTo, RouteInv, Routed, OnTheWay
    <2> QED BY <2>3, <2>4
  <1>3. ASSUME NEW t \in Table, state[t] = "none", state' = [state EXCEPT ![t] = "new"],
               target' = [target EXCEPT ![u] = t], req' = [req EXCEPT ![u] = "service"],
               UNCHANGED <<locked, free>>
        PROVE  IInv'
    <2>1. t \notin free /\ \A v \in User : Routed(v) => target[v] # t
      BY <1>3 DEF RouteInv
    <2>2. RouteType'
      BY <1>3 DEF Requests, TableOrNone, States
    <2>3. RouteInv'
      BY <1>3, <2>1 DEF RouteInv, Routed, OnTheWay
    <2> QED BY <2>2, <2>3
  <1> QED BY <1>1, <1>2, <1>3 DEF CtrlJoin

LEMMA CtrlNewTableStep == ASSUME IInv, NEW u \in User, CtrlNewTable(u) PROVE IInv'
  <1> USE DEF IInv, RouteType
  <1>1. Routed(u) /\ target[u] \in Table /\ state[target[u]] # "none" /\ UNCHANGED state
    BY DEF CtrlNewTable, tableVars, RouteInv, Routed
  <1>2. RouteType'
    BY <1>1 DEF CtrlNewTable, SendTo, Requests, TableOrNone
  <1>3. RouteInv'
    BY <1>1 DEF CtrlNewTable, SendTo, RouteInv, Routed, OnTheWay
  <1> QED BY <1>2, <1>3

LEMMA TableJoinStep == ASSUME IInv, NEW u \in User, TableJoin(u) PROVE IInv'
  <1> USE DEF IInv, RouteType
  <1>1. UNCHANGED <<target, free, locked>>
    BY DEF TableJoin, ctrlVars
  <1>2. state' \in [Table -> States] /\ TablesStay
    BY DEF TableJoin, Admit, States, TablesStay
  <1>3. CASE req' = [req EXCEPT ![u] = "refused"]
    BY <1>1, <1>2, <1>3, UnroutedStep
  <1>4. CASE req' = [req EXCEPT ![u] = "joined"]
    <2>1. req[u] = "table"
      BY DEF TableJoin
    <2>2. RouteType'
      BY <1>1, <1>2, <1>4 DEF Requests
    <2>3. \A v \in User : Routed(v)' <=> Routed(v)
      BY <1>4, <2>1 DEF Routed, Requests
    <2>4. \A v \in User : OnTheWay(v)' <=> OnTheWay(v)
      BY <1>4, <2>1 DEF OnTheWay, Requests
    <2>5. \A v \in User : req'[v] = "service" => req[v] = "service"
      BY <1>4 DEF Requests
    <2>6. RouteInv'
      BY <1>1, <1>2, <2>3, <2>4, <2>5 DEF RouteInv, TablesStay
    <2> QED BY <2>2, <2>6
  <1> QED BY <1>3, <1>4 DEF TableJoin, Admit

(* The lock is released by the only request that holds it. *)
LEMMA CtrlJoinedStep == ASSUME IInv, NEW u \in User, CtrlJoined(u) PROVE IInv'
  <1> USE DEF IInv, RouteType
  <1>1. UNCHANGED <<target, free, state>> /\ req' = [req EXCEPT ![u] = "back"]
    BY DEF CtrlJoined, tableVars
  <1>2. req[u] = "joined" /\ locked' = locked \ {target[u]}
    BY DEF CtrlJoined
  <1>3. TablesStay
    BY <1>1 DEF TablesStay
  <1> QED BY <1>1, <1>2, <1>3, UnroutedStep

LEMMA AnswerStep ==
  ASSUME IInv, NEW u \in User, ReqJoin(u) \/ CtrlRefused(u) \/ JoinReply(u) PROVE IInv'
  <1> USE DEF IInv, RouteType
  <1>1. UNCHANGED <<free, locked, state>>
    BY DEF ReqJoin, CtrlRefused, JoinReply, ctrlVars, tableVars
  <1>2. TablesStay
    BY <1>1 DEF TablesStay
  <1>3. CASE ReqJoin(u)
    BY <1>1, <1>2, <1>3, UnroutedStep DEF ReqJoin
  <1>4. CASE CtrlRefused(u)
    BY <1>1, <1>2, <1>4, UnroutedStep DEF CtrlRefused
  <1>5. CASE JoinReply(u)
    BY <1>1, <1>2, <1>5, UnroutedStep DEF JoinReply
  <1> QED BY <1>3, <1>4, <1>5

(* Leaving, games and the end of tables do not touch requests or locks. *)
LEMMA TableStep ==
  ASSUME IInv, NEW t \in Table,
         \/ \E u \in User : \/ Leave(t, u) \/ KickIdle(t, u)
                            \/ \E k \in Slots : ReqLeave(t, u, k)
         \/ StartGame(t) \/ EndGame(t) \/ Expire(t) \/ FreeTable(t)
  PROVE  IInv'
  <1> DEFINE Quiet == /\ UNCHANGED <<req, target, locked>> /\ free' \subseteq free
                      /\ state' \in [Table -> States] /\ TablesStay
  <1> USE DEF IInv, RouteType, States, TablesStay, dataVars, ctrlVars
  <1>1. ASSUME NEW u \in User, NEW k \in Slots,
               ReqLeave(t, u, k) \/ LeaveKick(t, u, k) \/ LeaveTell(t, u, k)
        PROVE  Quiet
    BY <1>1 DEF ReqLeave, LeaveKick, LeaveTell
  <1>2. ASSUME NEW u \in User, NEW k \in Slots, LeaveData(t, u, k)
        PROVE  Quiet
    BY <1>2 DEF LeaveData
  <1>3. ASSUME NEW u \in User, NEW k \in Slots, LeaveDone(t, u, k)
        PROVE  Quiet
    BY <1>3 DEF LeaveDone, LogicFree
  <1>4. ASSUME NEW u \in User, KickIdle(t, u) PROVE Quiet
    BY <1>4 DEF KickIdle
  <1>5. ASSUME StartGame(t) \/ EndGame(t) \/ Expire(t) PROVE Quiet
    BY <1>5 DEF StartGame, EndGame, Expire
  <1>6. ASSUME NEW u \in User, FreeTell(t, u) \/ FreeKick(t, u) PROVE Quiet
    BY <1>6 DEF FreeTell, FreeKick
  <1>7. ASSUME FreeEnd(t) \/ CtrlFree(t) PROVE Quiet
    BY <1>7 DEF FreeEnd, CtrlFree, LogicFree
  <1>8. Quiet
    BY <1>1, <1>2, <1>3, <1>4, <1>5, <1>6, <1>7 DEF Leave, FreeTable
  <1> QED BY <1>8, QuietStep

LEMMA NextIInv == IInv /\ [Next]_vars => IInv'
  <1> SUFFICES ASSUME IInv, [Next]_vars PROVE IInv'
    OBVIOUS
  <1>1. ASSUME NEW u \in User, ReqJoin(u) \/ Join(u) PROVE IInv'
    BY <1>1, CtrlJoinStep, CtrlNewTableStep, TableJoinStep, CtrlJoinedStep, AnswerStep DEF Join
  <1>2. ASSUME NEW t \in Table,
               \/ \E u \in User : \/ Leave(t, u) \/ KickIdle(t, u)
                                  \/ \E k \in Slots : ReqLeave(t, u, k)
               \/ StartGame(t) \/ EndGame(t) \/ Expire(t) \/ FreeTable(t)
        PROVE  IInv'
    BY <1>2, TableStep
  <1>3. CASE UNCHANGED vars
    BY <1>3 DEF vars, dataVars, ctrlVars, tableVars, IInv, RouteType, RouteInv, Routed, OnTheWay
  <1> QED BY <1>1, <1>2, <1>3 DEF Next

(* No two players are ever on the way to the same table (ctrl.lua, lock,   *)
(* unlock and check_lock around the blocking call of the table's join).    *)
THEOREM MutualExclusion == Spec => []JoinMutex
  <1>1. IInv => JoinMutex
    BY DEF IInv, RouteInv, JoinMutex, Routed, OnTheWay
  <1> QED BY InitIInv, NextIInv, <1>1, PTL DEF Spec

-----------------------------------------------------------------------------
(* Where players are.  The rest of the module takes a client that has one  *)
(* leave under way at a time (Width = 1).  The invariant says, per table   *)
(* and per player, how far a leave, a kick, a join and an end of the table *)
(* may have come while the others are under way.                           *)

(* The player is at the table, and free_table has not removed the player.  *)
Present(t, u) == /\ u \in members[t]
                 /\ state[t] = "open" \/ (state[t] = "freeing" /\ u \in todo[t])

LeavingTable(t, u) == \E k \in Slots : leaving[t][u][k] # "none"
Told(t, u)         == \E k \in Slots : leaving[t][u][k] = "told"

(* The ctrl has been told of the leave. *)
Unregistered(t, u) == \E k \in Slots : leaving[t][u][k] \in {"kicked", "data", "told"}

(* The table may still change the player's data or the ctrl's list. *)
Tied(t, u) == Present(t, u) \/ LeavingTable(t, u) \/ visiting[t] = u

(* A request that has brought the player to no table so far. *)
Asking(u) == req[u] \in {"ctrl", "service", "table", "refused"}

(* A table runs one leave of a player at a time, and only of its players:  *)
(* a kick takes p.seatid away, so that reqLeaveTable fails.                *)
LeaveOf(t, u) ==
  /\ \A j, k \in Slots : leaving[t][u][j] # "none" /\ leaving[t][u][k] # "none" => j = k
  /\ Running(t) /\ LeavingTable(t, u) => u \in members[t]
  /\ Running(t) /\ leaving[t][u][0] # "none" => seatid[t][u] = 0
  /\ Asking(u) => ~LeavingTable(t, u) /\ ~(state[t] = "open" /\ u \in members[t])
  /\ state[t] \in {"none", "new"} => ~LeavingTable(t, u)

(* The seats of an open table are those of its players who are not leaving.*)
Seated(t) ==
  /\ \A i \in 1..Seats, u \in User : seat[t][i] = u =>
       u \in members[t] /\ seatid[t][u] = i /\ ~LeavingTable(t, u)
  /\ \A u \in members[t] : ~LeavingTable(t, u) =>
       seatid[t][u] # 0 /\ seat[t][seatid[t][u]] = u

(* Players counted and seated; a table that is freed counts too many when a*)
(* player it has told joins it again.                                      *)
TableOf(t) ==
  /\ IsFiniteSet(members[t])
  /\ Running(t) => count[t] >= Cardinality(members[t])
  /\ state[t] = "open" => count[t] = Cardinality(members[t]) /\ Seated(t)
  /\ state[t] \in {"none", "new"} =>
       members[t] = {} /\ count[t] = 0 /\ \A i \in 1..Seats : seat[t][i] = None
  /\ state[t] \in {"freed", "gone"} => members[t] = {}
  /\ visiting[t] # None => state[t] \in {"freeing", "freed", "gone"}

(* What userdata and the ctrl know of a player whose messages never cross: *)
(* one table at most can still tell them something, and it is the table    *)
(* they name.                                                              *)
PlaceOf(u) ==
  /\ \A t, s \in Table : Tied(t, u) /\ Tied(s, u) => t = s
  /\ Asking(u) => \A t \in Table : ~Tied(t, u)
  /\ \A t \in Table : at[u] = t => Present(t, u) /\ visiting[t] # u /\ ~Told(t, u)
  /\ \A t \in Table : Present(t, u) /\ req[u] = "none" /\ at[u] = None
                        => Told(t, u) \/ visiting[t] = u
  /\ \A t \in Table : req[u] = "joined" /\ target[u] = t => Present(t, u) /\ ~Unregistered(t, u)
  /\ u \in players <=> /\ req[u] # "joined"
                       /\ \E t \in Table : Present(t, u) /\ ~Unregistered(t, u)

RequestOf(u) ==
  /\ req[u] # "none" => at[u] = None
  /\ req[u] \in {"service", "table", "joined", "back"} => target[u] \in Table

(* user_count never falls below the players listed. *)
RegisterInv == IsFiniteSet(players) /\ userCount >= Cardinality(players)
RequestInv  == \A u \in User : RequestOf(u)
TInv        == TypeOK /\ RequestInv /\ RegisterInv

LeaveInv == \A t \in Table, u \in User : LeaveOf(t, u)
TableInv == \A t \in Table : TableOf(t)
PlaceInv == \A u \in User \ late : PlaceOf(u)

PInv == Width = 1 /\ TInv /\ LeaveInv /\ TableInv /\ PlaceInv /\ UserCountExact

-----------------------------------------------------------------------------
(* The type. *)

LEMMA InitTypeOK == Init => TypeOK
  BY RoomAssumption DEF Init, TypeOK, TableOrNone, UserOrNone, Requests, States, Leaves, Slots

LEMMA LeastNatural ==
  ASSUME NEW S \in SUBSET Nat, S # {}
  PROVE  \E i \in S : \A j \in S : i <= j
  <1> DEFINE R == {p \in Nat \X Nat : p[1] < p[2]}
  <1>1. IsWellFoundedOn(R, Nat)
    BY NatLessThanWellFounded DEF OpToRel
  <1>2. PICK i \in S : \A j \in S : ~ (<<j, i>> \in R)
    <2> HIDE DEF R
    <2> QED BY <1>1, WFMin, Zenon
  <1>3. ASSUME NEW j \in S, j < i PROVE <<j, i>> \in R
    BY <1>3
  <1>4. \A j \in S : ~(j < i)
    <2> HIDE DEF R
    <2> QED BY <1>2, <1>3
  <1> QED BY <1>4

(* auto_sitdown: the player gets a seat that was free, and no other seat   *)
(* changes hands.                                                          *)
LEMMA SitsDown ==
  ASSUME TypeOK, NEW t \in Table, NEW u \in User, FreeSeats(t) # {}, SitDown(t, u)
  PROVE  \E i \in 1..Seats : /\ seat[t][i] = None
                             /\ seat' = [seat EXCEPT ![t][i] = u]
                             /\ seatid' = [seatid EXCEPT ![t][u] = i]
  <1> DEFINE i == CHOOSE i \in FreeSeats(t) : \A j \in FreeSeats(t) : i <= j
  <1>1. FreeSeats(t) \in SUBSET Nat
    BY RoomAssumption DEF FreeSeats
  <1>2. i \in FreeSeats(t)
    BY <1>1, LeastNatural
  <1>3. seat' = [seat EXCEPT ![t][i] = u] /\ seatid' = [seatid EXCEPT ![t][u] = i]
    BY DEF SitDown
  <1> HIDE DEF i
  <1> QED BY <1>2, <1>3 DEF FreeSeats

(* A coroutine of a table moves on. *)
LEMMA SetLeaving ==
  ASSUME TypeOK, NEW t \in Table, NEW u \in User, NEW k \in Slots, NEW x \in Leaves,
         leaving' = [leaving EXCEPT ![t][u][k] = x]
  PROVE  /\ leaving' \in [Table -> [User -> [Slots -> Leaves]]]
         /\ leaving'[t][u][k] = x
         /\ \A s \in Table, v \in User, j \in Slots :
              s # t \/ v # u \/ j # k => leaving'[s][v][j] = leaving[s][v][j]
  BY DEF TypeOK

-----------------------------------------------------------------------------
(* The two actions with several outcomes, outcome by outcome.              *)

Refusal(u) ==
  /\ req' = [req EXCEPT ![u] = "refused"]
  /\ UNCHANGED <<state, members, count, seat, seatid, todo, late>>

Admission(t, u) ==
  /\ state[t] \in {"new", "open", "freeing"} /\ count[t] < Seats
  /\ members' = [members EXCEPT ![t] = members[t] \cup {u}]
  /\ count' = [count EXCEPT ![t] = count[t] + 1]
  /\ \/ /\ FreeSeats(t) = {} /\ req' = [req EXCEPT ![u] = "refused"]
        /\ UNCHANGED <<seat, seatid>>
     \/ /\ req' = [req EXCEPT ![u] = "joined"]
        /\ \E i \in 1..Seats : /\ seat[t][i] = None
                               /\ seat' = [seat EXCEPT ![t][i] = u]
                               /\ seatid' = [seatid EXCEPT ![t][u] = i]
  /\ \/ /\ state[t] # "freeing" /\ state' = [state EXCEPT ![t] = "open"]
        /\ UNCHANGED <<todo, late>>
     \/ /\ state[t] = "freeing" /\ late' = late \cup {u} /\ UNCHANGED state
        /\ todo' = todo \/ todo' = [todo EXCEPT ![t] = todo[t] \cup {u}]

LEMMA TableJoinOutcomes ==
  ASSUME TypeOK, RequestInv, NEW u \in User, TableJoin(u)
  PROVE  /\ target[u] \in Table /\ req[u] = "table"
         /\ UNCHANGED <<at, target, ctrlVars, started, leaving, expired, visiting>>
         /\ Refusal(u) \/ Admission(target[u], u)
  <1> DEFINE t == target[u]
  <1>1. /\ t \in Table /\ req[u] = "table"
        /\ UNCHANGED <<at, target, ctrlVars, started, leaving, expired, visiting>>
    BY DEF TableJoin, RequestInv, RequestOf
  <1>2. \/ Refusal(u)
        \/ state[t] \in {"new", "open", "freeing"} /\ count[t] < Seats /\ Admit(t, u)
    BY DEF TableJoin, Refusal
  <1>3. ASSUME state[t] \in {"new", "open", "freeing"}, count[t] < Seats, Admit(t, u)
        PROVE  Admission(t, u)
    <2>1. /\ members' = [members EXCEPT ![t] = members[t] \cup {u}]
          /\ count' = [count EXCEPT ![t] = count[t] + 1]
      BY <1>3 DEF Admit
    <2>2. \/ /\ FreeSeats(t) = {} /\ req' = [req EXCEPT ![u] = "refused"]
             /\ UNCHANGED <<seat, seatid>>
          \/ /\ req' = [req EXCEPT ![u] = "joined"]
             /\ FreeSeats(t) # {} /\ SitDown(t, u)
      BY <1>3 DEF Admit, SitDown
    <2>3. \/ /\ state[t] # "freeing" /\ state' = [state EXCEPT ![t] = "open"]
             /\ UNCHANGED <<todo, late>>
          \/ /\ state[t] = "freeing" /\ late' = late \cup {u} /\ UNCHANGED state
             /\ todo' = todo \/ todo' = [todo EXCEPT ![t] = todo[t] \cup {u}]
      BY <1>3 DEF Admit
    <2> HIDE DEF t
    <2> QED BY <1>1, <1>3, <2>1, <2>2, <2>3, SitsDown DEF Admission
  <1> QED BY <1>1, <1>2, <1>3

Removal(t, u) ==
  /\ Running(t)
  /\ members' = [members EXCEPT ![t] = members[t] \ {u}]
  /\ seatid' = [seatid EXCEPT ![t][u] = 0]
  /\ count' = [count EXCEPT ![t] = count[t] - 1]
  /\ \/ ~(count[t] - 1 < 1) /\ UNCHANGED <<state, todo, seat>>
     \/ /\ members[t] \ {u} = {} /\ UNCHANGED todo
        /\ state' = [state EXCEPT ![t] = "freed"]
        /\ seat' = [seat EXCEPT ![t] = [i \in 1..Seats |-> None]]
     \/ /\ count[t] - 1 < 1 /\ members[t] \ {u} # {}
        /\ state' = [state EXCEPT ![t] = "freeing"]
        /\ todo' = [todo EXCEPT ![t] = members[t] \ {u}] /\ UNCHANGED seat

LEMMA LeaveDoneOutcomes ==
  ASSUME TypeOK, NEW t \in Table, NEW u \in User, NEW k \in Slots, LeaveDone(t, u, k)
  PROVE  /\ leaving[t][u][k] = "told" /\ leaving' = [leaving EXCEPT ![t][u][k] = "none"]
         /\ UNCHANGED <<at, req, target, ctrlVars, started, expired, visiting, late>>
         /\ \/ ~Running(t) /\ UNCHANGED <<state, members, count, todo, seat, seatid>>
            \/ Removal(t, u)
  <1>1. CASE ~Running(t)
    BY <1>1 DEF LeaveDone, dataVars
  <1>2. CASE Running(t)
    <2>1. /\ members' = [members EXCEPT ![t] = members[t] \ {u}]
          /\ seatid' = [seatid EXCEPT ![t][u] = 0]
          /\ count' = [count EXCEPT ![t] = count[t] - 1]
      BY <1>2 DEF LeaveDone
    <2>2. members'[t] = members[t] \ {u} /\ count'[t] = count[t] - 1
      BY <2>1 DEF TypeOK
    <2>3. CASE ~LastLeft(count'[t])
      BY <1>2, <2>1, <2>2, <2>3 DEF LeaveDone, dataVars, Removal, LastLeft
    <2>4. CASE LastLeft(count'[t]) /\ members'[t] = {}
      BY <1>2, <2>1, <2>2, <2>4 DEF LeaveDone, dataVars, Removal, LastLeft, LogicFree
    <2>5. CASE LastLeft(count'[t]) /\ members'[t] # {}
      <3>1. /\ state' = [state EXCEPT ![t] = "freeing"]
            /\ todo' = [todo EXCEPT ![t] = members[t] \ {u}] /\ UNCHANGED seat
        BY <1>2, <2>2, <2>5 DEF LeaveDone
      <3> QED BY <1>2, <2>1, <2>2, <2>5, <3>1 DEF LeaveDone, dataVars, Removal, LastLeft
    <2> QED BY <2>3, <2>4, <2>5
  <1> QED BY <1>1, <1>2

-----------------------------------------------------------------------------
(* The type is kept. *)

LEMMA JoinTypes ==
  ASSUME TypeOK, RequestInv, NEW u \in User, ReqJoin(u) \/ Join(u)
  PROVE  TypeOK'
  <1> USE DEF TypeOK, Requests, TableOrNone, States, dataVars, ctrlVars, tableVars
  <1>1. CASE ReqJoin(u)
    BY <1>1 DEF ReqJoin
  <1>2. CASE CtrlJoin(u)
    <2>1. UNCHANGED <<at, free, players, userCount, members, count, seat, seatid, started,
                      leaving, expired, todo, visiting, late>>
      BY <1>2 DEF CtrlJoin
    <2>2. /\ req' \in [User -> Requests] /\ target' \in [User -> TableOrNone]
          /\ locked' \subseteq Table
      <3>1. CASE req' = [req EXCEPT ![u] = "none"] /\ UNCHANGED <<target, locked, state>>
        BY <3>1
      <3>2. CASE \E t \in Candidates : SendTo(u, t)
        BY <3>2 DEF SendTo, Candidates
      <3>3. CASE /\ \E t \in Table : target' = [target EXCEPT ![u] = t]
                 /\ req' = [req EXCEPT ![u] = "service"] /\ UNCHANGED locked
        BY <3>3
      <3> QED BY <1>2, <3>1, <3>2, <3>3 DEF CtrlJoin
    <2>3. state' \in [Table -> States]
      BY <1>2 DEF CtrlJoin
    <2> QED BY <2>1, <2>2, <2>3
  <1>3. CASE CtrlNewTable(u)
    BY <1>3 DEF CtrlNewTable, SendTo, RequestInv, RequestOf
  <1>4. CASE TableJoin(u)
    <2> HIDE DEF TypeOK
    <2>1. /\ target[u] \in Table
          /\ UNCHANGED <<at, target, ctrlVars, started, leaving, expired, visiting>>
          /\ Refusal(u) \/ Admission(target[u], u)
      BY <1>4, TableJoinOutcomes
    <2>2. CASE Refusal(u)
      BY <2>1, <2>2 DEF Refusal, TypeOK
    <2>3. CASE Admission(target[u], u)
      <3> DEFINE t == target[u]
      <3>0. /\ t \in Table /\ members[t] \cup {u} \in SUBSET User
            /\ todo[t] \cup {u} \in SUBSET User /\ count[t] + 1 \in Int /\ u \in UserOrNone
            /\ 1..Seats \subseteq 0..Seats
        BY <2>1, RoomAssumption DEF TypeOK, UserOrNone
      <3> HIDE DEF t
      <3>1. /\ req' \in [User -> Requests] /\ state' \in [Table -> States]
            /\ late' \subseteq User
        <4>1. /\ \/ req' = [req EXCEPT ![u] = "refused"]
                 \/ req' = [req EXCEPT ![u] = "joined"]
              /\ state' = state \/ state' = [state EXCEPT ![t] = "open"]
              /\ late' = late \/ late' = late \cup {u}
          BY <2>3 DEF Admission, t
        <4>2. req \in [User -> Requests] /\ state \in [Table -> States] /\ late \subseteq User
          BY DEF TypeOK
        <4>3. req' \in [User -> Requests]
          BY <4>1, <4>2 DEF Requests
        <4>4. state' \in [Table -> States]
          BY <4>1, <4>2 DEF States
        <4> QED BY <4>1, <4>2, <4>3, <4>4
      <3>2. members' \in [Table -> SUBSET User]
        BY <3>0, <2>3 DEF Admission, TypeOK, t
      <3>3. todo' \in [Table -> SUBSET User]
        <4>1. todo' = todo \/ todo' = [todo EXCEPT ![t] = todo[t] \cup {u}]
          BY <2>3 DEF Admission, t
        <4> QED BY <3>0, <4>1 DEF TypeOK
      <3>4. count' \in [Table -> Int]
        BY <3>0, <2>3 DEF Admission, TypeOK, t
      <3>5. /\ seat' \in [Table -> [1..Seats -> UserOrNone]]
            /\ seatid' \in [Table -> [User -> 0..Seats]]
        <4>1. \/ UNCHANGED <<seat, seatid>>
              \/ \E i \in 1..Seats : /\ seat' = [seat EXCEPT ![t][i] = u]
                                      /\ seatid' = [seatid EXCEPT ![t][u] = i]
          BY <2>3 DEF Admission, t
        <4>2. /\ seat \in [Table -> [1..Seats -> UserOrNone]]
              /\ seatid \in [Table -> [User -> 0..Seats]]
          BY DEF TypeOK
        <4>3. ASSUME NEW i \in 1..Seats, seat' = [seat EXCEPT ![t][i] = u]
              PROVE  seat' \in [Table -> [1..Seats -> UserOrNone]]
          <5>1. [seat[t] EXCEPT ![i] = u] \in [1..Seats -> UserOrNone]
            BY <3>0, <4>2
          <5>2. seat' = [seat EXCEPT ![t] = [seat[t] EXCEPT ![i] = u]]
            BY <4>3
          <5> QED BY <3>0, <4>2, <5>1, <5>2
        <4>4. ASSUME NEW i \in 1..Seats, seatid' = [seatid EXCEPT ![t][u] = i]
              PROVE  seatid' \in [Table -> [User -> 0..Seats]]
          <5>1. [seatid[t] EXCEPT ![u] = i] \in [User -> 0..Seats]
            BY <3>0, <4>2
          <5>2. seatid' = [seatid EXCEPT ![t] = [seatid[t] EXCEPT ![u] = i]]
            BY <4>4
          <5> QED BY <3>0, <4>2, <5>1, <5>2
        <4> QED BY <4>1, <4>2, <4>3, <4>4
      <3> QED BY <2>1, <3>1, <3>2, <3>3, <3>4, <3>5 DEF TypeOK, ctrlVars
    <2> QED BY <2>1, <2>2, <2>3
  <1>5. CASE CtrlJoined(u)
    BY <1>5 DEF CtrlJoined
  <1>6. CASE CtrlRefused(u)
    BY <1>6 DEF CtrlRefused
  <1>7. CASE JoinReply(u)
    BY <1>7 DEF JoinReply
  <1> QED BY <1>1, <1>2, <1>3, <1>4, <1>5, <1>6, <1>7 DEF Join

(* CMD.kick of the ctrl counts a player down once. *)
LEMMA UnregisterCounts ==
  ASSUME TypeOK, RegisterInv, NEW u \in User, Unregister(u)
  PROVE  /\ players' \subseteq User /\ userCount' \in Nat
         /\ IsFiniteSet(players') /\ userCount' >= Cardinality(players')
         /\ userCount = Cardinality(players) => userCount' = Cardinality(players')
  <1>1. /\ IsFiniteSet(players \ {u}) /\ Cardinality(players) \in Nat
        /\ Cardinality(players \ {u}) = IF u \in players THEN Cardinality(players) - 1 ELSE Cardinality(players)
        /\ Cardinality(players \ {u}) \in Nat
    BY FS_RemoveElement, FS_CardinalityType DEF RegisterInv
  <1> QED BY <1>1 DEF TypeOK, RegisterInv, Unregister

LEMMA LeaveTypes ==
  ASSUME TypeOK, RegisterInv, NEW t \in Table, NEW u \in User,
         Leave(t, u) \/ KickIdle(t, u) \/ \E k \in Slots : ReqLeave(t, u, k)
  PROVE  TypeOK'
  <1> USE DEF dataVars, ctrlVars
  <1> DEFINE LeavingType == leaving' \in [Table -> [User -> [Slots -> Leaves]]]
  <1>0. 0 \in Slots /\ 0 \in 0..Seats /\ None \in UserOrNone /\ None \in TableOrNone
    BY RoomAssumption DEF Slots, UserOrNone, TableOrNone
  <1>1. ASSUME NEW k \in Slots, NEW x \in Leaves, leaving' = [leaving EXCEPT ![t][u][k] = x]
        PROVE  LeavingType
    BY <1>1, SetLeaving
  <1>2. ASSUME Vacate(t, u) PROVE seat' \in [Table -> [1..Seats -> UserOrNone]]
    BY <1>2, <1>0 DEF TypeOK, Vacate
  <1>3. ASSUME NEW k \in Slots, ReqLeave(t, u, k) PROVE TypeOK'
    <2>1. LeavingType
      BY <1>1, <1>3 DEF ReqLeave, StartLeave, Leaves
    <2> QED BY <1>2, <1>3, <2>1 DEF ReqLeave, StartLeave, TypeOK
  <1>4. CASE KickIdle(t, u)
    <2>1. LeavingType
      BY <1>0, <1>1, <1>4 DEF KickIdle, StartLeave, Leaves
    <2> QED BY <1>0, <1>2, <1>4, <2>1 DEF KickIdle, StartLeave, TypeOK
  <1>5. ASSUME NEW k \in Slots, LeaveKick(t, u, k) PROVE TypeOK'
    <2>1. LeavingType
      BY <1>1, <1>5 DEF LeaveKick, Leaves
    <2>2. players' \subseteq User /\ userCount' \in Nat
      BY <1>5, UnregisterCounts DEF LeaveKick
    <2> QED BY <1>5, <2>1, <2>2 DEF LeaveKick, TypeOK
  <1>6. ASSUME NEW k \in Slots, LeaveTell(t, u, k) PROVE TypeOK'
    <2>1. LeavingType
      BY <1>1, <1>6 DEF LeaveTell, Leaves
    <2> QED BY <1>6, <2>1 DEF LeaveTell, TypeOK
  <1>7. ASSUME NEW k \in Slots, LeaveData(t, u, k) PROVE TypeOK'
    <2>1. LeavingType
      BY <1>1, <1>7 DEF LeaveData, Leaves
    <2> QED BY <1>0, <1>7, <2>1 DEF LeaveData, TypeOK
  <1>8. ASSUME NEW k \in Slots, LeaveDone(t, u, k) PROVE TypeOK'
    <2>1. LeavingType
      BY <1>1, <1>8 DEF LeaveDone, Leaves
    <2>2. /\ UNCHANGED <<at, req, target, ctrlVars, started, expired, visiting, late>>
          /\ \/ ~Running(t) /\ UNCHANGED <<state, members, count, todo, seat, seatid>>
             \/ Removal(t, u)
      BY <1>8, LeaveDoneOutcomes
    <2>3. CASE Removal(t, u)
      <3>1. members' \in [Table -> SUBSET User] /\ count' \in [Table -> Int]
        BY <2>3 DEF Removal, TypeOK
      <3>2. state' \in [Table -> States] /\ todo' \in [Table -> SUBSET User]
        <4>1. /\ members[t] \ {u} \in SUBSET User
              /\ todo' = todo \/ todo' = [todo EXCEPT ![t] = members[t] \ {u}]
              /\ \/ state' = state \/ state' = [state EXCEPT ![t] = "freed"]
                 \/ state' = [state EXCEPT ![t] = "freeing"]
          BY <2>3 DEF Removal, TypeOK
        <4>2. state \in [Table -> States] /\ todo \in [Table -> SUBSET User]
          BY DEF TypeOK
        <4>3. state' \in [Table -> States]
          BY <4>1, <4>2 DEF States
        <4>4. todo' \in [Table -> SUBSET User]
          BY <4>1, <4>2
        <4> QED BY <4>3, <4>4
      <3>3. seat' \in [Table -> [1..Seats -> UserOrNone]] /\ seatid' \in [Table -> [User -> 0..Seats]]
        <4>1. /\ seat' = seat \/ seat' = [seat EXCEPT ![t] = [i \in 1..Seats |-> None]]
              /\ seatid' = [seatid EXCEPT ![t][u] = 0]
          BY <2>3 DEF Removal
        <4>2. /\ seat \in [Table -> [1..Seats -> UserOrNone]]
              /\ seatid \in [Table -> [User -> 0..Seats]]
          BY DEF TypeOK
        <4>3. seat' \in [Table -> [1..Seats -> UserOrNone]]
          BY <1>0, <4>1, <4>2
        <4>4. seatid' \in [Table -> [User -> 0..Seats]]
          BY <1>0, <4>1, <4>2
        <4> QED BY <4>3, <4>4
      <3> QED BY <2>1, <2>2, <3>1, <3>2, <3>3 DEF TypeOK
    <2> QED BY <2>1, <2>2, <2>3 DEF TypeOK
  <1> QED BY <1>3, <1>4, <1>5, <1>6, <1>7, <1>8 DEF Leave

LEMMA EndTypes ==
  ASSUME TypeOK, RegisterInv, NEW t \in Table, StartGame(t) \/ EndGame(t) \/ Expire(t) \/ FreeTable(t)
  PROVE  TypeOK'
  <1> USE RoomAssumption DEF TypeOK, dataVars, ctrlVars, States, UserOrNone, TableOrNone
  <1>1. CASE StartGame(t) \/ EndGame(t)
    BY <1>1 DEF StartGame, EndGame
  <1>2. CASE Expire(t)
    BY <1>2 DEF Expire
  <1>3. ASSUME NEW u \in User, FreeTell(t, u) \/ FreeKick(t, u) PROVE TypeOK'
    <2>1. CASE FreeTell(t, u)
      BY <2>1 DEF FreeTell
    <2>2. CASE FreeKick(t, u)
      <3>1. players' \subseteq User /\ userCount' \in Nat
        <4> HIDE DEF TypeOK
        <4> QED BY <2>2, UnregisterCounts DEF FreeKick
      <3> QED BY <2>2, <3>1 DEF FreeKick
    <2> QED BY <1>3, <2>1, <2>2
  <1>4. CASE FreeEnd(t)
    BY <1>4 DEF FreeEnd, LogicFree
  <1>5. CASE CtrlFree(t)
    BY <1>5 DEF CtrlFree
  <1> QED BY <1>1, <1>2, <1>3, <1>4, <1>5 DEF FreeTable

(* Where a request is, and what that says of the player's gamenode. *)
LEMMA RequestFrame ==
  ASSUME RequestInv, NEW u \in User, RequestOf(u)',
         \A v \in User \ {u} : req'[v] = req[v] /\ target'[v] = target[v]
                               /\ (at'[v] = at[v] \/ at'[v] = None)
  PROVE  RequestInv'
  BY DEF RequestInv, RequestOf

LEMMA RequestStep ==
  ASSUME TypeOK, RequestInv, Next PROVE RequestInv'
  <1> USE DEF dataVars, ctrlVars
  <1>1. ASSUME NEW u \in User, ReqJoin(u) \/ Join(u) PROVE RequestInv'
    <2>1. \A v \in User \ {u} : req'[v] = req[v] /\ target'[v] = target[v]
                                /\ (at'[v] = at[v] \/ at'[v] = None)
      <3>1. CASE ReqJoin(u)
        BY <3>1 DEF ReqJoin, TypeOK
      <3>2. CASE CtrlJoin(u)
        <4>1. UNCHANGED at /\ (\E r \in Requests : req' = [req EXCEPT ![u] = r])
              /\ (target' = target \/ \E t \in Table : target' = [target EXCEPT ![u] = t])
          BY <3>2 DEF CtrlJoin, SendTo, Candidates, TypeOK, Requests
        <4> QED BY <4>1 DEF TypeOK
      <3>3. CASE CtrlNewTable(u) \/ CtrlJoined(u) \/ CtrlRefused(u) \/ JoinReply(u)
        BY <3>3 DEF CtrlNewTable, SendTo, CtrlJoined, CtrlRefused, JoinReply, TypeOK
      <3>4. CASE TableJoin(u)
        BY <3>4, TableJoinOutcomes DEF Refusal, Admission, TypeOK
      <3> QED BY <1>1, <3>1, <3>2, <3>3, <3>4 DEF Join
    <2>2. RequestOf(u)'
      <3> USE DEF RequestInv, RequestOf
      <3>1. CASE ReqJoin(u)
        BY <3>1 DEF ReqJoin, TypeOK
      <3>2. CASE CtrlJoin(u)
        <4>1. at[u] = None /\ UNCHANGED at
          BY <3>2 DEF CtrlJoin
        <4>2. \/ req' = [req EXCEPT ![u] = "none"]
              \/ \E t \in Table : target' = [target EXCEPT ![u] = t]
          BY <3>2 DEF CtrlJoin, SendTo, Candidates, TypeOK
        <4> QED BY <4>1, <4>2 DEF TypeOK
      <3>3. CASE CtrlNewTable(u)
        BY <3>3 DEF CtrlNewTable, SendTo, TypeOK
      <3>4. CASE CtrlJoined(u) \/ CtrlRefused(u) \/ JoinReply(u)
        BY <3>4 DEF CtrlJoined, CtrlRefused, JoinReply, TypeOK
      <3>5. CASE TableJoin(u)
        <4>1. at[u] = None /\ target[u] \in Table /\ UNCHANGED <<at, target>>
          BY <3>5, TableJoinOutcomes
        <4> QED BY <4>1
      <3> QED BY <1>1, <3>1, <3>2, <3>3, <3>4, <3>5 DEF Join
    <2> QED BY <2>1, <2>2, RequestFrame
  <1>2. ASSUME NEW t \in Table,
               \/ \E u \in User : \/ Leave(t, u) \/ KickIdle(t, u)
                                  \/ \E k \in Slots : ReqLeave(t, u, k)
               \/ StartGame(t) \/ EndGame(t) \/ Expire(t) \/ FreeTable(t)
        PROVE  RequestInv'
    <2>1. UNCHANGED <<req, target>>
      BY <1>2 DEF Leave, LeaveKick, LeaveTell, LeaveData, LeaveDone, KickIdle, ReqLeave,
                  StartGame, EndGame, Expire, FreeTable, FreeTell, FreeKick, FreeEnd, CtrlFree
    <2>2. at' = at \/ \E u \in User : at' = [at EXCEPT ![u] = None]
      BY <1>2 DEF Leave, LeaveKick, LeaveTell, LeaveData, LeaveDone, KickIdle, ReqLeave,
                  StartGame, EndGame, Expire, FreeTable, FreeTell, FreeKick, FreeEnd, CtrlFree
    <2> QED BY <2>1, <2>2 DEF RequestInv, RequestOf, TypeOK
  <1> QED BY <1>1, <1>2 DEF Next

(* The ctrl's list of players: who registers and who is removed. *)
LEMMA RegisterSteps ==
  ASSUME Next
  PROVE  \/ UNCHANGED <<players, userCount>>
         \/ \E u \in User : CtrlJoined(u)
         \/ \E u \in User, t \in Table, k \in Slots : LeaveKick(t, u, k)
         \/ \E u \in User, t \in Table : FreeKick(t, u)
  <1>1. ASSUME NEW u \in User, ReqJoin(u) \/ Join(u), ~CtrlJoined(u)
        PROVE  UNCHANGED <<players, userCount>>
    BY <1>1 DEF ReqJoin, Join, CtrlJoin, CtrlNewTable, TableJoin, CtrlRefused, JoinReply, ctrlVars
  <1>2. ASSUME NEW t \in Table, NEW u \in User, NEW k \in Slots,
               LeaveTell(t, u, k) \/ LeaveData(t, u, k) \/ LeaveDone(t, u, k) \/ ReqLeave(t, u, k)
        PROVE  UNCHANGED <<players, userCount>>
    BY <1>2 DEF LeaveTell, LeaveData, LeaveDone, ReqLeave, ctrlVars
  <1>3. ASSUME NEW t \in Table, StartGame(t) \/ EndGame(t) \/ Expire(t) \/ FreeEnd(t) \/ CtrlFree(t)
        PROVE  UNCHANGED <<players, userCount>>
    BY <1>3 DEF StartGame, EndGame, Expire, FreeEnd, CtrlFree, ctrlVars
  <1>4. ASSUME NEW t \in Table, NEW u \in User, KickIdle(t, u) \/ FreeTell(t, u)
        PROVE  UNCHANGED <<players, userCount>>
    BY <1>4 DEF KickIdle, FreeTell, ctrlVars
  <1> QED BY <1>1, <1>2, <1>3, <1>4 DEF Next, Leave, FreeTable, Join

LEMMA RegisterCounts ==
  ASSUME TypeOK, RegisterInv, NEW u \in User, CtrlJoined(u)
  PROVE  /\ IsFiniteSet(players') /\ userCount' >= Cardinality(players')
         /\ userCount = Cardinality(players) /\ u \notin players
              => userCount' = Cardinality(players')
  <1>1. /\ IsFiniteSet(players \cup {u}) /\ Cardinality(players) \in Nat
        /\ Cardinality(players \cup {u}) = IF u \in players THEN Cardinality(players) ELSE Cardinality(players) + 1
    BY FS_AddElement, FS_CardinalityType DEF RegisterInv
  <1>2. players' = players \cup {u} /\ userCount' = userCount + 1
    BY DEF CtrlJoined
  <1> QED BY <1>1, <1>2 DEF TypeOK, RegisterInv

LEMMA NextTInv == TInv /\ [Next]_vars => TInv'
  <1> SUFFICES ASSUME TInv, [Next]_vars PROVE TInv'
    OBVIOUS
  <1>1. CASE Next
    <2>1. TypeOK'
      <3>1. ASSUME NEW t \in Table,
                   \/ \E u \in User : \/ Leave(t, u) \/ KickIdle(t, u)
                                      \/ \E k \in Slots : ReqLeave(t, u, k)
                   \/ StartGame(t) \/ EndGame(t) \/ Expire(t) \/ FreeTable(t)
            PROVE  TypeOK'
        BY <3>1, LeaveTypes, EndTypes DEF TInv
      <3>2. ASSUME NEW u \in User, ReqJoin(u) \/ Join(u) PROVE TypeOK'
        BY <3>2, JoinTypes DEF TInv
      <3> QED BY <1>1, <3>1, <3>2 DEF Next
    <2>2. RequestInv'
      BY <1>1, RequestStep DEF TInv
    <2>3. RegisterInv'
      <3>1. ASSUME NEW u \in User, Unregister(u) PROVE RegisterInv'
        BY <3>1, UnregisterCounts DEF TInv, RegisterInv
      <3>2. ASSUME NEW u \in User, CtrlJoined(u) PROVE RegisterInv'
        BY <3>2, RegisterCounts DEF TInv, RegisterInv
      <3>3. CASE UNCHANGED <<players, userCount>>
        BY <3>3 DEF TInv, RegisterInv
      <3> QED BY <1>1, <3>1, <3>2, <3>3, RegisterSteps DEF LeaveKick, FreeKick
    <2> QED BY <2>1, <2>2, <2>3 DEF TInv
  <1>2. CASE UNCHANGED vars
    BY <1>2 DEF vars, dataVars, ctrlVars, tableVars, TInv, TypeOK, RequestInv, RequestOf, RegisterInv
  <1> QED BY <1>1, <1>2

LEMMA InitTInv == Init => TInv
  <1> SUFFICES ASSUME Init PROVE TInv
    OBVIOUS
  <1>1. RequestInv
    BY DEF Init, RequestInv, RequestOf
  <1>2. RegisterInv
    BY FS_EmptySet DEF Init, RegisterInv
  <1> QED BY <1>1, <1>2, InitTypeOK DEF TInv

(* Every variable has its type; the ctrl's user_count is never negative    *)
(* (ctrl.lua, CMD.kick counts a player down only while it lists him).      *)
THEOREM GoldTypeCorrect == Spec => []TypeOK
  <1>1. TInv => TypeOK
    BY DEF TInv
  <1> QED BY InitTInv, NextTInv, <1>1, PTL DEF Spec

-----------------------------------------------------------------------------
(* The coroutines of a table. *)

LEMMA LeaveFrame ==
  ASSUME NEW t \in Table, NEW u \in User, LeaveOf(t, u),
         leaving'[t][u] = leaving[t][u], state'[t] \in {"none", "new"} => state[t] \in {"none", "new"},
         Running(t)' => Running(t) \/ ~LeavingTable(t, u),
         LeavingTable(t, u) /\ Running(t)' /\ u \in members[t] => u \in members'[t],
         LeavingTable(t, u) => seatid'[t][u] \in {0, seatid[t][u]},
         Asking(u)' => Asking(u),
         Asking(u)' /\ state'[t] = "open" /\ u \in members'[t] => state[t] = "open" /\ u \in members[t]
  PROVE  LeaveOf(t, u)'
  <1>1. LeavingTable(t, u)' <=> LeavingTable(t, u)
    BY DEF LeavingTable
  <1>2. 0 \in Slots
    BY RoomAssumption DEF Slots
  <1>3. leaving[t][u][0] # "none" => LeavingTable(t, u)
    BY <1>2 DEF LeavingTable
  <1> QED BY <1>1, <1>3 DEF LeaveOf

(* Nothing happens to the coroutines and to those they are about. *)
LEMMA LeaveQuiet ==
  ASSUME LeaveInv, UNCHANGED <<leaving, state, members, seatid>>,
         \A u \in User : Asking(u)' => Asking(u)
  PROVE  LeaveInv'
  <1> SUFFICES ASSUME NEW t \in Table, NEW u \in User PROVE LeaveOf(t, u)'
    BY DEF LeaveInv
  <1>1. LeaveOf(t, u) /\ (Running(t)' <=> Running(t)) /\ (Asking(u)' => Asking(u))
    BY DEF LeaveInv, Running
  <1> QED BY <1>1, LeaveFrame

(* A coroutine that is under way goes on. *)
LEMMA LeaveMoves ==
  ASSUME TypeOK, LeaveInv, NEW t \in Table, NEW u \in User, NEW k \in Slots, NEW x \in Leaves,
         leaving[t][u][k] # "none", leaving' = [leaving EXCEPT ![t][u][k] = x],
         UNCHANGED <<req, state, members, seatid>>
  PROVE  LeaveInv'
  <1> SUFFICES ASSUME NEW s \in Table, NEW v \in User PROVE LeaveOf(s, v)'
    BY DEF LeaveInv
  <1>1. /\ leaving' \in [Table -> [User -> [Slots -> Leaves]]]
        /\ leaving'[t][u][k] = x
        /\ \A j \in Slots : s # t \/ v # u \/ j # k => leaving'[s][v][j] = leaving[s][v][j]
    BY SetLeaving DEF TypeOK
  <1>2. LeaveOf(s, v) /\ (Running(s)' <=> Running(s)) /\ (Asking(v)' <=> Asking(v))
    BY DEF LeaveInv, Running, Asking
  <1>3. \A j \in Slots : leaving'[s][v][j] # "none" => leaving[s][v][j] # "none"
    BY <1>1
  <1>4. LeavingTable(s, v)' => LeavingTable(s, v)
    BY <1>3 DEF LeavingTable
  <1>5. 0 \in Slots
    BY RoomAssumption DEF Slots
  <1> QED BY <1>2, <1>3, <1>4, <1>5 DEF LeaveOf

(* A new leave: the player is at the table, holds a seat and is not        *)
(* leaving it.                                                             *)
LEMMA LeaveStarts ==
  ASSUME TypeOK, LeaveInv, NEW t \in Table, NEW u \in User, NEW k \in Slots,
         ~LeavingTable(t, u), ~Asking(u), Running(t), u \in members[t],
         k = 0 => seatid'[t][u] = 0,
         \A s \in Table, v \in User : s # t \/ v # u => seatid'[s][v] = seatid[s][v],
         leaving' = [leaving EXCEPT ![t][u][k] = "kick"], UNCHANGED <<req, state, members>>
  PROVE  LeaveInv'
  <1> SUFFICES ASSUME NEW s \in Table, NEW v \in User PROVE LeaveOf(s, v)'
    BY DEF LeaveInv
  <1>1. /\ leaving' \in [Table -> [User -> [Slots -> Leaves]]]
        /\ leaving'[t][u][k] = "kick"
        /\ \A j \in Slots : s # t \/ v # u \/ j # k => leaving'[s][v][j] = leaving[s][v][j]
    <2>1. "kick" \in Leaves
      BY DEF Leaves
    <2> QED BY <2>1, SetLeaving DEF TypeOK
  <1>2. LeaveOf(s, v) /\ (Running(s)' <=> Running(s)) /\ (Asking(v)' <=> Asking(v))
    BY DEF LeaveInv, Running, Asking
  <1>3. 0 \in Slots
    BY RoomAssumption DEF Slots
  <1>4. CASE s = t /\ v = u
    <2>1. \A j \in Slots : leaving[t][u][j] = "none"
      BY DEF LeavingTable
    <2>2. \A j \in Slots : leaving'[t][u][j] # "none" => j = k
      BY <1>1, <1>4, <2>1
    <2>3. state[t] \notin {"none", "new"}
      BY DEF Running
    <2> QED BY <1>2, <1>3, <1>4, <2>2, <2>3 DEF LeaveOf
  <1>5. CASE ~(s = t /\ v = u)
    <2>1. leaving'[s][v] = leaving[s][v]
      BY <1>5 DEF TypeOK
    <2>2. seatid'[s][v] = seatid[s][v]
      BY <1>5
    <2> QED BY <1>2, <2>1, <2>2, LeaveFrame
  <1> QED BY <1>4, <1>5

(* With one client leave at a time: a leave by request and a kick of the   *)
(* same player exclude each other.                                         *)
LEMMA NotLeaving ==
  ASSUME Width = 1, TypeOK, LeaveInv, NEW t \in Table, NEW u \in User, NEW k \in Slots,
         k # 0, leaving[t][u][k] = "none", Running(t), seatid[t][u] # 0
  PROVE  ~LeavingTable(t, u)
  <1>1. Slots = {0, k}
    BY DEF Slots
  <1>2. leaving[t][u][0] = "none"
    BY DEF LeaveInv, LeaveOf
  <1> QED BY <1>1, <1>2 DEF LeavingTable

LEMMA ReqLeaveLeaves ==
  ASSUME PInv, NEW t \in Table, NEW u \in User, NEW k \in Slots, ReqLeave(t, u, k)
  PROVE  LeaveInv' /\ ~LeavingTable(t, u)
  <1> USE DEF PInv, TInv
  <1>1. ~LeavingTable(t, u)
    BY NotLeaving DEF ReqLeave, StartLeave, Vacate
  <1>2. ~Asking(u)
    BY RoomAssumption DEF ReqLeave, RequestInv, RequestOf, Asking
  <1>3. /\ Running(t) /\ u \in members[t] /\ k # 0 /\ UNCHANGED <<req, state, members, seatid>>
        /\ leaving' = [leaving EXCEPT ![t][u][k] = "kick"]
    BY DEF ReqLeave, StartLeave, dataVars
  <1> QED BY <1>1, <1>2, <1>3, LeaveStarts

LEMMA KickLeaves ==
  ASSUME PInv, NEW t \in Table, NEW u \in User, KickIdle(t, u)
  PROVE  LeaveInv' /\ ~LeavingTable(t, u)
  <1> USE DEF PInv, TInv
  <1>1. state[t] = "open" /\ u \in members[t] /\ ~LeavingTable(t, u)
    <2>1. PICK i \in 1..Seats : seat[t][i] = u
      BY DEF KickIdle
    <2>2. state[t] = "open" /\ u # None
      BY RoomAssumption DEF KickIdle, TickReady
    <2>3. Seated(t)
      BY <2>2 DEF TableInv, TableOf
    <2> QED BY <2>1, <2>2, <2>3 DEF Seated
  <1>2. ~Asking(u) /\ Running(t)
    BY <1>1 DEF LeaveInv, LeaveOf, Running
  <1>3. /\ leaving' = [leaving EXCEPT ![t][u][0] = "kick"] /\ UNCHANGED <<req, state, members>>
        /\ seatid' = [seatid EXCEPT ![t][u] = 0]
    BY DEF KickIdle, StartLeave, dataVars
  <1>4. /\ seatid'[t][u] = 0 /\ 0 \in Slots
        /\ \A s \in Table, v \in User : s # t \/ v # u => seatid'[s][v] = seatid[s][v]
    BY <1>3, RoomAssumption DEF TypeOK, Slots
  <1> QED BY <1>1, <1>2, <1>3, <1>4, LeaveStarts

LEMMA LeaveStep ==
  ASSUME PInv, NEW t \in Table, NEW u \in User, Leave(t, u)
  PROVE  LeaveInv'
  <1> USE DEF PInv, TInv
  <1>1. ASSUME NEW k \in Slots, LeaveKick(t, u, k) \/ LeaveTell(t, u, k) \/ LeaveData(t, u, k)
        PROVE  LeaveInv'
    <2>1. \E x \in Leaves : leaving' = [leaving EXCEPT ![t][u][k] = x]
      BY <1>1 DEF LeaveKick, LeaveTell, LeaveData, Leaves
    <2>2. leaving[t][u][k] # "none" /\ UNCHANGED <<req, state, members, seatid>>
      BY <1>1 DEF LeaveKick, LeaveTell, LeaveData, dataVars
    <2> QED BY <2>1, <2>2, LeaveMoves
  <1>2. ASSUME NEW k \in Slots, LeaveDone(t, u, k) PROVE LeaveInv'
    <2>1. leaving[t][u][k] = "told" /\ leaving' = [leaving EXCEPT ![t][u][k] = "none"] /\ UNCHANGED req
      BY <1>2, LeaveDoneOutcomes
    <2>2. CASE ~Running(t) /\ UNCHANGED <<state, members, count, todo, seat, seatid>>
      BY <2>1, <2>2, LeaveMoves DEF Leaves
    <2>3. CASE Removal(t, u)
      <3> SUFFICES ASSUME NEW s \in Table, NEW v \in User PROVE LeaveOf(s, v)'
        BY DEF LeaveInv
      <3>1. /\ leaving' \in [Table -> [User -> [Slots -> Leaves]]]
            /\ leaving'[t][u][k] = "none"
            /\ \A j \in Slots : s # t \/ v # u \/ j # k => leaving'[s][v][j] = leaving[s][v][j]
        <4>1. "none" \in Leaves
          BY DEF Leaves
        <4> QED BY <2>1, <4>1, SetLeaving DEF TypeOK
      <3>2. LeaveOf(s, v) /\ LeaveOf(t, u) /\ (Asking(v)' <=> Asking(v))
        BY <2>1 DEF LeaveInv, Asking
      <3>3. /\ members'[s] = IF s = t THEN members[t] \ {u} ELSE members[s]
            /\ seatid'[s][v] = IF s = t /\ v = u THEN 0 ELSE seatid[s][v]
        BY <2>3 DEF Removal, TypeOK
      <3>4. /\ state'[s] = state[s] \/ (s = t /\ state'[s] \in {"freed", "freeing"})
            /\ state[t] \in {"open", "freeing"}
        BY <2>3 DEF Removal, Running, TypeOK
      <3>5. CASE s = t /\ v = u
        <4>1. LeavingTable(t, u)
          BY <2>1 DEF LeavingTable
        <4>2. \A j \in Slots : leaving'[t][u][j] = "none"
          BY <2>1, <3>1, <3>2, <3>5 DEF LeaveOf
        <4>3. ~LeavingTable(t, u)'
          BY <4>2 DEF LeavingTable
        <4>4. 0 \in Slots
          BY RoomAssumption DEF Slots
        <4>5. ~Asking(u)'
          BY <3>2, <3>5, <4>1 DEF LeaveOf
        <4> QED BY <3>5, <4>2, <4>3, <4>4, <4>5 DEF LeaveOf
      <3>6. CASE ~(s = t /\ v = u)
        <4>1. leaving'[s][v] = leaving[s][v]
          BY <2>1, <3>6 DEF TypeOK
        <4>2. /\ Running(s)' => Running(s)
              /\ state'[s] \in {"none", "new"} => state[s] \in {"none", "new"}
              /\ state'[s] = "open" => state[s] = "open"
          BY <3>4 DEF Running
        <4>3. v \in members'[s] <=> v \in members[s]
          BY <3>3, <3>6
        <4>4. seatid'[s][v] = seatid[s][v]
          BY <3>3, <3>6
        <4> QED BY <3>2, <4>1, <4>2, <4>3, <4>4, LeaveFrame
      <3> QED BY <3>5, <3>6
    <2> QED BY <1>2, <2>2, <2>3, LeaveDoneOutcomes
  <1> QED BY <1>1, <1>2 DEF Leave

(* A table with room for one more has a free seat: the seats taken are     *)
(* those of different players who are at the table.                        *)
LEMMA RoomMeansSeat ==
  ASSUME TypeOK, NEW t \in Table, TableOf(t), state[t] \in {"new", "open"}, count[t] < Seats
  PROVE  FreeSeats(t) # {}
  <1>1. CASE state[t] = "new"
    <2>1. 1 \in 1..Seats /\ seat[t][1] = None
      BY <1>1, RoomAssumption DEF TableOf
    <2> QED BY <2>1 DEF FreeSeats
  <1>2. CASE state[t] = "open"
    <2> SUFFICES ASSUME FreeSeats(t) = {} PROVE FALSE
      OBVIOUS
    <2>1. IsFiniteSet(members[t]) /\ Cardinality(members[t]) < Seats /\ Seated(t)
      BY <1>2 DEF TableOf
    <2> DEFINE S == 1..Seats
               M == members[t]
               f == seat[t]
    <2>2. Cardinality(S) = Seats /\ Cardinality(M) \in Nat
      BY <2>1, FS_Interval, FS_CardinalityType, RoomAssumption
    <2>3. \A i \in S : f[i] \in User
      <3> SUFFICES ASSUME NEW i \in 1..Seats PROVE seat[t][i] \in User
        OBVIOUS
      <3>1. seat[t][i] \in UserOrNone
        <4>1. seat[t] \in [1..Seats -> UserOrNone]
          BY DEF TypeOK
        <4> QED BY <4>1
      <3>2. seat[t][i] # None
        BY DEF FreeSeats
      <3> QED BY <3>1, <3>2 DEF UserOrNone
    <2>4. \A i \in S : f[i] \in M /\ seatid[t][f[i]] = i
      BY <2>1, <2>3 DEF Seated
    <2>5. f \in [S -> M]
      BY <2>4 DEF TypeOK
    <2>6. f \in Injection(S, M)
      <3>1. \A i, j \in S : f[i] = f[j] => i = j
        BY <2>4
      <3> HIDE DEF S, M, f
      <3> QED BY <2>5, <3>1, Zenon DEF Injection, IsInjective
    <2> HIDE DEF S, M, f
    <2>7. Cardinality(S) <= Cardinality(M)
      BY <2>1, <2>6, FS_Injection DEF M
    <2> QED BY <2>1, <2>2, <2>7, RoomAssumption DEF M
  <1> QED BY <1>1, <1>2

(* Admission to a table that is not being freed: the player was not there, *)
(* and is seated.                                                          *)
LEMMA AdmissionSeats ==
  ASSUME PInv, NEW t \in Table, NEW u \in User, req[u] = "table", Admission(t, u)
  PROVE  /\ ~LeavingTable(t, u)
         /\ state[t] # "freeing" => /\ u \notin members[t] /\ req' = [req EXCEPT ![u] = "joined"]
                                    /\ \E i \in 1..Seats : /\ seat[t][i] = None
                                                           /\ seat' = [seat EXCEPT ![t][i] = u]
                                                           /\ seatid' = [seatid EXCEPT ![t][u] = i]
  <1> USE DEF PInv, TInv
  <1>1. Asking(u) /\ LeaveOf(t, u) /\ TableOf(t)
    BY DEF Asking, LeaveInv, TableInv
  <1>2. state[t] \in {"new", "open", "freeing"} /\ count[t] < Seats
    BY DEF Admission
  <1>3. state[t] # "freeing" => FreeSeats(t) # {}
    BY <1>1, <1>2, RoomMeansSeat
  <1>4. state[t] # "freeing" => u \notin members[t]
    BY <1>1, <1>2 DEF LeaveOf, TableOf
  <1>5. state[t] # "freeing" => /\ req' = [req EXCEPT ![u] = "joined"]
                                /\ \E i \in 1..Seats : /\ seat[t][i] = None
                                                       /\ seat' = [seat EXCEPT ![t][i] = u]
                                                       /\ seatid' = [seatid EXCEPT ![t][u] = i]
    BY <1>3 DEF Admission
  <1> QED BY <1>1, <1>4, <1>5 DEF LeaveOf

(* A player who asks to join is nobody's player any more. *)
LEMMA Untied ==
  ASSUME PInv, NEW u \in User, ReqJoin(u), u \notin late'
  PROVE  \A t \in Table : ~Tied(t, u)
  <1> USE DEF PInv, TInv
  <1>1. u \notin late /\ at[u] = None /\ req[u] = "none" /\ ~Leaving(u)
        /\ \A t \in Table : visiting[t] # u
    BY DEF ReqJoin
  <1>2. \A t \in Table : ~LeavingTable(t, u) /\ ~Told(t, u)
    BY <1>1 DEF Leaving, LeavingTable, Told
  <1>3. PlaceOf(u)
    BY <1>1 DEF PlaceInv
  <1> QED BY <1>1, <1>2, <1>3 DEF PlaceOf, Tied

LEMMA NotAtOpenTable ==
  ASSUME PInv, NEW u \in User, ReqJoin(u), NEW t \in Table
  PROVE  ~LeavingTable(t, u) /\ ~(state[t] = "open" /\ u \in members[t])
  <1> USE DEF PInv, TInv
  <1>1. u \notin late /\ at[u] = None /\ req[u] = "none" /\ ~Leaving(u)
    BY DEF ReqJoin
  <1>2. ~LeavingTable(t, u) /\ ~Told(t, u)
    BY <1>1 DEF Leaving, LeavingTable, Told
  <1>3. PlaceOf(u)
    BY <1>1 DEF PlaceInv
  <1>4. state[t] = "open" => visiting[t] # u
    <2>1. u # None
      BY RoomAssumption
    <2> QED BY <2>1 DEF TableInv, TableOf
  <1> QED BY <1>1, <1>2, <1>3, <1>4 DEF PlaceOf, Present

LEMMA JoinLeaves ==
  ASSUME PInv, NEW u \in User, ReqJoin(u) \/ Join(u)
  PROVE  LeaveInv'
  <1> USE DEF PInv, TInv
  <1>1. CASE ReqJoin(u)
    <2> SUFFICES ASSUME NEW s \in Table, NEW v \in User PROVE LeaveOf(s, v)'
      BY DEF LeaveInv
    <2>1. UNCHANGED <<leaving, state, members, seatid>> /\ \A w \in User \ {u} : req'[w] = req[w]
      BY <1>1 DEF ReqJoin, tableVars, TypeOK
    <2>2. LeaveOf(s, v)
      BY DEF LeaveInv
    <2>3. v = u => ~LeavingTable(s, u) /\ ~(state[s] = "open" /\ u \in members[s])
      BY <1>1, NotAtOpenTable
    <2>4. v # u => (Asking(v)' <=> Asking(v))
      BY <2>1 DEF Asking
    <2>5. LeavingTable(s, v)' <=> LeavingTable(s, v)
      BY <2>1 DEF LeavingTable
    <2>6. Running(s)' <=> Running(s)
      BY <2>1 DEF Running
    <2> QED BY <2>1, <2>2, <2>3, <2>4, <2>5, <2>6 DEF LeaveOf
  <1>2. CASE CtrlJoin(u)
    <2> SUFFICES ASSUME NEW s \in Table, NEW v \in User PROVE LeaveOf(s, v)'
      BY DEF LeaveInv
    <2>1. UNCHANGED <<leaving, members, seatid>> /\ req[u] = "ctrl" /\ \A w \in User \ {u} : req'[w] = req[w]
      BY <1>2 DEF CtrlJoin, SendTo, TypeOK
    <2>2. state'[s] = state[s] \/ (state[s] = "none" /\ state'[s] = "new")
      BY <1>2 DEF CtrlJoin, TypeOK
    <2>3. Asking(v)' => Asking(v)
      BY <2>1 DEF Asking
    <2>4. LeaveOf(s, v) /\ (Running(s)' => Running(s))
      BY <2>2 DEF LeaveInv, Running
    <2> QED BY <2>1, <2>2, <2>3, <2>4, LeaveFrame
  <1>3. CASE CtrlNewTable(u) \/ CtrlJoined(u) \/ CtrlRefused(u) \/ JoinReply(u)
    <2>1. UNCHANGED <<leaving, state, members, seatid>>
      BY <1>3 DEF CtrlNewTable, CtrlJoined, CtrlRefused, JoinReply, tableVars
    <2>2. \A v \in User : Asking(v)' => Asking(v)
      BY <1>3 DEF CtrlNewTable, SendTo, CtrlJoined, CtrlRefused, JoinReply, Asking, TypeOK
    <2> QED BY <2>1, <2>2, LeaveQuiet
  <1>4. CASE TableJoin(u)
    <2> DEFINE t == target[u]
    <2>1. /\ t \in Table /\ req[u] = "table" /\ UNCHANGED leaving
          /\ Refusal(u) \/ Admission(t, u)
      BY <1>4, TableJoinOutcomes
    <2> HIDE DEF t
    <2>2. CASE Refusal(u)
      <3>1. UNCHANGED <<state, members, seatid>> /\ \A v \in User : Asking(v)' => Asking(v)
        BY <2>1, <2>2 DEF Refusal, Asking, TypeOK
      <3> QED BY <2>1, <3>1, LeaveQuiet
    <2>3. CASE Admission(t, u)
      <3> SUFFICES ASSUME NEW s \in Table, NEW v \in User PROVE LeaveOf(s, v)'
        BY DEF LeaveInv
      <3>1. /\ ~LeavingTable(s, u) /\ LeaveOf(s, v) /\ TableOf(s)
        BY <2>1 DEF LeaveInv, LeaveOf, Asking, TableInv
      <3>2. /\ members'[s] = IF s = t THEN members[t] \cup {u} ELSE members[s]
            /\ \A w \in User : w # u => req'[w] = req[w]
            /\ state[t] \in {"new", "open", "freeing"}
            /\ state'[s] = IF s = t /\ state[t] # "freeing" THEN "open" ELSE state[s]
        BY <2>1, <2>3 DEF Admission, TypeOK
      <3>3. v # u => seatid'[s][v] = seatid[s][v]
        BY <2>1, <2>3 DEF Admission, TypeOK
      <3>4. Asking(v)' => Asking(v)
        BY <2>1, <3>2 DEF Asking
      <3>5. v = u /\ state[t] # "freeing" => ~Asking(v)'
        <4>1. state[t] # "freeing" => req' = [req EXCEPT ![u] = "joined"]
          BY <2>1, <2>3, AdmissionSeats
        <4> QED BY <4>1 DEF Asking, TypeOK
      <3>6. Asking(v)' /\ state'[s] = "open" /\ v \in members'[s] => state[s] = "open" /\ v \in members[s]
        BY <3>1, <3>2, <3>5 DEF TableOf
      <3>7. Running(s)' => Running(s) \/ ~LeavingTable(s, v)
        BY <3>1, <3>2 DEF Running, LeaveOf
      <3>8. leaving'[s][v] = leaving[s][v] /\ (v \in members[s] => v \in members'[s])
            /\ (state'[s] \in {"none", "new"} => state[s] \in {"none", "new"})
        BY <2>1, <3>2
      <3>9. LeavingTable(s, v) => seatid'[s][v] = seatid[s][v]
        BY <3>1, <3>3
      <3> QED BY <3>1, <3>4, <3>6, <3>7, <3>8, <3>9, LeaveFrame
    <2> QED BY <2>1, <2>2, <2>3
  <1> QED BY <1>1, <1>2, <1>3, <1>4 DEF Join

LEMMA EndLeaves ==
  ASSUME PInv, NEW t \in Table, StartGame(t) \/ EndGame(t) \/ Expire(t) \/ FreeTable(t)
  PROVE  LeaveInv'
  <1> USE DEF PInv, TInv, dataVars
  <1> SUFFICES ASSUME NEW s \in Table, NEW v \in User PROVE LeaveOf(s, v)'
    BY DEF LeaveInv
  <1>0. LeaveOf(s, v)
    BY DEF LeaveInv
  <1>1. UNCHANGED <<req, leaving>>
    BY DEF StartGame, EndGame, Expire, FreeTable, FreeTell, FreeKick, FreeEnd, CtrlFree
  <1>2. CASE UNCHANGED <<state, members, seatid>>
    <2>1. Asking(v)' <=> Asking(v)
      BY <1>1 DEF Asking
    <2> QED BY <1>0, <1>1, <1>2, <2>1, LeaveFrame DEF Running
  <1>3. CASE Expire(t)
    <2>1. /\ state[t] = "open" /\ UNCHANGED <<members, seatid>>
          /\ state'[s] = IF s = t THEN "freeing" ELSE state[s]
      BY <1>3 DEF Expire, TickReady, TypeOK
    <2> QED BY <1>0, <1>1, <2>1, LeaveFrame DEF Running, Asking
  <1>4. CASE FreeEnd(t)
    <2>1. /\ state'[s] = IF s = t THEN "freed" ELSE state[s]
          /\ s # t => members'[s] = members[s] /\ seatid'[s] = seatid[s]
          /\ seatid'[t] = [w \in User |-> 0]
      BY <1>4 DEF FreeEnd, LogicFree, TypeOK
    <2> QED BY <1>0, <1>1, <2>1, LeaveFrame DEF Running, Asking
  <1>5. CASE CtrlFree(t)
    <2>1. /\ UNCHANGED <<members, seatid>> /\ state'[s] = IF s = t THEN "gone" ELSE state[s]
      BY <1>5 DEF CtrlFree, TypeOK
    <2> QED BY <1>0, <1>1, <2>1, LeaveFrame DEF Running, Asking
  <1>6. ASSUME NEW u \in User, FreeTell(t, u) \/ FreeKick(t, u)
        PROVE  UNCHANGED <<state, members, seatid>>
    BY <1>6 DEF FreeTell, FreeKick
  <1>7. ASSUME StartGame(t) \/ EndGame(t) PROVE UNCHANGED <<state, members, seatid>>
    BY <1>7 DEF StartGame, EndGame
  <1> QED BY <1>2, <1>3, <1>4, <1>5, <1>6, <1>7 DEF FreeTable

-----------------------------------------------------------------------------
(* Tables. *)

LEMMA TableFrame ==
  ASSUME NEW t \in Table, TableOf(t), members'[t] = members[t], seat'[t] = seat[t],
         seatid'[t] = seatid[t], leaving'[t] = leaving[t],
         \/ count'[t] = count[t] /\ (state'[t] = state[t] \/ (state[t] = "open" /\ state'[t] = "freeing"))
         \/ state[t] = "freed" /\ state'[t] = "gone",
         visiting'[t] # None => visiting[t] # None \/ state'[t] = "freeing"
  PROVE  TableOf(t)'
  <1>1. \A u \in User : LeavingTable(t, u)' <=> LeavingTable(t, u)
    BY DEF LeavingTable
  <1> QED BY <1>1 DEF TableOf, Seated, Running, LeavingTable

LEMMA OtherTables ==
  ASSUME TypeOK, TableInv, NEW t \in Table, TableOf(t)',
         \A s \in Table \ {t} :
            /\ members'[s] = members[s] /\ seat'[s] = seat[s] /\ seatid'[s] = seatid[s]
            /\ leaving'[s] = leaving[s] /\ count'[s] = count[s] /\ state'[s] = state[s]
            /\ visiting'[s] = visiting[s]
  PROVE  TableInv'
  <1> SUFFICES ASSUME NEW s \in Table \ {t} PROVE TableOf(s)'
    BY DEF TableInv
  <1> QED BY TableFrame DEF TableInv

(* A player gives up the seat and begins to leave. *)
LEMMA TableSeatGivenUp ==
  ASSUME PInv, NEW t \in Table, NEW u \in User, NEW k \in Slots, StartLeave(t, u, k),
         ~LeavingTable(t, u), Running(t),
         seatid' = seatid \/ seatid' = [seatid EXCEPT ![t][u] = 0],
         UNCHANGED <<state, members, count, visiting>>
  PROVE  TableInv'
  <1> USE DEF PInv, TInv
  <1>1. /\ u \in members[t] /\ seatid[t][u] \in 1..Seats
        /\ seat' = [seat EXCEPT ![t][seatid[t][u]] = None]
        /\ leaving' = [leaving EXCEPT ![t][u][k] = "kick"]
    BY RoomAssumption DEF StartLeave, Vacate, TypeOK
  <1>2. \A s \in Table \ {t} : /\ members'[s] = members[s] /\ seat'[s] = seat[s]
                               /\ seatid'[s] = seatid[s] /\ leaving'[s] = leaving[s]
                               /\ count'[s] = count[s] /\ state'[s] = state[s]
                               /\ visiting'[s] = visiting[s]
    BY <1>1 DEF TypeOK
  <1>3. TableOf(t)
    BY DEF TableInv
  <1>4. state[t] = "open" => Seated(t)'
    <2> SUFFICES ASSUME state[t] = "open" PROVE Seated(t)'
      OBVIOUS
    <2>0. Seated(t)
      BY <1>3 DEF TableOf
    <2>1. LeavingTable(t, u)'
      <3>1. leaving'[t][u][k] = "kick"
        BY <1>1 DEF TypeOK
      <3> QED BY <3>1 DEF LeavingTable
    <2>2. \A v \in User \ {u} : /\ seatid'[t][v] = seatid[t][v]
                                /\ LeavingTable(t, v)' <=> LeavingTable(t, v)
      <3>1. \A v \in User \ {u} : seatid'[t][v] = seatid[t][v] /\ leaving'[t][v] = leaving[t][v]
        BY <1>1 DEF TypeOK
      <3> QED BY <3>1 DEF LeavingTable
    <2>3. \A i \in 1..Seats : seat'[t][i] = IF i = seatid[t][u] THEN None ELSE seat[t][i]
      BY <1>1 DEF TypeOK
    <2>4. seat[t][seatid[t][u]] = u
      BY <1>1, <2>0 DEF Seated
    <2>5. ASSUME NEW i \in 1..Seats, NEW v \in User, seat'[t][i] = v
          PROVE  v \in members'[t] /\ seatid'[t][v] = i /\ ~LeavingTable(t, v)'
      <3>1. i # seatid[t][u] /\ seat[t][i] = v
        BY <2>3, <2>5, RoomAssumption
      <3>2. v \in members[t] /\ seatid[t][v] = i /\ ~LeavingTable(t, v) /\ v # u
        BY <2>0, <3>1 DEF Seated
      <3> QED BY <2>2, <3>2
    <2>6. ASSUME NEW v \in members'[t], ~LeavingTable(t, v)'
          PROVE  seatid'[t][v] # 0 /\ seat'[t][seatid'[t][v]] = v
      <3>1. v \in User \ {u} /\ v \in members[t]
        BY <2>1, <2>6 DEF TypeOK
      <3>2. seatid[t][v] # 0 /\ seat[t][seatid[t][v]] = v /\ seatid[t][v] \in 0..Seats
        BY <2>0, <2>2, <2>6, <3>1 DEF Seated, TypeOK
      <3>3. seatid[t][v] # seatid[t][u] /\ seatid'[t][v] = seatid[t][v]
        BY <2>2, <2>4, <3>1, <3>2
      <3> QED BY <2>3, <3>2, <3>3, RoomAssumption
    <2> QED BY <2>5, <2>6 DEF Seated
  <1>5. TableOf(t)'
    BY <1>3, <1>4 DEF TableOf, Running
  <1> QED BY <1>2, <1>5, OtherTables

LEMMA AdmissionTable ==
  ASSUME PInv, NEW t \in Table, NEW u \in User, req[u] = "table", Admission(t, u),
         UNCHANGED <<leaving, visiting>>
  PROVE  TableInv'
  <1> USE DEF PInv, TInv
  <1>1. /\ members'[t] = members[t] \cup {u} /\ count'[t] = count[t] + 1
        /\ state[t] \in {"new", "open", "freeing"}
        /\ state'[t] = IF state[t] = "freeing" THEN "freeing" ELSE "open"
    BY DEF Admission, TypeOK
  <1>2. \A s \in Table \ {t} : /\ members'[s] = members[s] /\ seat'[s] = seat[s]
                               /\ seatid'[s] = seatid[s] /\ leaving'[s] = leaving[s]
                               /\ count'[s] = count[s] /\ state'[s] = state[s]
                               /\ visiting'[s] = visiting[s]
    BY DEF Admission, TypeOK
  <1>3. TableOf(t) /\ count[t] \in Int
    BY DEF TableInv, TypeOK
  <1>4. /\ IsFiniteSet(members'[t]) /\ Cardinality(members[t]) \in Nat
        /\ Cardinality(members'[t]) =
             IF u \in members[t] THEN Cardinality(members[t]) ELSE Cardinality(members[t]) + 1
    BY <1>1, <1>3, FS_AddElement, FS_CardinalityType DEF TableOf
  <1>5. ASSUME state[t] = "freeing" PROVE TableOf(t)'
    <2>1. count'[t] >= Cardinality(members'[t])
      BY <1>1, <1>3, <1>4, <1>5 DEF TableOf, Running
    <2> QED BY <1>1, <1>4, <1>5, <2>1 DEF TableOf
  <1>6. ASSUME state[t] # "freeing" PROVE TableOf(t)'
    <2>1. u \notin members[t] /\ ~LeavingTable(t, u)
      BY <1>6, AdmissionSeats
    <2>2. PICK i \in 1..Seats : /\ seat[t][i] = None /\ seat' = [seat EXCEPT ![t][i] = u]
                                /\ seatid' = [seatid EXCEPT ![t][u] = i]
      BY <1>6, AdmissionSeats
    <2>3. \A v \in User : LeavingTable(t, v)' <=> LeavingTable(t, v)
      BY DEF LeavingTable
    <2>4. \A j \in 1..Seats : seat'[t][j] = IF j = i THEN u ELSE seat[t][j]
      BY <2>2 DEF TypeOK
    <2>5. \A v \in User : seatid'[t][v] = IF v = u THEN i ELSE seatid[t][v]
      BY <2>2 DEF TypeOK
    <2>6. /\ \A j \in 1..Seats, v \in User : seat[t][j] = v =>
               v \in members[t] /\ seatid[t][v] = j /\ ~LeavingTable(t, v)
          /\ \A v \in members[t] : ~LeavingTable(t, v) =>
               seatid[t][v] # 0 /\ seat[t][seatid[t][v]] = v
      <3>1. CASE state[t] = "open"
        BY <1>3, <3>1 DEF TableOf, Seated
      <3>2. CASE state[t] = "new"
        BY <1>3, <3>2, RoomAssumption DEF TableOf
      <3> QED BY <1>1, <1>6, <3>1, <3>2
    <2>7. \A j \in 1..Seats, v \in User : seat'[t][j] = v =>
               v \in members'[t] /\ seatid'[t][v] = j /\ ~LeavingTable(t, v)'
      BY <1>1, <2>1, <2>3, <2>4, <2>5, <2>6
    <2>8. \A v \in members'[t] : ~LeavingTable(t, v)' =>
               seatid'[t][v] # 0 /\ seat'[t][seatid'[t][v]] = v
      <3> SUFFICES ASSUME NEW v \in members'[t], ~LeavingTable(t, v)'
                   PROVE  seatid'[t][v] # 0 /\ seat'[t][seatid'[t][v]] = v
        OBVIOUS
      <3>1. CASE v = u
        BY <2>2, <2>4, <2>5, <3>1
      <3>2. CASE v # u
        <4>1. v \in members[t] /\ v \in User /\ ~LeavingTable(t, v)
          BY <1>1, <2>3, <3>2 DEF TypeOK
        <4>2. /\ seatid[t][v] # 0 /\ seat[t][seatid[t][v]] = v /\ seatid[t][v] \in 0..Seats
              /\ seatid'[t][v] = seatid[t][v]
          BY <2>5, <2>6, <3>2, <4>1 DEF TypeOK
        <4>3. seatid[t][v] \in 1..Seats /\ seatid[t][v] # i
          BY <2>2, <4>1, <4>2, RoomAssumption
        <4> QED BY <2>4, <4>2, <4>3
      <3> QED BY <3>1, <3>2
    <2>9. Seated(t)'
      BY <2>7, <2>8 DEF Seated
    <2>10. count'[t] = Cardinality(members'[t])
      BY <1>1, <1>3, <1>4, <1>6, <2>1, FS_EmptySet DEF TableOf
    <2>11. visiting'[t] = None
      BY <1>1, <1>3, <1>6 DEF TableOf
    <2>12. state'[t] = "open" /\ count'[t] >= Cardinality(members'[t])
      BY <1>1, <1>4, <1>6, <2>10
    <2> QED BY <1>4, <2>9, <2>10, <2>11, <2>12 DEF TableOf
  <1>7. TableOf(t)'
    BY <1>5, <1>6
  <1> QED BY <1>2, <1>7, OtherTables

LEMMA RemovalTable ==
  ASSUME PInv, NEW t \in Table, NEW u \in User, NEW k \in Slots, Removal(t, u),
         leaving[t][u][k] # "none", leaving' = [leaving EXCEPT ![t][u][k] = "none"],
         UNCHANGED visiting
  PROVE  /\ TableInv'
         /\ members'[t] # {} => UNCHANGED <<state, todo>>
  <1> USE DEF PInv, TInv
  <1>1. /\ members'[t] = members[t] \ {u} /\ count'[t] = count[t] - 1 /\ Running(t)
        /\ seatid' = [seatid EXCEPT ![t][u] = 0]
    BY DEF Removal, TypeOK
  <1>2. \A s \in Table \ {t} : /\ members'[s] = members[s] /\ seat'[s] = seat[s]
                               /\ seatid'[s] = seatid[s] /\ leaving'[s] = leaving[s]
                               /\ count'[s] = count[s] /\ state'[s] = state[s]
                               /\ visiting'[s] = visiting[s]
    BY DEF Removal, TypeOK
  <1>3. TableOf(t) /\ LeaveOf(t, u) /\ count[t] \in Int /\ LeavingTable(t, u)
    BY DEF TableInv, LeaveInv, TypeOK, LeavingTable
  <1>4. u \in members[t]
    BY <1>1, <1>3 DEF LeaveOf
  <1>5. /\ IsFiniteSet(members'[t]) /\ Cardinality(members'[t]) \in Nat
        /\ Cardinality(members'[t]) = Cardinality(members[t]) - 1
        /\ members'[t] = {} <=> Cardinality(members'[t]) = 0
    <2>1. IsFiniteSet(members[t])
      BY <1>3 DEF TableOf
    <2>2. IsFiniteSet(members[t] \ {u}) /\ Cardinality(members[t] \ {u}) = Cardinality(members[t]) - 1
      BY <1>4, <2>1, FS_RemoveElement
    <2> QED BY <1>1, <2>2, FS_CardinalityType, FS_EmptySet
  <1>6. /\ count[t] >= Cardinality(members[t]) /\ Cardinality(members[t]) \in Nat
        /\ state[t] = "open" => count[t] = Cardinality(members[t])
    BY <1>1, <1>3, FS_CardinalityType DEF TableOf
  <1>7. members'[t] # {} => ~(count[t] - 1 < 1)
    BY <1>3, <1>5, <1>6
  <1>8. \/ UNCHANGED <<state, todo, seat>> /\ ~(count[t] - 1 < 1)
        \/ members'[t] = {} /\ state' = [state EXCEPT ![t] = "freed"]
    BY <1>1, <1>7 DEF Removal
  <1>9. CASE UNCHANGED <<state, todo, seat>> /\ ~(count[t] - 1 < 1)
    <2>1. state[t] = "open" => Seated(t)'
      <3> SUFFICES ASSUME state[t] = "open" PROVE Seated(t)'
        OBVIOUS
      <3>1. Seated(t)
        BY <1>3 DEF TableOf
      <3>2. \A v \in User \ {u} : /\ seatid'[t][v] = seatid[t][v]
                                  /\ LeavingTable(t, v)' <=> LeavingTable(t, v)
        <4>1. \A v \in User \ {u} : seatid'[t][v] = seatid[t][v] /\ leaving'[t][v] = leaving[t][v]
          BY <1>1 DEF TypeOK
        <4> QED BY <4>1 DEF LeavingTable
      <3>3. \A i \in 1..Seats : seat[t][i] # u
        BY <1>3, <3>1 DEF Seated
      <3>4. members[t] \subseteq User
        BY DEF TypeOK
      <3>5. \A i \in 1..Seats, v \in User : seat'[t][i] = v =>
              v \in members'[t] /\ seatid'[t][v] = i /\ ~LeavingTable(t, v)'
        BY <1>1, <1>9, <3>1, <3>2, <3>3 DEF Seated
      <3>6. \A v \in members'[t] : ~LeavingTable(t, v)' =>
              seatid'[t][v] # 0 /\ seat'[t][seatid'[t][v]] = v
        BY <1>1, <1>9, <3>1, <3>2, <3>4 DEF Seated
      <3> QED BY <3>5, <3>6 DEF Seated
    <2>2. TableOf(t)'
      BY <1>1, <1>3, <1>5, <1>6, <1>9, <2>1 DEF TableOf, Running
    <2> QED BY <1>2, <1>9, <2>2, OtherTables
  <1>10. CASE members'[t] = {} /\ state' = [state EXCEPT ![t] = "freed"]
    <2>1. TableOf(t)'
      BY <1>3, <1>5, <1>10 DEF TableOf, Running, TypeOK
    <2> QED BY <1>2, <1>10, <2>1, OtherTables
  <1> QED BY <1>8, <1>9, <1>10

LEMMA JoinTables ==
  ASSUME PInv, NEW u \in User, ReqJoin(u) \/ Join(u)
  PROVE  TableInv'
  <1> USE DEF PInv, TInv
  <1>1. CASE UNCHANGED tableVars
    BY <1>1, TableFrame DEF TableInv, tableVars
  <1>2. CASE CtrlJoin(u)
    <2>1. UNCHANGED <<members, count, seat, seatid, leaving, visiting>>
      BY <1>2 DEF CtrlJoin
    <2>2. \A t \in Table : state'[t] = state[t] \/ (state[t] = "none" /\ state'[t] = "new")
      BY <1>2 DEF CtrlJoin, TypeOK
    <2> SUFFICES ASSUME NEW t \in Table PROVE TableOf(t)'
      BY DEF TableInv
    <2>3. TableOf(t)
      BY DEF TableInv
    <2>4. CASE state'[t] = state[t]
      BY <2>1, <2>3, <2>4, TableFrame
    <2>5. CASE state[t] = "none" /\ state'[t] = "new"
      BY <2>1, <2>3, <2>5 DEF TableOf, Running
    <2> QED BY <2>2, <2>4, <2>5
  <1>3. CASE TableJoin(u)
    <2>1. /\ target[u] \in Table /\ req[u] = "table"
          /\ UNCHANGED <<started, leaving, expired, visiting>>
          /\ Refusal(u) \/ Admission(target[u], u)
      BY <1>3, TableJoinOutcomes
    <2>2. CASE Refusal(u)
      BY <2>1, <2>2, TableFrame DEF Refusal, TableInv
    <2> QED BY <2>1, <2>2, AdmissionTable
  <1> QED BY <1>1, <1>2, <1>3 DEF Join, ReqJoin, CtrlNewTable, CtrlJoined, CtrlRefused, JoinReply

LEMMA LeaveTables ==
  ASSUME PInv, NEW t \in Table, NEW u \in User,
         Leave(t, u) \/ KickIdle(t, u) \/ \E k \in Slots : ReqLeave(t, u, k)
  PROVE  TableInv'
  <1> USE DEF PInv, TInv
  <1>1. ASSUME NEW k \in Slots, ReqLeave(t, u, k) PROVE TableInv'
    <2>1. ~LeavingTable(t, u)
      BY <1>1, ReqLeaveLeaves
    <2>2. /\ StartLeave(t, u, k) /\ Running(t)
          /\ UNCHANGED <<seatid, state, members, count, visiting>>
      BY <1>1 DEF ReqLeave
    <2> QED BY <2>1, <2>2, TableSeatGivenUp
  <1>2. CASE KickIdle(t, u)
    <2>1. ~LeavingTable(t, u)
      BY <1>2, KickLeaves
    <2>2. /\ StartLeave(t, u, 0) /\ Running(t) /\ 0 \in Slots
          /\ seatid' = [seatid EXCEPT ![t][u] = 0]
          /\ UNCHANGED <<state, members, count, visiting>>
      BY <1>2, RoomAssumption DEF KickIdle, TickReady, Running, Slots
    <2> QED BY <2>1, <2>2, TableSeatGivenUp
  <1>3. ASSUME NEW k \in Slots, LeaveKick(t, u, k) \/ LeaveTell(t, u, k) \/ LeaveData(t, u, k)
        PROVE  TableInv'
    <2>1. PICK x \in Leaves : leaving' = [leaving EXCEPT ![t][u][k] = x]
                              /\ (x = "none" => ~(Running(t) /\ u \in members[t]))
      BY <1>3 DEF LeaveKick, LeaveTell, LeaveData, Leaves
    <2>2. leaving[t][u][k] # "none" /\ UNCHANGED <<state, members, count, seat, seatid, visiting>>
      BY <1>3 DEF LeaveKick, LeaveTell, LeaveData
    <2>3. LeavingTable(t, u) /\ LeaveOf(t, u)
      BY <2>2 DEF LeavingTable, LeaveInv
    <2>4. x # "none" \/ state[t] # "open"
      BY <2>1, <2>3 DEF LeaveOf, Running
    <2>5. \A v \in User \ {u} : LeavingTable(t, v)' <=> LeavingTable(t, v)
      <3>1. \A v \in User \ {u} : leaving'[t][v] = leaving[t][v]
        BY <2>1 DEF TypeOK
      <3> QED BY <3>1 DEF LeavingTable
    <2>6. state[t] = "open" => \A v \in User : LeavingTable(t, v)' <=> LeavingTable(t, v)
      <3>1. leaving'[t][u][k] = x
        BY <2>1 DEF TypeOK
      <3>2. state[t] = "open" => LeavingTable(t, u)'
        BY <2>4, <3>1 DEF LeavingTable
      <3> QED BY <2>3, <2>5, <3>2
    <2>7. TableOf(t)'
      <3>1. TableOf(t) /\ members[t] \subseteq User
        BY DEF TableInv, TypeOK
      <3>2. state[t] = "open" => Seated(t)'
        BY <2>2, <2>6, <3>1 DEF TableOf, Seated
      <3> QED BY <2>2, <3>1, <3>2 DEF TableOf, Running
    <2>8. \A s \in Table \ {t} : leaving'[s] = leaving[s]
      BY <2>1 DEF TypeOK
    <2> QED BY <2>2, <2>7, <2>8, OtherTables
  <1>4. ASSUME NEW k \in Slots, LeaveDone(t, u, k) PROVE TableInv'
    <2>1. /\ leaving[t][u][k] # "none" /\ leaving' = [leaving EXCEPT ![t][u][k] = "none"]
          /\ UNCHANGED visiting
      BY <1>4, LeaveDoneOutcomes
    <2>2. CASE ~Running(t) /\ UNCHANGED <<state, members, count, todo, seat, seatid>>
      <3>1. TableOf(t)'
        <4>1. TableOf(t)
          BY DEF TableInv
        <4> QED BY <2>1, <2>2, <4>1 DEF TableOf, Running
      <3>2. \A s \in Table \ {t} : leaving'[s] = leaving[s]
        BY <2>1 DEF TypeOK
      <3> QED BY <2>1, <2>2, <3>1, <3>2, OtherTables
    <2>3. CASE Removal(t, u)
      BY <2>1, <2>3, RemovalTable
    <2> QED BY <1>4, <2>2, <2>3, LeaveDoneOutcomes
  <1> QED BY <1>1, <1>2, <1>3, <1>4 DEF Leave

LEMMA EndTables ==
  ASSUME PInv, NEW t \in Table, StartGame(t) \/ EndGame(t) \/ Expire(t) \/ FreeTable(t)
  PROVE  TableInv'
  <1> USE DEF PInv, TInv
  <1>0. TableOf(t)
    BY DEF TableInv
  <1>1. CASE StartGame(t) \/ EndGame(t)
    BY <1>1, TableFrame DEF StartGame, EndGame, TableInv
  <1>2. CASE Expire(t)
    <2>1. /\ UNCHANGED <<members, count, seat, seatid, leaving, visiting>>
          /\ state[t] = "open" /\ state' = [state EXCEPT ![t] = "freeing"]
      BY <1>2 DEF Expire, TickReady
    <2>2. TableOf(t)'
      BY <1>0, <2>1, TableFrame DEF TypeOK
    <2> QED BY <2>1, <2>2, OtherTables DEF TypeOK
  <1>3. ASSUME NEW u \in User, FreeTell(t, u) PROVE TableInv'
    <2>1. /\ UNCHANGED <<members, count, seat, seatid, leaving, state>>
          /\ state[t] = "freeing" /\ visiting' = [visiting EXCEPT ![t] = u]
      BY <1>3 DEF FreeTell
    <2>2. TableOf(t)'
      BY <1>0, <2>1, TableFrame
    <2> QED BY <2>1, <2>2, OtherTables DEF TypeOK
  <1>4. ASSUME NEW u \in User, FreeKick(t, u) PROVE TableInv'
    <2>1. /\ UNCHANGED <<members, count, seat, seatid, leaving, state>>
          /\ visiting' = [visiting EXCEPT ![t] = None]
      BY <1>4 DEF FreeKick
    <2>2. visiting'[t] = None
      BY <2>1 DEF TypeOK
    <2>3. TableOf(t)'
      BY <1>0, <2>1, <2>2, TableFrame
    <2> QED BY <2>1, <2>3, OtherTables DEF TypeOK
  <1>5. CASE FreeEnd(t)
    <2>1. /\ UNCHANGED <<count, leaving, visiting>>
          /\ members'[t] = {} /\ state'[t] = "freed"
          /\ \A s \in Table \ {t} : /\ members'[s] = members[s] /\ seat'[s] = seat[s]
                                    /\ seatid'[s] = seatid[s] /\ state'[s] = state[s]
      BY <1>5 DEF FreeEnd, LogicFree, TypeOK
    <2>2. TableOf(t)'
      BY <2>1, FS_EmptySet DEF TableOf, Running
    <2> QED BY <2>1, <2>2, OtherTables
  <1>6. CASE CtrlFree(t)
    <2>1. /\ UNCHANGED <<members, seat, seatid, leaving, visiting>>
          /\ state[t] = "freed" /\ state'[t] = "gone"
          /\ \A s \in Table \ {t} : state'[s] = state[s] /\ count'[s] = count[s]
      BY <1>6 DEF CtrlFree, TypeOK
    <2>2. TableOf(t)'
      BY <1>0, <2>1, TableFrame
    <2> QED BY <2>1, <2>2, OtherTables
  <1> QED BY <1>1, <1>2, <1>3, <1>4, <1>5, <1>6 DEF FreeTable

-----------------------------------------------------------------------------
(* The places of players. *)

(* What the places of a player depend on. *)
LEMMA PlaceFrame ==
  ASSUME NEW u \in User, PlaceOf(u), at'[u] = at[u], req'[u] = req[u], target'[u] = target[u],
         u \in players' <=> u \in players,
         \A t \in Table : /\ Present(t, u)' <=> Present(t, u)
                          /\ leaving'[t][u] = leaving[t][u]
                          /\ visiting'[t] = u <=> visiting[t] = u
  PROVE  PlaceOf(u)'
  <1>1. \A t \in Table : /\ LeavingTable(t, u)' <=> LeavingTable(t, u)
                         /\ Told(t, u)' <=> Told(t, u)
                         /\ Unregistered(t, u)' <=> Unregistered(t, u)
    BY DEF LeavingTable, Told, Unregistered
  <1>2. \A t \in Table : Tied(t, u)' <=> Tied(t, u)
    BY <1>1 DEF Tied
  <1>3. Asking(u)' <=> Asking(u)
    BY DEF Asking
  <1> QED BY <1>1, <1>2, <1>3 DEF PlaceOf

(* A step of one player leaves the places of the others alone. *)
LEMMA OtherPlaces ==
  ASSUME PlaceInv, NEW u \in User, late \subseteq late', u \notin late' => PlaceOf(u)',
         \A v \in User \ {u} :
           /\ at'[v] = at[v] /\ req'[v] = req[v] /\ target'[v] = target[v]
           /\ v \in players' <=> v \in players
           /\ \A t \in Table : /\ Present(t, v)' <=> Present(t, v)
                               /\ leaving'[t][v] = leaving[t][v]
                               /\ visiting'[t] = v <=> visiting[t] = v
  PROVE  PlaceInv'
  <1> SUFFICES ASSUME NEW v \in User \ late', v # u PROVE PlaceOf(v)'
    BY DEF PlaceInv
  <1>1. PlaceOf(v)
    BY DEF PlaceInv
  <1> QED BY <1>1, PlaceFrame

LEMMA JoinPlaces ==
  ASSUME PInv, NEW u \in User, ReqJoin(u) \/ Join(u)
  PROVE  PlaceInv'
  <1> USE DEF PInv, TInv
  <1>0. u \notin late => PlaceOf(u)
    BY DEF PlaceInv
  <1>1. CASE ReqJoin(u)
    <2>1. /\ at[u] = None /\ req[u] = "none" /\ req' = [req EXCEPT ![u] = "ctrl"]
          /\ late \subseteq late' /\ UNCHANGED <<at, target, players, tableVars>>
      BY <1>1 DEF ReqJoin, ctrlVars
    <2>2. \A t \in Table, v \in User : /\ Present(t, v)' <=> Present(t, v)
                                       /\ Tied(t, v)' <=> Tied(t, v)
      BY <2>1 DEF Present, Tied, LeavingTable, tableVars
    <2>3. u \notin late' => PlaceOf(u)'
      <3> SUFFICES ASSUME u \notin late' PROVE PlaceOf(u)'
        OBVIOUS
      <3>1. \A t \in Table : ~Tied(t, u) /\ ~Present(t, u)
        BY <1>1, Untied DEF Tied
      <3>2. u \notin players
        BY <1>0, <2>1, <3>1 DEF PlaceOf
      <3>3. req'[u] = "ctrl" /\ at'[u] = None
        BY <2>1 DEF TypeOK
      <3> QED BY <2>1, <2>2, <3>1, <3>2, <3>3, RoomAssumption DEF PlaceOf
    <2>4. \A v \in User \ {u} : req'[v] = req[v]
      BY <2>1 DEF TypeOK
    <2> QED BY <2>1, <2>2, <2>3, <2>4, OtherPlaces DEF tableVars
  <1>2. CASE CtrlJoin(u)
    <2>1. /\ req[u] = "ctrl" /\ UNCHANGED <<at, players, members, leaving, todo, visiting, late>>
      BY <1>2 DEF CtrlJoin
    <2>2. /\ \A v \in User \ {u} : req'[v] = req[v] /\ target'[v] = target[v]
          /\ req'[u] \in {"none", "table", "service"}
      BY <1>2 DEF CtrlJoin, SendTo, TypeOK
    <2>3. \A t \in Table : state'[t] = state[t] \/ (state[t] = "none" /\ state'[t] = "new")
      BY <1>2 DEF CtrlJoin, TypeOK
    <2>4. \A t \in Table, v \in User : /\ Present(t, v)' <=> Present(t, v)
                                       /\ Tied(t, v)' <=> Tied(t, v)
      BY <2>1, <2>3 DEF Present, Tied, LeavingTable
    <2>5. u \notin late => PlaceOf(u)'
      <3> SUFFICES ASSUME u \notin late PROVE PlaceOf(u)'
        OBVIOUS
      <3>1. \A t \in Table : ~Tied(t, u) /\ ~Present(t, u)
        BY <1>0, <2>1 DEF PlaceOf, Asking, Tied
      <3>2. u \notin players /\ at[u] = None
        BY <1>0, <2>1, <3>1 DEF PlaceOf, RequestInv, RequestOf
      <3> QED BY <2>1, <2>2, <2>4, <3>1, <3>2, RoomAssumption DEF PlaceOf
    <2> QED BY <2>1, <2>2, <2>4, <2>5, OtherPlaces
  <1>3. CASE CtrlNewTable(u) \/ CtrlRefused(u)
    <2>1. /\ Asking(u) /\ UNCHANGED <<at, players, tableVars, late>>
          /\ \A v \in User \ {u} : req'[v] = req[v] /\ target'[v] = target[v]
          /\ req'[u] \in {"none", "table"}
      BY <1>3 DEF CtrlNewTable, SendTo, CtrlRefused, Asking, TypeOK, ctrlVars
    <2>2. \A t \in Table, v \in User : /\ Present(t, v)' <=> Present(t, v)
                                       /\ Tied(t, v)' <=> Tied(t, v)
      BY <2>1 DEF Present, Tied, LeavingTable, tableVars
    <2>3. u \notin late => PlaceOf(u)'
      <3> SUFFICES ASSUME u \notin late PROVE PlaceOf(u)'
        OBVIOUS
      <3>1. \A t \in Table : ~Tied(t, u) /\ ~Present(t, u)
        BY <1>0, <2>1 DEF PlaceOf, Tied
      <3>2. u \notin players /\ at[u] = None
        BY <1>0, <2>1, <3>1 DEF PlaceOf, RequestInv, RequestOf, Asking
      <3> QED BY <2>1, <2>2, <3>1, <3>2, RoomAssumption DEF PlaceOf
    <2> QED BY <2>1, <2>2, <2>3, OtherPlaces DEF tableVars
  <1>4. CASE CtrlJoined(u)
    <2>1. /\ req[u] = "joined" /\ req' = [req EXCEPT ![u] = "back"] /\ players' = players \cup {u}
          /\ UNCHANGED <<at, target, tableVars, late>>
      BY <1>4 DEF CtrlJoined
    <2>2. \A t \in Table, v \in User : /\ Present(t, v)' <=> Present(t, v)
                                       /\ Tied(t, v)' <=> Tied(t, v)
                                       /\ Told(t, v)' <=> Told(t, v)
                                       /\ Unregistered(t, v)' <=> Unregistered(t, v)
      BY <2>1 DEF Present, Tied, LeavingTable, Told, Unregistered, tableVars
    <2>3. u \notin late => PlaceOf(u)'
      <3> SUFFICES ASSUME u \notin late PROVE PlaceOf(u)'
        OBVIOUS
      <3>1. req'[u] = "back" /\ u \in players' /\ target[u] \in Table /\ at[u] = None
        BY <2>1 DEF TypeOK, RequestInv, RequestOf
      <3>2. Present(target[u], u) /\ ~Unregistered(target[u], u)
        BY <1>0, <2>1, <3>1 DEF PlaceOf
      <3> QED BY <1>0, <2>1, <2>2, <3>1, <3>2, RoomAssumption DEF PlaceOf, Asking
    <2>4. \A v \in User \ {u} : req'[v] = req[v]
      BY <2>1 DEF TypeOK
    <2> QED BY <2>1, <2>2, <2>3, <2>4, OtherPlaces DEF tableVars
  <1>5. CASE JoinReply(u)
    <2>1. /\ req[u] = "back" /\ req' = [req EXCEPT ![u] = "none"]
          /\ at' = [at EXCEPT ![u] = target[u]] /\ target' = [target EXCEPT ![u] = None]
          /\ late' = (IF Settled(target[u], u) THEN late ELSE late \cup {u})
          /\ UNCHANGED <<players, tableVars>>
      BY <1>5 DEF JoinReply, ctrlVars
    <2>2. \A t \in Table, v \in User : /\ Present(t, v)' <=> Present(t, v)
                                       /\ Tied(t, v)' <=> Tied(t, v)
                                       /\ Told(t, v)' <=> Told(t, v)
                                       /\ Unregistered(t, v)' <=> Unregistered(t, v)
      BY <2>1 DEF Present, Tied, LeavingTable, Told, Unregistered, tableVars
    <2>3. u \notin late' => PlaceOf(u)'
      <3> SUFFICES ASSUME u \notin late' PROVE PlaceOf(u)'
        OBVIOUS
      <3> DEFINE t == target[u]
      <3>1. /\ u \notin late /\ Settled(t, u) /\ t \in Table /\ t # None
            /\ req'[u] = "none" /\ at'[u] = t
        BY <2>1, RoomAssumption DEF TypeOK, RequestInv, RequestOf
      <3>2. Present(t, u) /\ ~Told(t, u) /\ ~Unregistered(t, u)
        BY <3>1 DEF Settled, Present, Told, Unregistered
      <3>3. visiting[t] # u
        BY <3>1, RoomAssumption DEF Settled, TableInv, TableOf
      <3>4. visiting'[t] # u
        BY <2>1, <3>3 DEF tableVars
      <3> HIDE DEF t
      <3> QED BY <1>0, <2>1, <2>2, <3>1, <3>2, <3>4 DEF PlaceOf, Asking
    <2>4. \A v \in User \ {u} : req'[v] = req[v] /\ at'[v] = at[v] /\ target'[v] = target[v]
      BY <2>1 DEF TypeOK
    <2> QED BY <2>1, <2>2, <2>3, <2>4, OtherPlaces DEF tableVars
  <1>6. CASE TableJoin(u)
    <2>1. PICK t \in Table : /\ t = target[u] /\ req[u] = "table"
                             /\ UNCHANGED <<at, target, players, leaving, visiting>>
                             /\ Refusal(u) \/ Admission(t, u)
      BY <1>6, TableJoinOutcomes DEF ctrlVars
    <2>2. CASE Refusal(u)
      <3>1. \A v \in User \ {u} : req'[v] = req[v]
        BY <2>2 DEF Refusal, TypeOK
      <3>2. \A s \in Table, v \in User : /\ Present(s, v)' <=> Present(s, v)
                                         /\ Tied(s, v)' <=> Tied(s, v)
        BY <2>1, <2>2 DEF Refusal, Present, Tied, LeavingTable
      <3>3. u \notin late => PlaceOf(u)'
        <4> SUFFICES ASSUME u \notin late PROVE PlaceOf(u)'
          OBVIOUS
        <4>1. \A s \in Table : ~Tied(s, u) /\ ~Present(s, u)
          BY <1>0, <2>1 DEF PlaceOf, Asking, Tied
        <4>2. u \notin players /\ at[u] = None
          BY <1>0, <2>1, <4>1 DEF PlaceOf, RequestInv, RequestOf
        <4>3. req'[u] = "refused"
          BY <2>2 DEF Refusal, TypeOK
        <4> QED BY <2>1, <3>2, <4>1, <4>2, <4>3, RoomAssumption DEF PlaceOf
      <3> QED BY <2>1, <2>2, <3>1, <3>2, <3>3, OtherPlaces DEF Refusal
    <2>3. CASE Admission(t, u)
      <3>1. /\ \A s \in Table : members'[s] = IF s = t THEN members[t] \cup {u} ELSE members[s]
            /\ \A s \in Table : state'[s] = IF s = t /\ state[t] # "freeing" THEN "open" ELSE state[s]
            /\ state[t] \in {"new", "open", "freeing"}
            /\ state[t] # "freeing" => UNCHANGED <<todo, late>>
        BY <2>1, <2>3 DEF Admission, TypeOK
      <3>2. /\ \A v \in User \ {u} : req'[v] = req[v]
            /\ \A s \in Table, v \in User \ {u} : v \in todo'[s] <=> v \in todo[s]
            /\ late \subseteq late' /\ (state[t] = "freeing" => u \in late')
        <4>1. /\ req' = [req EXCEPT ![u] = "joined"] \/ req' = [req EXCEPT ![u] = "refused"]
              /\ todo' = todo \/ todo' = [todo EXCEPT ![t] = todo[t] \cup {u}]
              /\ late \subseteq late' /\ (state[t] = "freeing" => u \in late')
          BY <2>3 DEF Admission
        <4>2. \A s \in Table, v \in User \ {u} : v \in todo'[s] <=> v \in todo[s]
          <5>1. \A s \in Table : todo'[s] = todo[s] \/ todo'[s] = todo[s] \cup {u}
            BY <4>1 DEF TypeOK
          <5> QED BY <5>1
        <4>3. \A v \in User \ {u} : req'[v] = req[v]
          BY <4>1 DEF TypeOK
        <4> QED BY <4>1, <4>2, <4>3
      <3>3. state[t] = "new" => members[t] = {}
        BY <2>1 DEF TableInv, TableOf
      <3>4. \A s \in Table, v \in User \ {u} : Present(s, v)' <=> Present(s, v)
        BY <3>1, <3>2, <3>3 DEF Present
      <3>5. u \notin late' => PlaceOf(u)'
        <4> SUFFICES ASSUME u \notin late' PROVE PlaceOf(u)'
          OBVIOUS
        <4>1. state[t] # "freeing" /\ u \notin late
          BY <3>2
        <4>2. \A s \in Table : ~Tied(s, u)
          BY <1>0, <2>1, <4>1 DEF PlaceOf, Asking
        <4>3. u \notin players /\ at[u] = None
          BY <1>0, <2>1, <4>1, <4>2 DEF PlaceOf, Tied, RequestInv, RequestOf
        <4>4. req'[u] = "joined"
          <5>1. req' = [req EXCEPT ![u] = "joined"]
            BY <2>1, <2>3, <4>1, AdmissionSeats
          <5> QED BY <5>1 DEF TypeOK
        <4>5. \A s \in Table : ~LeavingTable(s, u)' /\ visiting'[s] # u
          BY <2>1, <4>2 DEF Tied, LeavingTable
        <4>6. \A s \in Table : Present(s, u)' <=> s = t
          <5>1. \A s \in Table : ~Present(s, u)
            BY <4>2 DEF Tied
          <5>2. Present(t, u)'
            BY <2>1, <3>1, <4>1 DEF Present
          <5> QED BY <3>1, <4>1, <5>1, <5>2 DEF Present
        <4>7. \A s \in Table : Tied(s, u)' <=> s = t
          BY <4>5, <4>6 DEF Tied
        <4>8. \A s \in Table : ~Unregistered(s, u)'
          BY <4>5 DEF LeavingTable, Unregistered
        <4>9. target'[u] = t /\ at'[u] = None /\ u \notin players'
          BY <2>1, <4>3
        <4> QED BY <4>4, <4>6, <4>7, <4>8, <4>9, RoomAssumption DEF PlaceOf, Asking
      <3> QED BY <2>1, <3>2, <3>4, <3>5, OtherPlaces
    <2> QED BY <2>1, <2>2, <2>3
  <1> QED BY <1>1, <1>2, <1>3, <1>4, <1>5, <1>6 DEF Join

(* A leave goes on: the player is tied to no other table, and its answer   *)
(* to the ctrl has arrived.                                                *)
LEMMA LeaveTies ==
  ASSUME PInv, NEW t \in Table, NEW u \in User \ late, LeavingTable(t, u)
  PROVE  /\ PlaceOf(u) /\ Tied(t, u) /\ ~Asking(u)
         /\ \A s \in Table : Tied(s, u) => s = t
         /\ \A s \in Table : Present(s, u) => s = t
         /\ at[u] # None => at[u] = t
         /\ Unregistered(t, u) => req[u] # "joined" /\ u \notin players
  <1> USE DEF PInv, TInv
  <1>1. PlaceOf(u) /\ Tied(t, u)
    BY DEF PlaceInv, Tied
  <1>2. \A s \in Table : Tied(s, u) => s = t
    BY <1>1 DEF PlaceOf
  <1>3. \A s \in Table : Present(s, u) => s = t
    BY <1>2 DEF Tied
  <1>4. ~Asking(u)
    BY <1>1 DEF PlaceOf
  <1>5. at[u] # None => at[u] = t
    <2>1. at[u] # None => at[u] \in Table
      BY DEF TypeOK, TableOrNone
    <2> QED BY <1>1, <1>3, <2>1 DEF PlaceOf
  <1>6. Unregistered(t, u) => req[u] # "joined" /\ u \notin players
    <2>1. req[u] = "joined" => target[u] \in Table
      BY DEF RequestInv, RequestOf
    <2> QED BY <1>1, <1>3, <2>1 DEF PlaceOf
  <1> QED BY <1>1, <1>2, <1>3, <1>4, <1>5, <1>6

LEMMA LeaveStartPlaces ==
  ASSUME PInv, NEW t \in Table, NEW u \in User, NEW k \in Slots,
         leaving' = [leaving EXCEPT ![t][u][k] = "kick"], ~LeavingTable(t, u),
         u \notin late => Present(t, u),
         UNCHANGED <<dataVars, ctrlVars, state, members, todo, visiting, late>>
  PROVE  PlaceInv'
  <1> USE DEF PInv, TInv, dataVars, ctrlVars
  <1>1. /\ ~Told(t, u)' /\ ~Unregistered(t, u)' /\ LeavingTable(t, u)'
        /\ \A s \in Table \ {t} : leaving'[s] = leaving[s]
        /\ \A v \in User \ {u} : leaving'[t][v] = leaving[t][v]
    <2>1. \A j \in Slots : leaving[t][u][j] # "none" => j = k
      BY DEF LeavingTable
    <2>2. "kick" \in Leaves
      BY DEF Leaves
    <2>3. /\ leaving'[t][u][k] = "kick"
          /\ \A j \in Slots : j # k => leaving'[t][u][j] = "none"
          /\ \A s \in Table \ {t} : leaving'[s] = leaving[s]
          /\ \A v \in User \ {u} : leaving'[t][v] = leaving[t][v]
      BY <2>1, <2>2 DEF TypeOK
    <2> QED BY <2>3 DEF LeavingTable, Told, Unregistered
  <1>2. \A s \in Table, v \in User : Present(s, v)' <=> Present(s, v)
    BY DEF Present
  <1>3. u \notin late => PlaceOf(u)'
    <2> SUFFICES ASSUME u \notin late PROVE PlaceOf(u)'
      OBVIOUS
    <2>1. PlaceOf(u) /\ Tied(t, u) /\ ~Told(t, u) /\ ~Unregistered(t, u)
      BY DEF PlaceInv, Tied, LeavingTable, Told, Unregistered
    <2>2. \A s \in Table : /\ Told(s, u)' <=> Told(s, u)
                           /\ Unregistered(s, u)' <=> Unregistered(s, u)
                           /\ Tied(s, u)' <=> Tied(s, u)
      BY <1>1, <1>2, <2>1 DEF Told, Unregistered, Tied, LeavingTable
    <2>3. Asking(u)' <=> Asking(u)
      BY DEF Asking
    <2> QED BY <1>2, <2>1, <2>2, <2>3 DEF PlaceOf
  <1> QED BY <1>1, <1>2, <1>3, OtherPlaces

LEMMA LeavePlaces ==
  ASSUME PInv, NEW t \in Table, NEW u \in User,
         Leave(t, u) \/ KickIdle(t, u) \/ \E k \in Slots : ReqLeave(t, u, k)
  PROVE  PlaceInv'
  <1> USE DEF PInv, TInv, dataVars, ctrlVars
  <1>1. ASSUME NEW k \in Slots, ReqLeave(t, u, k) PROVE PlaceInv'
    <2>1. ~LeavingTable(t, u)
      BY <1>1, ReqLeaveLeaves
    <2>2. u \notin late => Present(t, u)
      BY <1>1 DEF ReqLeave, PlaceInv, PlaceOf
    <2> QED BY <1>1, <2>1, <2>2, LeaveStartPlaces DEF ReqLeave, StartLeave
  <1>2. CASE KickIdle(t, u)
    <2>1. ~LeavingTable(t, u) /\ 0 \in Slots
      BY <1>2, KickLeaves, RoomAssumption DEF Slots
    <2>2. Present(t, u)
      BY <1>2 DEF KickIdle, TickReady, StartLeave, Present
    <2> QED BY <1>2, <2>1, <2>2, LeaveStartPlaces DEF KickIdle, StartLeave
  <1>3. ASSUME NEW k \in Slots, leaving[t][u][k] # "none"
        PROVE  \A j \in Slots : leaving[t][u][j] # "none" => j = k
    BY <1>3 DEF LeaveInv, LeaveOf
  <1>4. ASSUME NEW k \in Slots, LeaveKick(t, u, k) PROVE PlaceInv'
    <2>1. /\ leaving[t][u][k] = "kick" /\ leaving' = [leaving EXCEPT ![t][u][k] = "kicked"]
          /\ players' = players \ {u} /\ ~(req[u] = "joined" /\ target[u] = t)
          /\ UNCHANGED <<dataVars, state, members, todo, visiting, late>>
      BY <1>4 DEF LeaveKick, Unregister
    <2>2. /\ LeavingTable(t, u)' /\ ~Told(t, u)' /\ Unregistered(t, u)'
          /\ \A s \in Table \ {t} : leaving'[s] = leaving[s]
          /\ \A v \in User \ {u} : leaving'[t][v] = leaving[t][v]
      <3>1. "none" \in Leaves /\ "kicked" \in Leaves
        BY DEF Leaves
      <3>2. /\ leaving'[t][u][k] = "kicked"
            /\ \A j \in Slots : j # k => leaving'[t][u][j] = "none"
            /\ \A s \in Table \ {t} : leaving'[s] = leaving[s]
            /\ \A v \in User \ {u} : leaving'[t][v] = leaving[t][v]
        BY <1>3, <2>1, <3>1 DEF TypeOK
      <3> QED BY <3>2 DEF LeavingTable, Told, Unregistered
    <2>3. \A s \in Table, v \in User : Present(s, v)' <=> Present(s, v)
      BY <2>1 DEF Present
    <2>4. u \notin late => PlaceOf(u)'
      <3> SUFFICES ASSUME u \notin late PROVE PlaceOf(u)'
        OBVIOUS
      <3>1. LeavingTable(t, u) /\ ~Told(t, u)
        BY <1>3, <2>1 DEF LeavingTable, Told
      <3>2. /\ PlaceOf(u) /\ Tied(t, u) /\ ~Asking(u)
            /\ \A s \in Table : Tied(s, u) => s = t
            /\ \A s \in Table : Present(s, u) => s = t
        BY <3>1, LeaveTies
      <3>3. req[u] # "joined"
        <4>1. req[u] = "joined" => target[u] \in Table
          BY DEF RequestInv, RequestOf
        <4> QED BY <2>1, <3>2, <4>1 DEF PlaceOf
      <3>4. \A s \in Table : /\ Told(s, u)' <=> Told(s, u)
                             /\ Tied(s, u)' <=> Tied(s, u)
        BY <2>1, <2>2, <2>3, <3>1 DEF Told, Tied, LeavingTable
      <3>5. ~Asking(u)' /\ u \notin players'
        BY <2>1, <3>2 DEF Asking
      <3> QED BY <2>1, <2>2, <2>3, <3>2, <3>3, <3>4, <3>5 DEF PlaceOf
    <2>5. \A v \in User \ {u} : v \in players' <=> v \in players
      BY <2>1
    <2> QED BY <2>1, <2>2, <2>3, <2>4, <2>5, OtherPlaces
  <1>5. ASSUME NEW k \in Slots, LeaveTell(t, u, k) PROVE PlaceInv'
    <2>1. /\ leaving[t][u][k] = "kicked"
          /\ UNCHANGED <<dataVars, ctrlVars, state, members, todo, visiting, late>>
      BY <1>5 DEF LeaveTell
    <2>2. PICK x \in {"data", "none"} : /\ leaving' = [leaving EXCEPT ![t][u][k] = x]
                                        /\ x = "none" => ~(Running(t) /\ u \in members[t])
      BY <1>5 DEF LeaveTell
    <2>3. /\ LeavingTable(t, u)' <=> x = "data"
          /\ ~Told(t, u)' /\ (Unregistered(t, u)' <=> x = "data")
          /\ \A s \in Table \ {t} : leaving'[s] = leaving[s]
          /\ \A v \in User \ {u} : leaving'[t][v] = leaving[t][v]
      <3>1. "none" \in Leaves /\ x \in Leaves
        BY <2>2 DEF Leaves
      <3>2. /\ leaving'[t][u][k] = x
            /\ \A j \in Slots : j # k => leaving'[t][u][j] = "none"
            /\ \A s \in Table \ {t} : leaving'[s] = leaving[s]
            /\ \A v \in User \ {u} : leaving'[t][v] = leaving[t][v]
        BY <1>3, <2>1, <2>2, <3>1 DEF TypeOK
      <3> QED BY <2>2, <3>2 DEF LeavingTable, Told, Unregistered
    <2>4. \A s \in Table, v \in User : Present(s, v)' <=> Present(s, v)
      BY <2>1 DEF Present
    <2>5. u \notin late => PlaceOf(u)'
      <3> SUFFICES ASSUME u \notin late PROVE PlaceOf(u)'
        OBVIOUS
      <3>1. LeavingTable(t, u) /\ ~Told(t, u) /\ Unregistered(t, u)
        BY <1>3, <2>1 DEF LeavingTable, Told, Unregistered
      <3>2. /\ PlaceOf(u) /\ Tied(t, u) /\ ~Asking(u)
            /\ \A s \in Table : Tied(s, u) => s = t
            /\ \A s \in Table : Present(s, u) => s = t
            /\ req[u] # "joined" /\ u \notin players
        BY <3>1, LeaveTies
      <3>3. Present(t, u) => x = "data"
        BY <2>2 DEF Present, Running
      <3>4. \A s \in Table : /\ Told(s, u)' <=> Told(s, u)
                             /\ Tied(s, u)' => Tied(s, u)
                             /\ Present(s, u) => Unregistered(s, u)'
        BY <2>1, <2>3, <2>4, <3>1, <3>2, <3>3 DEF Told, Tied, LeavingTable
      <3>5. ~Asking(u)' /\ u \notin players'
        BY <2>1, <3>2 DEF Asking
      <3> QED BY <2>1, <2>4, <3>2, <3>4, <3>5 DEF PlaceOf
    <2> QED BY <2>1, <2>3, <2>4, <2>5, OtherPlaces
  <1>6. ASSUME NEW k \in Slots, LeaveData(t, u, k) PROVE PlaceInv'
    <2>1. /\ leaving[t][u][k] = "data" /\ leaving' = [leaving EXCEPT ![t][u][k] = "told"]
          /\ at' = [at EXCEPT ![u] = None]
          /\ UNCHANGED <<req, target, ctrlVars, state, members, todo, visiting, late>>
      BY <1>6 DEF LeaveData
    <2>2. /\ LeavingTable(t, u)' /\ Told(t, u)' /\ Unregistered(t, u)'
          /\ \A s \in Table \ {t} : leaving'[s] = leaving[s]
          /\ \A v \in User \ {u} : leaving'[t][v] = leaving[t][v]
      <3>1. "none" \in Leaves /\ "told" \in Leaves
        BY DEF Leaves
      <3>2. /\ leaving'[t][u][k] = "told"
            /\ \A j \in Slots : j # k => leaving'[t][u][j] = "none"
            /\ \A s \in Table \ {t} : leaving'[s] = leaving[s]
            /\ \A v \in User \ {u} : leaving'[t][v] = leaving[t][v]
        BY <1>3, <2>1, <3>1 DEF TypeOK
      <3> QED BY <3>2 DEF LeavingTable, Told, Unregistered
    <2>3. \A s \in Table, v \in User : Present(s, v)' <=> Present(s, v)
      BY <2>1 DEF Present
    <2>4. at'[u] = None /\ \A v \in User \ {u} : at'[v] = at[v]
      BY <2>1 DEF TypeOK
    <2>5. u \notin late => PlaceOf(u)'
      <3> SUFFICES ASSUME u \notin late PROVE PlaceOf(u)'
        OBVIOUS
      <3>1. LeavingTable(t, u) /\ Unregistered(t, u)
        BY <1>3, <2>1 DEF LeavingTable, Unregistered
      <3>2. /\ PlaceOf(u) /\ Tied(t, u) /\ ~Asking(u)
            /\ \A s \in Table : Tied(s, u) => s = t
            /\ \A s \in Table : Present(s, u) => s = t
            /\ req[u] # "joined" /\ u \notin players
        BY <3>1, LeaveTies
      <3>3. \A s \in Table : Tied(s, u)' <=> Tied(s, u)
        BY <2>1, <2>2, <2>3, <3>1 DEF Tied, LeavingTable
      <3>4. ~Asking(u)' /\ u \notin players'
        BY <2>1, <3>2 DEF Asking
      <3> QED BY <2>1, <2>2, <2>3, <2>4, <3>2, <3>3, <3>4, RoomAssumption DEF PlaceOf
    <2> QED BY <2>1, <2>2, <2>3, <2>4, <2>5, OtherPlaces
  <1>7. ASSUME NEW k \in Slots, LeaveDone(t, u, k) PROVE PlaceInv'
    <2>1. /\ leaving[t][u][k] = "told" /\ leaving' = [leaving EXCEPT ![t][u][k] = "none"]
          /\ UNCHANGED <<at, req, target, ctrlVars, visiting, late>>
          /\ \/ ~Running(t) /\ UNCHANGED <<state, members, todo>>
             \/ Removal(t, u)
      BY <1>7, LeaveDoneOutcomes
    <2>2. /\ ~LeavingTable(t, u)' /\ ~Told(t, u)' /\ ~Unregistered(t, u)'
          /\ \A s \in Table \ {t} : leaving'[s] = leaving[s]
          /\ \A v \in User \ {u} : leaving'[t][v] = leaving[t][v]
      <3>1. "none" \in Leaves /\ "none" \in Leaves
        BY DEF Leaves
      <3>2. /\ leaving'[t][u][k] = "none"
            /\ \A j \in Slots : j # k => leaving'[t][u][j] = "none"
            /\ \A s \in Table \ {t} : leaving'[s] = leaving[s]
            /\ \A v \in User \ {u} : leaving'[t][v] = leaving[t][v]
        BY <1>3, <2>1, <3>1 DEF TypeOK
      <3> QED BY <3>2 DEF LeavingTable, Told, Unregistered
    <2>3. /\ \A s \in Table, v \in User : s # t \/ v # u => (Present(s, v)' <=> Present(s, v))
          /\ ~Present(t, u)'
      <3>1. CASE ~Running(t) /\ UNCHANGED <<state, members, todo>>
        BY <3>1 DEF Present, Running
      <3>2. CASE Removal(t, u)
        <4>1. /\ members'[t] = members[t] \ {u}
              /\ \A s \in Table \ {t} : /\ members'[s] = members[s] /\ state'[s] = state[s]
                                        /\ todo'[s] = todo[s]
          BY <3>2 DEF Removal, TypeOK
        <4>2. members'[t] # {} => UNCHANGED <<state, todo>>
          BY <2>1, <3>2, RemovalTable
        <4>3. \A v \in User \ {u} : Present(t, v)' <=> Present(t, v)
          BY <4>1, <4>2 DEF Present
        <4> QED BY <4>1, <4>3 DEF Present
      <3> QED BY <2>1, <3>1, <3>2
    <2>4. u \notin late => PlaceOf(u)'
      <3> SUFFICES ASSUME u \notin late PROVE PlaceOf(u)'
        OBVIOUS
      <3>1. LeavingTable(t, u) /\ Unregistered(t, u) /\ Told(t, u)
        BY <2>1 DEF LeavingTable, Unregistered, Told
      <3>2. /\ PlaceOf(u) /\ Tied(t, u) /\ ~Asking(u)
            /\ \A s \in Table : Tied(s, u) => s = t
            /\ \A s \in Table : Present(s, u) => s = t
            /\ at[u] # None => at[u] = t
            /\ req[u] # "joined" /\ u \notin players
        BY <3>1, LeaveTies
      <3>3. at[u] = None
        BY <3>1, <3>2 DEF PlaceOf
      <3>4. \A s \in Table : ~Present(s, u)'
        BY <2>3, <3>2
      <3>5. \A s \in Table : Tied(s, u)' => s = t
        BY <2>1, <2>2, <3>2, <3>4 DEF Tied, LeavingTable
      <3>6. ~Asking(u)' /\ u \notin players' /\ at'[u] = None
        BY <2>1, <3>2, <3>3 DEF Asking
      <3> QED BY <2>1, <3>2, <3>4, <3>5, <3>6, RoomAssumption DEF PlaceOf
    <2> QED BY <2>1, <2>2, <2>3, <2>4, OtherPlaces
  <1> QED BY <1>1, <1>2, <1>4, <1>5, <1>6, <1>7 DEF Leave

(* free_table tells userdata of the player it visits. *)
LEMMA FreeTellPlaces ==
  ASSUME PInv, NEW t \in Table, NEW u \in User, FreeTell(t, u)
  PROVE  PlaceInv'
  <1> USE DEF PInv, TInv
  <1>1. /\ state[t] = "freeing" /\ visiting[t] = None /\ u \in todo[t] /\ u \in members[t]
        /\ at' = [at EXCEPT ![u] = None] /\ visiting' = [visiting EXCEPT ![t] = u]
        /\ UNCHANGED <<req, target, players, state, members, leaving, todo, late>>
    BY DEF FreeTell, ctrlVars
  <1>2. /\ at'[u] = None /\ \A v \in User \ {u} : at'[v] = at[v]
        /\ visiting'[t] = u /\ \A s \in Table \ {t} : visiting'[s] = visiting[s]
    BY <1>1 DEF TypeOK
  <1>3. \A s \in Table, v \in User : Present(s, v)' <=> Present(s, v)
    BY <1>1 DEF Present
  <1>4. u \notin late => PlaceOf(u)'
    <2> SUFFICES ASSUME u \notin late PROVE PlaceOf(u)'
      OBVIOUS
    <2>1. PlaceOf(u) /\ Present(t, u)
      BY <1>1 DEF PlaceInv, Present
    <2>2. \A s \in Table : Tied(s, u)' <=> Tied(s, u)
      BY <1>1, <1>2, <1>3, <2>1 DEF Tied, LeavingTable
    <2>3. \A s \in Table : /\ Told(s, u)' <=> Told(s, u)
                           /\ Unregistered(s, u)' <=> Unregistered(s, u)
      BY <1>1 DEF Told, Unregistered
    <2>4. \A s \in Table : Present(s, u) => s = t
      BY <2>1 DEF PlaceOf, Tied
    <2>5. Asking(u)' <=> Asking(u)
      BY <1>1 DEF Asking
    <2> QED BY <1>1, <1>2, <1>3, <2>1, <2>2, <2>3, <2>4, <2>5, RoomAssumption DEF PlaceOf
  <1>5. \A v \in User \ {u}, s \in Table : visiting'[s] = v <=> visiting[s] = v
    BY <1>1, <1>2, RoomAssumption
  <1> QED BY <1>1, <1>2, <1>3, <1>4, <1>5, OtherPlaces

(* The ctrl removes the player, whom free_table does not visit again. *)
LEMMA FreeKickPlaces ==
  ASSUME PInv, NEW t \in Table, NEW u \in User, FreeKick(t, u)
  PROVE  PlaceInv'
  <1> USE DEF PInv, TInv
  <1>1. /\ visiting[t] = u /\ ~(req[u] = "joined" /\ target[u] = t)
        /\ players' = players \ {u} /\ visiting' = [visiting EXCEPT ![t] = None]
        /\ todo' = [todo EXCEPT ![t] = todo[t] \ {u}]
        /\ UNCHANGED <<at, req, target, state, members, leaving, late>>
    BY DEF FreeKick, Unregister, dataVars
  <1>2. /\ visiting'[t] = None /\ \A s \in Table \ {t} : visiting'[s] = visiting[s]
        /\ todo'[t] = todo[t] \ {u} /\ \A s \in Table \ {t} : todo'[s] = todo[s]
    BY <1>1 DEF TypeOK
  <1>3. state[t] # "open"
    BY <1>1, RoomAssumption DEF TableInv, TableOf
  <1>4. /\ \A s \in Table, v \in User : s # t \/ v # u => (Present(s, v)' <=> Present(s, v))
        /\ ~Present(t, u)'
    BY <1>1, <1>2, <1>3 DEF Present
  <1>5. u \notin late => PlaceOf(u)'
    <2> SUFFICES ASSUME u \notin late PROVE PlaceOf(u)'
      OBVIOUS
    <2>1. PlaceOf(u) /\ Tied(t, u)
      BY <1>1 DEF PlaceInv, Tied
    <2>2. /\ \A s \in Table : Tied(s, u) => s = t
          /\ \A s \in Table : Present(s, u) => s = t
      BY <2>1 DEF PlaceOf, Tied
    <2>3. ~Asking(u) /\ ~Asking(u)'
      BY <1>1, <2>1 DEF PlaceOf, Asking
    <2>4. at[u] = None
      <3>1. at[u] # None => at[u] \in Table
        BY DEF TypeOK, TableOrNone
      <3> QED BY <1>1, <2>1, <2>2, <3>1 DEF PlaceOf
    <2>5. req[u] # "joined"
      <3>1. req[u] = "joined" => target[u] \in Table
        BY DEF RequestInv, RequestOf
      <3> QED BY <1>1, <2>1, <2>2, <3>1 DEF PlaceOf
    <2>6. \A s \in Table : ~Present(s, u)'
      BY <1>4, <2>2
    <2>7. \A s \in Table : Tied(s, u)' => s = t
      BY <1>1, <1>2, <2>2, <2>6 DEF Tied, LeavingTable
    <2> QED BY <1>1, <2>3, <2>4, <2>5, <2>6, <2>7, RoomAssumption DEF PlaceOf
  <1>6. \A v \in User \ {u}, s \in Table : visiting'[s] = v <=> visiting[s] = v
    BY <1>1, <1>2, RoomAssumption
  <1> QED BY <1>1, <1>4, <1>5, <1>6, OtherPlaces

LEMMA EndPlaces ==
  ASSUME PInv, NEW t \in Table, StartGame(t) \/ EndGame(t) \/ Expire(t) \/ FreeTable(t)
  PROVE  PlaceInv'
  <1> USE DEF PInv, TInv
  <1>1. ASSUME UNCHANGED <<at, req, target, players, leaving, visiting, late>>,
               \A s \in Table, v \in User : Present(s, v)' <=> Present(s, v)
        PROVE  PlaceInv'
    BY <1>1, PlaceFrame DEF PlaceInv
  <1>2. CASE StartGame(t) \/ EndGame(t)
    BY <1>1, <1>2 DEF StartGame, EndGame, Present, dataVars, ctrlVars
  <1>3. CASE Expire(t)
    <2>1. /\ state[t] = "open" /\ state' = [state EXCEPT ![t] = "freeing"]
          /\ todo' = [todo EXCEPT ![t] = members[t]]
          /\ UNCHANGED <<at, req, target, players, members, leaving, visiting, late>>
      BY <1>3 DEF Expire, TickReady, dataVars, ctrlVars
    <2>2. /\ state'[t] = "freeing" /\ todo'[t] = members[t]
          /\ \A s \in Table \ {t} : state'[s] = state[s] /\ todo'[s] = todo[s]
      BY <2>1 DEF TypeOK
    <2> QED BY <1>1, <2>1, <2>2 DEF Present
  <1>4. CASE FreeEnd(t)
    <2>1. /\ state[t] = "freeing" /\ todo[t] \cap members[t] = {}
          /\ state' = [state EXCEPT ![t] = "freed"]
          /\ members' = [members EXCEPT ![t] = {}]
          /\ UNCHANGED <<at, req, target, players, todo, leaving, visiting, late>>
      BY <1>4 DEF FreeEnd, LogicFree, dataVars, ctrlVars
    <2>2. /\ state'[t] = "freed" /\ members'[t] = {}
          /\ \A s \in Table \ {t} : state'[s] = state[s] /\ members'[s] = members[s]
      BY <2>1 DEF TypeOK
    <2> QED BY <1>1, <2>1, <2>2 DEF Present
  <1>5. CASE CtrlFree(t)
    <2>1. /\ state[t] = "freed" /\ state' = [state EXCEPT ![t] = "gone"]
          /\ todo' = [todo EXCEPT ![t] = {}]
          /\ UNCHANGED <<at, req, target, players, members, leaving, visiting, late>>
      BY <1>5 DEF CtrlFree, dataVars
    <2>2. /\ state'[t] = "gone"
          /\ \A s \in Table \ {t} : state'[s] = state[s] /\ todo'[s] = todo[s]
      BY <2>1 DEF TypeOK
    <2> QED BY <1>1, <2>1, <2>2 DEF Present
  <1> QED BY <1>2, <1>3, <1>4, <1>5, FreeTellPlaces, FreeKickPlaces DEF FreeTable

-----------------------------------------------------------------------------
(* user_count. *)

LEMMA LateGrows == ASSUME Next PROVE late \subseteq late'
  <1>1. ASSUME NEW u \in User, ReqJoin(u) \/ Join(u) PROVE late \subseteq late'
    BY <1>1 DEF ReqJoin, Join, CtrlJoin, CtrlNewTable, TableJoin, Admit, CtrlJoined, CtrlRefused, JoinReply
  <1>2. ASSUME NEW t \in Table, NEW u \in User,
               Leave(t, u) \/ KickIdle(t, u) \/ \E k \in Slots : ReqLeave(t, u, k)
        PROVE  late \subseteq late'
    BY <1>2 DEF Leave, LeaveKick, LeaveTell, LeaveData, LeaveDone, KickIdle, ReqLeave
  <1>3. ASSUME NEW t \in Table, StartGame(t) \/ EndGame(t) \/ Expire(t) \/ FreeTable(t)
        PROVE  late \subseteq late'
    BY <1>3 DEF StartGame, EndGame, Expire, FreeTable, FreeTell, FreeKick, FreeEnd, CtrlFree
  <1> QED BY <1>1, <1>2, <1>3 DEF Next

LEMMA UserCountStep == ASSUME PInv, Next PROVE UserCountExact'
  <1> USE DEF PInv, TInv
  <1> SUFFICES ASSUME late' = {} PROVE userCount' = Cardinality(players')
    BY DEF UserCountExact
  <1>1. userCount = Cardinality(players) /\ late = {}
    BY LateGrows DEF UserCountExact
  <1>2. ASSUME NEW u \in User, Unregister(u) PROVE userCount' = Cardinality(players')
    BY <1>1, <1>2, UnregisterCounts
  <1>3. ASSUME NEW u \in User, CtrlJoined(u) PROVE userCount' = Cardinality(players')
    <2>1. req[u] = "joined" /\ PlaceOf(u)
      BY <1>1, <1>3 DEF CtrlJoined, PlaceInv
    <2>2. u \notin players
      BY <2>1 DEF PlaceOf
    <2> QED BY <1>1, <1>3, <2>2, RegisterCounts
  <1>4. CASE UNCHANGED <<players, userCount>>
    BY <1>1, <1>4
  <1> QED BY <1>2, <1>3, <1>4, RegisterSteps DEF LeaveKick, FreeKick

-----------------------------------------------------------------------------

LEMMA InitPInv == Init /\ Width = 1 => PInv
  <1> SUFFICES ASSUME Init, Width = 1 PROVE PInv
    OBVIOUS
  <1>1. TInv
    BY InitTInv
  <1>2. LeaveInv
    BY DEF Init, LeaveInv, LeaveOf, LeavingTable, Running, Asking
  <1>3. TableInv
    BY FS_EmptySet DEF Init, TableInv, TableOf, Running
  <1>4. PlaceInv
    <2>1. \A t \in Table, u \in User : ~Tied(t, u) /\ ~Present(t, u)
      BY RoomAssumption DEF Init, Tied, Present, LeavingTable
    <2> QED BY <2>1, RoomAssumption DEF Init, PlaceInv, PlaceOf
  <1>5. UserCountExact
    BY FS_EmptySet DEF Init, UserCountExact
  <1> QED BY <1>1, <1>2, <1>3, <1>4, <1>5 DEF PInv

LEMMA NextPInv == PInv /\ [Next]_vars => PInv'
  <1> SUFFICES ASSUME PInv, [Next]_vars PROVE PInv'
    OBVIOUS
  <1>1. CASE Next
    <2> DEFINE Places == LeaveInv' /\ TableInv' /\ PlaceInv'
    <2>1. ASSUME NEW u \in User, ReqJoin(u) \/ Join(u) PROVE Places
      BY <2>1, JoinLeaves, JoinTables, JoinPlaces
    <2>2. ASSUME NEW t \in Table, NEW u \in User,
                 Leave(t, u) \/ KickIdle(t, u) \/ \E k \in Slots : ReqLeave(t, u, k)
          PROVE  Places
      <3>1. LeaveInv'
        BY <2>2, LeaveStep, KickLeaves, ReqLeaveLeaves
      <3> QED BY <2>2, <3>1, LeaveTables, LeavePlaces
    <2>3. ASSUME NEW t \in Table, StartGame(t) \/ EndGame(t) \/ Expire(t) \/ FreeTable(t)
          PROVE  Places
      BY <2>3, EndLeaves, EndTables, EndPlaces
    <2>4. Places
      BY <1>1, <2>1, <2>2, <2>3 DEF Next
    <2>5. TInv' /\ UserCountExact'
      BY <1>1, NextTInv, UserCountStep DEF PInv
    <2> QED BY <2>4, <2>5 DEF PInv
  <1>2. CASE UNCHANGED vars
    <2>1. UNCHANGED <<at, req, target, players, userCount, state, members, count, seat, seatid,
                      leaving, todo, visiting, late>>
      BY <1>2 DEF vars, dataVars, ctrlVars, tableVars
    <2>2. TInv'
      BY <1>2, NextTInv DEF PInv
    <2>3. LeaveInv'
      BY <2>1, LeaveQuiet DEF PInv, Asking
    <2>4. TableInv'
      BY <2>1, TableFrame DEF PInv, TableInv
    <2>5. PlaceInv'
      BY <2>1, PlaceFrame DEF PInv, PlaceInv, Present
    <2>6. UserCountExact'
      BY <2>1 DEF PInv, UserCountExact
    <2> QED BY <2>2, <2>3, <2>4, <2>5, <2>6 DEF PInv
  <1> QED BY <1>1, <1>2

LEMMA PlacesInvariant == Spec /\ Width = 1 => []PInv
  BY InitPInv, NextPInv, PTL DEF Spec

(* table.lua's `count` is the number of players at an open table, and the  *)
(* ctrl's user_count the number of players it lists, whatever joins,       *)
(* leaves, kicks and ends of tables are under way.                         *)
THEOREM CountsStayExact == Spec /\ Width = 1 => []CountsExact
  <1>1. PInv => CountsExact
    BY DEF PInv, TableInv, TableOf, CountsExact, CountExact
  <1> QED BY PlacesInvariant, <1>1, PTL

(* Whoever sits at an open table is at it, and a player who is not leaving *)
(* holds the one seat that p.seatid names (auto_sitdown, leave_game and    *)
(* kick_player of the mahjong logic).                                      *)
THEOREM SeatsStayMatched == Spec /\ Width = 1 => []SeatsMatchMembers
  <1>1. ASSUME PInv PROVE SeatsMatchMembers
    <2> USE DEF PInv, TInv
    <2> SUFFICES ASSUME NEW t \in Table, state[t] = "open"
                 PROVE  /\ \A i \in 1..Seats : seat[t][i] # None => seat[t][i] \in members[t]
                        /\ \A u \in members[t] : Settled(t, u) =>
                             {i \in 1..Seats : seat[t][i] = u} = {seatid[t][u]}
      BY <1>1 DEF SeatsMatchMembers
    <2>1. Seated(t)
      BY <1>1 DEF TableInv, TableOf
    <2>2. \A i \in 1..Seats : seat[t][i] # None => seat[t][i] \in User
      <3>1. seat[t] \in [1..Seats -> UserOrNone]
        BY <1>1 DEF TypeOK
      <3> QED BY <3>1 DEF UserOrNone
    <2>3. \A i \in 1..Seats : seat[t][i] # None => seat[t][i] \in members[t]
      BY <2>1, <2>2 DEF Seated
    <2>4. ASSUME NEW u \in members[t], Settled(t, u)
          PROVE  {i \in 1..Seats : seat[t][i] = u} = {seatid[t][u]}
      <3>1. u \in User /\ seatid[t][u] \in 0..Seats
        BY <1>1 DEF TypeOK
      <3>2. ~LeavingTable(t, u)
        BY <2>4 DEF Settled, LeavingTable
      <3>3. seatid[t][u] \in 1..Seats /\ seat[t][seatid[t][u]] = u
        BY <2>1, <3>1, <3>2, RoomAssumption DEF Seated
      <3>4. \A i \in 1..Seats : seat[t][i] = u => i = seatid[t][u]
        BY <2>1, <3>1 DEF Seated
      <3> QED BY <3>3, <3>4
    <2> QED BY <2>3, <2>4
  <1> QED BY PlacesInvariant, <1>1, PTL

(* The ctrl lists whoever is settled at a table and nobody who is at none, *)
(* and gamenode and gameaddr name a table that runs and has the player: no *)
(* order of the answers of tables, ctrl and userdata breaks this, except   *)
(* the one that `late` records.                                            *)
THEOREM PlacesStayAgreed == Spec /\ Width = 1 => []PlacesAgree
  <1>1. ASSUME PInv PROVE PlacesAgree
    <2> USE DEF PInv, TInv
    <2> SUFFICES ASSUME NEW u \in User \ late
                 PROVE  /\ u \in players => \E t \in Table : u \in members[t]
                        /\ at[u] # None /\ Settled(at[u], u) => u \in players
                        /\ at[u] # None => u \in members[at[u]] /\ Running(at[u])
      BY DEF PlacesAgree, CtrlKnowsMembers, GameAddrIsMember
    <2>1. PlaceOf(u) /\ RequestOf(u)
      BY <1>1 DEF PlaceInv, RequestInv
    <2>2. at[u] # None => at[u] \in Table
      BY <1>1 DEF TypeOK, TableOrNone
    <2>3. u \in players => \E t \in Table : u \in members[t]
      BY <2>1 DEF PlaceOf, Present
    <2>4. ASSUME at[u] # None, Settled(at[u], u) PROVE u \in players
      <3>1. Present(at[u], u) /\ ~Unregistered(at[u], u)
        BY <2>4 DEF Settled, Present, Unregistered
      <3>2. req[u] # "joined"
        BY <2>1, <2>4 DEF RequestOf
      <3> QED BY <2>1, <2>2, <2>4, <3>1, <3>2 DEF PlaceOf
    <2>5. at[u] # None => u \in members[at[u]] /\ Running(at[u])
      BY <2>1, <2>2 DEF PlaceOf, Present, Running
    <2> QED BY <2>3, <2>4, <2>5
  <1> QED BY PlacesInvariant, <1>1, PTL

=============================================================================
