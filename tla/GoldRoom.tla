------------------------------ MODULE GoldRoom ------------------------------
(***************************************************************************)
(* Gold rooms: how players join a table, leave it and lose it.  The parts  *)
(* are the ctrl service of one game (server/game/ctrl.lua), its tables     *)
(* (server/game/table.lua with the joining, leaving and expiring of the    *)
(* mahjong logic), and what a player's userdata knows of the game the      *)
(* player is in (gamenode and gameaddr of datalogic.lua).                  *)
(*                                                                         *)
(* Every service is a skynet actor: an action is the code between two      *)
(* calls.  A player has one join request under way at a time.  A leave is  *)
(* a coroutine of the table: number 0 is the table's tick coroutine, which *)
(* kicks idle players, the others were forked by reqLeaveTable.  Robots    *)
(* and the ctrl's game-specific room controls are left out.                *)
(***************************************************************************)
EXTENDS Integers, FiniteSets

CONSTANTS
  User,
  Table,     \* table services, each started at most once
  Seats,     \* max_player
  None,
  Width      \* reqLeaveTable a client may have under way: 1, or 2 if it is impatient

ASSUME RoomAssumption == /\ Seats \in Nat \ {0} /\ Width \in Nat \ {0}
                         /\ None \notin User \cup Table

VARIABLES
  (* userdata and the way of a join request through usermanager and ctrl *)
  at,        \* player -> the table in gamenode and gameaddr
  req,       \* player -> where the join request is
  target,    \* player -> the table the request was sent to
  (* ctrl *)
  free,      \* free_tables of the game
  locked,    \* lock_list
  players,   \* players
  userCount, \* user_count of the game
  (* the tables *)
  state,     \* table -> its state, see States
  members,   \* table -> players
  count,     \* table -> count
  seat,      \* table -> _players_sit
  seatid,    \* table -> player -> p.seatid, 0 for nil
  started,   \* table -> _has_start
  leaving,   \* table -> player -> coroutine -> where its `leave` waits
  expired,   \* tables whose free_table was started by _end_time
  todo,      \* table -> players free_table has yet to visit
  visiting,  \* table -> the player free_table is visiting
  late       \* history: players whose join, leave and kick crossed on the way

dataVars  == <<at, req, target>>
ctrlVars  == <<free, locked, players, userCount>>
tableVars == <<state, members, count, seat, seatid, started, leaving, expired, todo, visiting>>
vars == <<dataVars, ctrlVars, tableVars, late>>

Slots == 0..Width
UserOrNone == User \cup {None}
TableOrNone == Table \cup {None}

(* "new" is a table nobody has joined so far; "freeing" is in the loop of  *)
(* free_table, "freed" behind logic.free, waiting for the ctrl.            *)
States == {"none", "new", "open", "freeing", "freed", "gone"}

(* "ctrl" and "table" are waiting for the ctrl and the table; "service" is *)
(* the ctrl's newservice and init; "joined" and "refused" are on their way *)
(* back to the ctrl, "back" to userdata.                                   *)
Requests == {"none", "ctrl", "service", "table", "joined", "refused", "back"}

(* "kick" and "data" are calls of the ctrl and of userdata on their way,   *)
(* "kicked" and "told" their replies.                                      *)
Leaves == {"none", "kick", "kicked", "data", "told"}

TypeOK ==
  /\ at \in [User -> TableOrNone] /\ req \in [User -> Requests]
  /\ target \in [User -> TableOrNone]
  /\ free \subseteq Table /\ locked \subseteq Table /\ players \subseteq User
  /\ userCount \in Nat /\ state \in [Table -> States]
  /\ members \in [Table -> SUBSET User] /\ count \in [Table -> Int]
  /\ seat \in [Table -> [1..Seats -> UserOrNone]]
  /\ seatid \in [Table -> [User -> 0..Seats]]
  /\ started \in [Table -> BOOLEAN]
  /\ leaving \in [Table -> [User -> [Slots -> Leaves]]]
  /\ expired \subseteq Table /\ todo \in [Table -> SUBSET User]
  /\ visiting \in [Table -> UserOrNone] /\ late \subseteq User

Init ==
  /\ at = [u \in User |-> None] /\ req = [u \in User |-> "none"]
  /\ target = [u \in User |-> None]
  /\ free = {} /\ locked = {} /\ players = {} /\ userCount = 0
  /\ state = [t \in Table |-> "none"] /\ members = [t \in Table |-> {}]
  /\ count = [t \in Table |-> 0]
  /\ seat = [t \in Table |-> [i \in 1..Seats |-> None]]
  /\ seatid = [t \in Table |-> [u \in User |-> 0]]
  /\ started = [t \in Table |-> FALSE]
  /\ leaving = [t \in Table |-> [u \in User |-> [k \in Slots |-> "none"]]]
  /\ expired = {} /\ todo = [t \in Table |-> {}]
  /\ visiting = [t \in Table |-> None] /\ late = {}

-----------------------------------------------------------------------------
(* Joining.                                                                *)

Leaving(u) == \E t \in Table, k \in Slots : leaving[t][u][k] # "none"

(* reqQuickJoinGame, refused while gamenode is set.  The client waits for  *)
(* resLeaveTable before it joins again.  Bound: a player in `late` does not*)
(* come back.                                                              *)
ReqJoin(u) ==
  /\ u \notin late /\ at[u] = None /\ req[u] = "none" /\ ~Leaving(u)
  /\ req' = [req EXCEPT ![u] = "ctrl"]
  /\ late' = IF \E t \in Table : visiting[t] = u THEN late \cup {u} ELSE late
  /\ UNCHANGED <<at, target, ctrlVars, tableVars>>

(* The ctrl sends the player to a table and locks it. *)
SendTo(u, t) ==
  /\ req' = [req EXCEPT ![u] = "table"]
  /\ target' = [target EXCEPT ![u] = t]
  /\ locked' = locked \cup {t}

(* Mutant: the ctrl does not look at the lock. *)
AnyFreeTable == free

(* check_lock: the free tables nobody is on the way to. *)
Candidates == free \ locked

(* CMD.join of the ctrl: too little gold (1012), any unlocked free table,  *)
(* or a new table service.                                                 *)
CtrlJoin(u) ==
  /\ req[u] = "ctrl"
  /\ \/ /\ req' = [req EXCEPT ![u] = "none"]
        /\ UNCHANGED <<target, locked, state>>
     \/ /\ \E t \in Candidates : SendTo(u, t)
        /\ UNCHANGED state
     \/ /\ Candidates = {}
        /\ \E t \in Table :
             /\ state[t] = "none"
             /\ state' = [state EXCEPT ![t] = "new"]
             /\ target' = [target EXCEPT ![u] = t]
        /\ req' = [req EXCEPT ![u] = "service"]
        /\ UNCHANGED locked
  /\ UNCHANGED <<at, free, players, userCount, members, count, seat, seatid, started,
                 leaving, expired, todo, visiting, late>>

(* The new table has been initialised. *)
CtrlNewTable(u) ==
  /\ req[u] = "service"
  /\ free' = free \cup {target[u]}
  /\ SendTo(u, target[u])
  /\ UNCHANGED <<at, players, userCount, tableVars, late>>

(* Mutant: the last seat is forgotten. *)
AllButLastSeat(t) == {i \in 1..(Seats - 1) : seat[t][i] = None}

(* auto_sitdown, called for the table's description: the first free seat;  *)
(* without one it raises an error, and the ctrl reports 1007.              *)
FreeSeats(t) == {i \in 1..Seats : seat[t][i] = None}
SitDown(t, u) ==
  IF FreeSeats(t) = {}
  THEN UNCHANGED <<seat, seatid>>
  ELSE LET i == CHOOSE i \in FreeSeats(t) : \A j \in FreeSeats(t) : i <= j IN
       /\ seat' = [seat EXCEPT ![t][i] = u]
       /\ seatid' = [seatid EXCEPT ![t][u] = i]

(* The loop of free_table is a traversal of players: it may visit a player *)
(* who is added meanwhile, or not.                                         *)
Admit(t, u) ==
  /\ req' = [req EXCEPT ![u] = IF FreeSeats(t) = {} THEN "refused" ELSE "joined"]
  /\ members' = [members EXCEPT ![t] = @ \cup {u}]
  /\ count' = [count EXCEPT ![t] = @ + 1]
  /\ SitDown(t, u)
  /\ \/ state[t] # "freeing" /\ state' = [state EXCEPT ![t] = "open"]
        /\ UNCHANGED <<todo, late>>
     \/ /\ state[t] = "freeing" /\ late' = late \cup {u} /\ UNCHANGED state
        /\ \/ todo' = [todo EXCEPT ![t] = @ \cup {u}]
           \/ UNCHANGED todo

(* CMD.join of a table: full (1006), refused by the game (1008), admitted; *)
(* an error behind logic.free and after the exit (1007).                   *)
TableJoin(u) ==
  LET t == target[u] IN
  /\ req[u] = "table"
  /\ \/ /\ state[t] \in {"new", "open", "freeing"} /\ count[t] < Seats
        /\ Admit(t, u)
     \/ /\ req' = [req EXCEPT ![u] = "refused"]
        /\ UNCHANGED <<state, members, count, seat, seatid, todo, late>>
  /\ UNCHANGED <<at, target, ctrlVars, started, leaving, expired, visiting>>

(* The table's answer reaches the ctrl, which registers the player; after  *)
(* a refusal the table stays locked.                                       *)
CtrlJoined(u) ==
  /\ req[u] = "joined"
  /\ req' = [req EXCEPT ![u] = "back"]
  /\ locked' = locked \ {target[u]}
  /\ players' = players \cup {u} /\ userCount' = userCount + 1
  /\ UNCHANGED <<at, target, free, tableVars, late>>

CtrlRefused(u) ==
  /\ req[u] = "refused"
  /\ req' = [req EXCEPT ![u] = "none"]
  /\ target' = [target EXCEPT ![u] = None]
  /\ UNCHANGED <<at, ctrlVars, tableVars, late>>

(* The player is at the table and the table is not about to drop it. *)
Settled(t, u) ==
  /\ state[t] = "open" /\ u \in members[t]
  /\ \A k \in Slots : leaving[t][u][k] = "none"

(* join_game of datalogic: whatever the table has told userdata meanwhile. *)
JoinReply(u) ==
  /\ req[u] = "back"
  /\ req' = [req EXCEPT ![u] = "none"]
  /\ at' = [at EXCEPT ![u] = target[u]] /\ target' = [target EXCEPT ![u] = None]
  /\ late' = IF Settled(target[u], u) THEN late ELSE late \cup {u}
  /\ UNCHANGED <<ctrlVars, tableVars>>

-----------------------------------------------------------------------------
(* Leaving.                                                                *)

Running(t) == state[t] \in {"open", "freeing"}

(* _players_sit[p.seatid] = nil: an error when p.seatid is nil. *)
Vacate(t, u) == /\ seatid[t][u] # 0
                /\ seat' = [seat EXCEPT ![t][seatid[t][u]] = None]

StartLeave(t, u, k) ==
  /\ u \in members[t] /\ Vacate(t, u)
  /\ leaving' = [leaving EXCEPT ![t][u][k] = "kick"]

(* reqLeaveTable outside a game: the seat is given up, p.seatid is not, and*)
(* the rest is forked.                                                     *)
ReqLeave(t, u, k) ==
  /\ at[u] = t /\ Running(t) /\ ~started[t]
  /\ k # 0 /\ leaving[t][u][k] = "none"
  /\ StartLeave(t, u, k)
  /\ UNCHANGED <<dataVars, ctrlVars, state, members, count, seatid, started, expired,
                 todo, visiting, late>>

(* The tick coroutine is in the table's sleep: neither in a kick nor in a  *)
(* free_table.  (After a free_table that a leave has started under seated  *)
(* players, which Width = 1 excludes, the tick is taken to do no more.)    *)
TickReady(t) == state[t] = "open" /\ \A u \in User : leaving[t][u][0] = "none"

(* check_kick_players: a player who was not ready in time. *)
KickIdle(t, u) ==
  /\ TickReady(t) /\ ~started[t] /\ (\E i \in 1..Seats : seat[t][i] = u)
  /\ StartLeave(t, u, 0)
  /\ seatid' = [seatid EXCEPT ![t][u] = 0]
  /\ UNCHANGED <<dataVars, ctrlVars, state, members, count, started, expired, todo,
                 visiting, late>>

(* Mutant: the player is counted down twice. *)
UnregisterUnchecked(u) ==
  players' = players \ {u} /\ userCount' = userCount - 1
(* CMD.kick of the ctrl. *)
Unregister(u) ==
  /\ players' = players \ {u}
  /\ userCount' = IF u \in players THEN userCount - 1 ELSE userCount

(* A table's call reaches the ctrl after the answers the table sent before.*)
LeaveKick(t, u, k) ==
  /\ leaving[t][u][k] = "kick" /\ ~(req[u] = "joined" /\ target[u] = t)
  /\ Unregister(u)
  /\ leaving' = [leaving EXCEPT ![t][u][k] = "kicked"]
  /\ UNCHANGED <<dataVars, free, locked, state, members, count, seat, seatid, started,
                 expired, todo, visiting, late>>

(* The table goes on with p:call_userdata, nil for a player who has left.  *)
LeaveTell(t, u, k) ==
  /\ leaving[t][u][k] = "kicked"
  /\ leaving' = [leaving EXCEPT ![t][u][k] =
                   IF Running(t) /\ u \in members[t] THEN "data" ELSE "none"]
  /\ UNCHANGED <<dataVars, ctrlVars, state, members, count, seat, seatid, started,
                 expired, todo, visiting, late>>

(* CMD.leave_game of datalogic: of whichever table. *)
LeaveData(t, u, k) ==
  /\ leaving[t][u][k] = "data"
  /\ at' = [at EXCEPT ![u] = None]
  /\ leaving' = [leaving EXCEPT ![t][u][k] = "told"]
  /\ UNCHANGED <<req, target, ctrlVars, state, members, count, seat, seatid, started,
                 expired, todo, visiting, late>>

(* logic.free drops the seats. *)
LogicFree(t) ==
  /\ state' = [state EXCEPT ![t] = "freed"]
  /\ seat' = [seat EXCEPT ![t] = [i \in 1..Seats |-> None]]

(* count < 1: the last player has left. *)
LastLeft(n) == n < 1

(* The end of `leave`: the last player frees the table, at once when no    *)
(* player is left to be visited.  The traversal of a table that is being   *)
(* freed already is not started again.                                     *)
LeaveDone(t, u, k) ==
  /\ leaving[t][u][k] = "told"
  /\ leaving' = [leaving EXCEPT ![t][u][k] = "none"]
  /\ \/ /\ ~Running(t) /\ UNCHANGED <<state, members, count, todo, seat, seatid>>
     \/ /\ Running(t)
        /\ members' = [members EXCEPT ![t] = @ \ {u}]
        /\ seatid' = [seatid EXCEPT ![t][u] = 0]
        /\ count' = [count EXCEPT ![t] = @ - 1]
        /\ CASE ~LastLeft(count'[t]) -> UNCHANGED <<state, todo, seat>>
             [] LastLeft(count'[t]) /\ members'[t] = {} ->
                  /\ LogicFree(t) /\ UNCHANGED todo
             [] OTHER ->
                  /\ state' = [state EXCEPT ![t] = "freeing"]
                  /\ todo' = [todo EXCEPT ![t] = members'[t]]
                  /\ UNCHANGED seat
  /\ UNCHANGED <<dataVars, ctrlVars, started, expired, visiting, late>>

-----------------------------------------------------------------------------
(* The game and the end of a table.                                        *)

(* deal_waiting_start: all seats are taken, and their players ready. *)
StartGame(t) ==
  /\ TickReady(t) /\ ~started[t] /\ FreeSeats(t) = {}
  /\ started' = [started EXCEPT ![t] = TRUE]
  /\ UNCHANGED <<dataVars, ctrlVars, state, members, count, seat, seatid, leaving,
                 expired, todo, visiting, late>>

EndGame(t) ==
  /\ TickReady(t) /\ started[t]
  /\ started' = [started EXCEPT ![t] = FALSE]
  /\ UNCHANGED <<dataVars, ctrlVars, state, members, count, seat, seatid, leaving,
                 expired, todo, visiting, late>>

(* _end_time, which gold tables have as well: free_table(1001) by the tick *)
(* coroutine, unless nobody is left.                                       *)
Expire(t) ==
  /\ TickReady(t) /\ ~started[t] /\ members[t] # {}
  /\ state' = [state EXCEPT ![t] = "freeing"]
  /\ todo' = [todo EXCEPT ![t] = members[t]]
  /\ expired' = expired \cup {t}
  /\ UNCHANGED <<dataVars, ctrlVars, members, count, seat, seatid, started, leaving,
                 visiting, late>>

(* Mutant: free_table tells the ctrl only. *)
FreeNoTell(t, u) ==
  /\ state[t] = "freeing" /\ visiting[t] = None /\ u \in todo[t] \cap members[t]
  /\ visiting' = [visiting EXCEPT ![t] = u]
  /\ UNCHANGED <<dataVars, ctrlVars, state, members, count, seat, seatid, started,
                 leaving, expired, todo, late>>

(* free_table tells userdata of a player who is still there, then the ctrl.*)
FreeTell(t, u) ==
  /\ state[t] = "freeing" /\ visiting[t] = None /\ u \in todo[t] \cap members[t]
  /\ at' = [at EXCEPT ![u] = None]
  /\ visiting' = [visiting EXCEPT ![t] = u]
  /\ UNCHANGED <<req, target, ctrlVars, state, members, count, seat, seatid, started,
                 leaving, expired, todo, late>>

FreeKick(t, u) ==
  /\ visiting[t] = u /\ ~(req[u] = "joined" /\ target[u] = t)
  /\ Unregister(u)
  /\ visiting' = [visiting EXCEPT ![t] = None]
  /\ todo' = [todo EXCEPT ![t] = @ \ {u}]
  /\ UNCHANGED <<dataVars, free, locked, state, members, count, seat, seatid, started,
                 leaving, expired, late>>

(* logic.free, and all players are dropped. *)
FreeEnd(t) ==
  /\ state[t] = "freeing" /\ visiting[t] = None /\ todo[t] \cap members[t] = {}
  /\ LogicFree(t)
  /\ members' = [members EXCEPT ![t] = {}]
  /\ seatid' = [seatid EXCEPT ![t] = [u \in User |-> 0]]
  /\ UNCHANGED <<dataVars, ctrlVars, count, started, leaving, expired, todo, visiting, late>>

(* CMD.free_table of the ctrl, and the exit of the service. *)
CtrlFree(t) ==
  /\ state[t] = "freed"
  /\ free' = free \ {t}
  /\ state' = [state EXCEPT ![t] = "gone"]
  /\ count' = [count EXCEPT ![t] = 0] /\ started' = [started EXCEPT ![t] = FALSE]
  /\ todo' = [todo EXCEPT ![t] = {}] /\ expired' = expired \ {t}
  /\ UNCHANGED <<dataVars, locked, players, userCount, members, seat, seatid, leaving,
                 visiting, late>>

-----------------------------------------------------------------------------

Join(u) == \/ CtrlJoin(u) \/ CtrlNewTable(u) \/ TableJoin(u)
           \/ CtrlJoined(u) \/ CtrlRefused(u) \/ JoinReply(u)

Leave(t, u) == \E k \in Slots : \/ LeaveKick(t, u, k) \/ LeaveTell(t, u, k)
                                \/ LeaveData(t, u, k) \/ LeaveDone(t, u, k)

FreeTable(t) == \/ \E u \in User : FreeTell(t, u) \/ FreeKick(t, u)
                \/ FreeEnd(t) \/ CtrlFree(t)

Next ==
  \/ \E u \in User : ReqJoin(u) \/ Join(u)
  \/ \E t \in Table, u \in User : \/ Leave(t, u) \/ KickIdle(t, u)
                                  \/ \E k \in Slots : ReqLeave(t, u, k)
  \/ \E t \in Table : StartGame(t) \/ EndGame(t) \/ Expire(t) \/ FreeTable(t)

Spec == Init /\ [][Next]_vars

-----------------------------------------------------------------------------
(* Properties.                                                             *)

OnTheWay(u) == req[u] \in {"table", "joined"}

(* CMD.join of the ctrl locks a table for the time of the call: no two     *)
(* players are on the way to the same table.                               *)
JoinMutex ==
  \A u, v \in User : OnTheWay(u) /\ OnTheWay(v) /\ target[u] = target[v] => u = v

(* table.lua: `count` is the number of players at the table, although a    *)
(* leave removes the player and counts down only after two calls, and a    *)
(* player may be kicked and leave at the same time.  (A player told of the *)
(* end of a table may join it again before it ends, and counts twice.)     *)
(* user_count is the number of players the ctrl knows: CMD.kick counts a   *)
(* player down once, however many coroutines kick the player.              *)
CountExact ==
  \A t \in Table : state[t] = "open" => count[t] = Cardinality(members[t])
UserCountExact == late = {} => userCount = Cardinality(players)
CountsExact == CountExact /\ UserCountExact

(* A player who is not leaving holds exactly one seat, the one in p.seatid,*)
(* and nobody sits who is not at the table: auto_sitdown, leave_game and   *)
(* kick_player keep _players_sit and players in step.                      *)
SeatsMatchMembers ==
  \A t \in Table : state[t] = "open" =>
    /\ \A i \in 1..Seats : seat[t][i] # None => seat[t][i] \in members[t]
    /\ \A u \in members[t] : Settled(t, u) => {i \in 1..Seats : seat[t][i] = u} = {seatid[t][u]}

(* Whoever the ctrl counts among its players is at a table or is being     *)
(* removed, and whoever is settled at a table is known to the ctrl, unless *)
(* messages of an earlier table crossed; and userdata's gamenode names a   *)
(* table the player is at (or is leaving), so that a message or a          *)
(* reconnect of the player reaches the right table.                        *)
CtrlKnowsMembers ==
  \A u \in User \ late :
    /\ u \in players => \E t \in Table : u \in members[t]
    /\ at[u] # None /\ Settled(at[u], u) => u \in players
GameAddrIsMember ==
  \A u \in User \ late : at[u] # None => u \in members[at[u]] /\ Running(at[u])
PlacesAgree == CtrlKnowsMembers /\ GameAddrIsMember

(* ctrl.lua:187 "join blocks, so that a table that is full is not unlocked *)
(* before it has been moved out of the free ones": an unlocked free table  *)
(* has room.                                                               *)
UnlockedHasRoom == \A t \in Candidates : count[t] < Seats

=============================================================================
