---------------------------- MODULE PrivateRoom ----------------------------
(***************************************************************************)
(* Private rooms: a player pays for a room, gets a code, others join by    *)
(* the code; the room ends when the games are over, when its creator       *)
(* dissolves it or when it has waited too long, and then the code is free  *)
(* again and, if no game was played, the fee is paid back.  The parts are  *)
(* gamemanager.lua, the table (server/game/table.lua with the mahjong      *)
(* logic), and what userdata knows of the game the player is in.           *)
(*                                                                         *)
(* Every service is a skynet actor: an action is the code between two      *)
(* calls.  free_table runs in two coroutines of a table, its tick and the  *)
(* one dissolve_table forks.  Fees paid for taking a seat (AA rooms, only  *)
(* on reqSitDown), robots and the record of games are left out.            *)
(***************************************************************************)
EXTENDS Integers, FiniteSets

CONSTANTS
  User,
  Table,     \* table services, each started at most once
  Code,      \* room codes of the game node
  Seats,     \* max_player
  None,
  MaxLost,   \* bound: fees a player may lose on failed requests
  Overlap    \* whether a free_table may start while another one of the table runs

ASSUME PrivateAssumption == /\ Seats \in Nat \ {0} /\ MaxLost \in Nat /\ Overlap \in BOOLEAN
                            /\ None \notin User \cup Table \cup Code

VARIABLES
  (* userdata, and the way of a create or join request *)
  at,        \* player -> the table in gamenode and gameaddr
  req,       \* player -> where the request is
  code,      \* player -> the code it carries
  target,    \* player -> the table it is sent to
  lost,      \* player -> fees paid for requests that gave no room
  (* gamemanager *)
  codeList,  \* code -> how often it is in code_list
  tables,    \* code -> table
  (* the tables *)
  state,     \* table -> its state, see States
  codeOf,    \* table -> code
  members,   \* table -> players
  started,   \* table -> _has_start
  stopped,   \* table -> _game_status = GAME_STOP
  leaving,   \* table -> player -> where `leave` waits
  freer,     \* table -> coroutine -> its free_table
  rent,      \* table -> fees of the creator: paid less paid back
  crossed    \* history: players whom a table dropped or told too late

dataVars  == <<at, req, code, target, lost>>
mgrVars   == <<codeList, tables>>
tableVars == <<state, codeOf, members, started, stopped, leaving, freer, rent>>
vars == <<dataVars, mgrVars, tableVars, crossed>>

TableOrNone == Table \cup {None}
CodeOrNone  == Code \cup {None}
UserOrNone  == User \cup {None}

(* "booting" is a service whose `init` is on its way; "freed" is behind    *)
(* logic.free, "gone" is the exited service.                               *)
States == {"none", "booting", "open", "freed", "gone"}

(* "fee": sub_money; "code": its reply; "boot": newservice; "init": the    *)
(* table's init; "find": gamemanager's join; "table": the table's join;    *)
(* "joined": its answer on the way to userdata.                            *)
Requests == {"none", "fee", "code", "boot", "init", "find", "table", "joined"}
Leaves == {"none", "data", "told"}

(* free_table: "tell" is a call of userdata in its loop, "told" the reply, *)
(* "owner" the fee paid back to the creator, "free" the call of gamemanager*)
Coroutines == {"tick", "fork"}
Idle == [pc |-> "none", todo |-> {}, who |-> None, reason |-> 0]
Free == [pc : {"none", "tell", "told", "owner", "free", "done"},
         todo : SUBSET User, who : UserOrNone, reason : {0, 1001, 1002}]

RequestTypes ==
  /\ at \in [User -> TableOrNone] /\ req \in [User -> Requests]
  /\ code \in [User -> CodeOrNone] /\ target \in [User -> TableOrNone]
  /\ lost \in [User -> Nat] /\ crossed \subseteq User

RoomTypes ==
  /\ codeList \in [Code -> Nat] /\ tables \in [Code -> TableOrNone]
  /\ state \in [Table -> States] /\ codeOf \in [Table -> CodeOrNone]
  /\ started \in [Table -> BOOLEAN] /\ stopped \in [Table -> BOOLEAN]
  /\ rent \in [Table -> Int]

PlayerTypes ==
  /\ members \in [Table -> SUBSET User] /\ leaving \in [Table -> [User -> Leaves]]
  /\ freer \in [Table -> [Coroutines -> Free]]

TypeOK == RequestTypes /\ RoomTypes /\ PlayerTypes

Init ==
  /\ at = [u \in User |-> None] /\ req = [u \in User |-> "none"]
  /\ code = [u \in User |-> None] /\ target = [u \in User |-> None]
  /\ lost = [u \in User |-> 0]
  /\ codeList = [c \in Code |-> 1] /\ tables = [c \in Code |-> None]
  /\ state = [t \in Table |-> "none"] /\ codeOf = [t \in Table |-> None]
  /\ members = [t \in Table |-> {}]
  /\ started = [t \in Table |-> FALSE] /\ stopped = [t \in Table |-> FALSE]
  /\ leaving = [t \in Table |-> [u \in User |-> "none"]]
  /\ freer = [t \in Table |-> [f \in Coroutines |-> Idle]]
  /\ rent = [t \in Table |-> 0] /\ crossed = {}

Freeing(t) == \E f \in Coroutines : freer[t][f].pc # "none"

-----------------------------------------------------------------------------
(* Creating and joining.                                                   *)

(* Mutant: gamenode is not looked at. *)
Eager(u) ==
  /\ u \notin crossed /\ req[u] = "none" /\ \A t \in Table : leaving[t][u] = "none"

(* gamenode is not set; the client waits for the answer to its last request*)
(* and for resLeaveTable.  Bound: a player in `crossed` does not come back.*)
Unengaged(u) ==
  /\ u \notin crossed /\ at[u] = None /\ req[u] = "none"
  /\ \A t \in Table : leaving[t][u] = "none"

(* reqCreateGame: the manager's first call is sub_money. *)
ReqCreate(u) ==
  /\ Unengaged(u) /\ lost[u] < MaxLost
  /\ req' = [req EXCEPT ![u] = "fee"]
  /\ UNCHANGED <<at, code, target, lost, mgrVars, tableVars, crossed>>

(* sub_money: refused (1010), or the fee is taken; it belongs to no room so*)
(* far.                                                                    *)
PayFee(u) ==
  /\ req[u] = "fee"
  /\ \/ /\ req' = [req EXCEPT ![u] = "none"] /\ UNCHANGED lost
     \/ /\ req' = [req EXCEPT ![u] = "code"]
        /\ lost' = [lost EXCEPT ![u] = @ + 1]
  /\ UNCHANGED <<at, code, target, mgrVars, tableVars, crossed>>

InList == {c \in Code : codeList[c] > 0}

(* Mutant: the code stays in the list until the room is there. *)
KeepCode(c) == UNCHANGED codeList

RemoveCode(c) == codeList' = [codeList EXCEPT ![c] = @ - 1]

(* No code is left (1011), the code is in use (1001, and the code is taken *)
(* out all the same), the score is wrong (1003, likewise), or a service is *)
(* started.                                                                *)
TakeCode(u) ==
  /\ req[u] = "code"
  /\ \/ /\ InList = {}
        /\ req' = [req EXCEPT ![u] = "none"] /\ UNCHANGED <<code, codeList>>
     \/ \E c \in InList :
          /\ RemoveCode(c)
          /\ \/ /\ req' = [req EXCEPT ![u] = "none"] /\ UNCHANGED code
             \/ /\ tables[c] = None
                /\ req' = [req EXCEPT ![u] = "boot"] /\ code' = [code EXCEPT ![u] = c]
  /\ UNCHANGED <<at, target, lost, tables, tableVars, crossed>>

(* newservice has returned. *)
NewTable(u, t) ==
  /\ req[u] = "boot" /\ state[t] = "none"
  /\ state' = [state EXCEPT ![t] = "booting"]
  /\ tables' = [tables EXCEPT ![code[u]] = t]
  /\ target' = [target EXCEPT ![u] = t]
  /\ req' = [req EXCEPT ![u] = "init"]
  /\ UNCHANGED <<at, code, lost, codeList, codeOf, members, started, stopped,
                 leaving, freer, rent, crossed>>

(* CMD.init of the table; the manager goes on to its join. *)
InitTable(u) ==
  LET t == target[u] IN
  /\ req[u] = "init"
  /\ state' = [state EXCEPT ![t] = "open"]
  /\ codeOf' = [codeOf EXCEPT ![t] = code[u]]
  /\ rent' = [rent EXCEPT ![t] = 1] /\ lost' = [lost EXCEPT ![u] = @ - 1]
  /\ req' = [req EXCEPT ![u] = "table"]
  /\ UNCHANGED <<at, code, target, mgrVars, members, started, stopped, leaving, freer, crossed>>

(* reqQuickJoinGame with a code. *)
ReqJoin(u, c) ==
  /\ Unengaged(u)
  /\ req' = [req EXCEPT ![u] = "find"] /\ code' = [code EXCEPT ![u] = c]
  /\ UNCHANGED <<at, target, lost, mgrVars, tableVars, crossed>>

Dismiss(u) == /\ req' = [req EXCEPT ![u] = "none"]
              /\ code' = [code EXCEPT ![u] = None]
              /\ target' = [target EXCEPT ![u] = None]

(* CMD.join of the manager: no such room (1009), or on to the table. *)
Find(u) ==
  LET t == tables[code[u]] IN
  /\ req[u] = "find"
  /\ IF t = None THEN Dismiss(u)
     ELSE /\ req' = [req EXCEPT ![u] = "table"]
          /\ target' = [target EXCEPT ![u] = t] /\ UNCHANGED code
  /\ UNCHANGED <<at, lost, mgrVars, tableVars, crossed>>

(* CMD.join of the table: no logic yet (101), full (1006), admitted and    *)
(* seated by auto_sitdown; an error behind logic.free or after the exit.   *)
(* A traversal of free_table may visit a player who is added meanwhile.    *)
TableJoin(u) ==
  LET t == target[u] IN
  /\ req[u] = "table"
  /\ IF state[t] = "open" /\ Cardinality(members[t]) < Seats
     THEN /\ members' = [members EXCEPT ![t] = @ \cup {u}]
          /\ req' = [req EXCEPT ![u] = "joined"] /\ UNCHANGED <<code, target>>
          /\ \/ UNCHANGED freer
             \/ \E f \in Coroutines : /\ freer[t][f].pc \in {"tell", "told"}
                                      /\ freer' = [freer EXCEPT ![t][f].todo = @ \cup {u}]
     ELSE Dismiss(u) /\ UNCHANGED <<members, freer>>
  /\ UNCHANGED <<at, lost, mgrVars, state, codeOf, started, stopped,
                 leaving, rent, crossed>>

(* Mutant: the answer of the table is not stored. *)
ForgetReply(u) ==
  /\ req[u] = "joined"
  /\ Dismiss(u)
  /\ UNCHANGED <<at, lost, mgrVars, tableVars, crossed>>

(* join_game of datalogic: whatever the table has told userdata meanwhile. *)
JoinReply(u) ==
  /\ req[u] = "joined"
  /\ at' = [at EXCEPT ![u] = target[u]]
  /\ crossed' = IF u \notin members[target[u]] \/ Freeing(target[u])
                THEN crossed \cup {u} ELSE crossed
  /\ Dismiss(u)
  /\ UNCHANGED <<lost, mgrVars, tableVars>>

-----------------------------------------------------------------------------
(* Leaving.                                                                *)

(* reqLeaveTable before the games have begun: the seat is given up. *)
ReqLeave(t, u) ==
  /\ at[u] = t /\ u \in members[t] /\ ~started[t] /\ leaving[t][u] = "none"
  /\ leaving' = [leaving EXCEPT ![t][u] = "data"]
  /\ UNCHANGED <<dataVars, mgrVars, state, codeOf, members, started, stopped,
                 freer, rent, crossed>>

LeaveData(t, u) ==
  /\ leaving[t][u] = "data"
  /\ at' = [at EXCEPT ![u] = None]
  /\ leaving' = [leaving EXCEPT ![t][u] = "told"]
  /\ UNCHANGED <<req, code, target, lost, mgrVars, state, codeOf, members,
                 started, stopped, freer, rent, crossed>>

LeaveDone(t, u) ==
  /\ leaving[t][u] = "told"
  /\ leaving' = [leaving EXCEPT ![t][u] = "none"]
  /\ members' = [members EXCEPT ![t] = @ \ {u}]
  /\ UNCHANGED <<dataVars, mgrVars, state, codeOf, started, stopped, freer, rent, crossed>>

-----------------------------------------------------------------------------
(* The games and the end of a room.                                        *)

TickReady(t) == state[t] = "open" /\ freer[t]["tick"].pc = "none"

(* deal_waiting_start: everyone is seated and ready.  The tick goes on     *)
(* while the forked coroutine is in free_table.                            *)
Start(t) ==
  /\ TickReady(t) /\ ~started[t] /\ ~stopped[t]
  /\ Cardinality({u \in members[t] : leaving[t][u] = "none"}) = Seats
  /\ started' = [started EXCEPT ![t] = TRUE]
  /\ UNCHANGED <<dataVars, mgrVars, state, codeOf, members, stopped, leaving,
                 freer, rent, crossed>>

(* All games are played, or the players have voted for the end. *)
GameOver(t) ==
  /\ TickReady(t) /\ started[t] /\ ~stopped[t]
  /\ stopped' = [stopped EXCEPT ![t] = TRUE]
  /\ UNCHANGED <<dataVars, mgrVars, state, codeOf, members, started, leaving,
                 freer, rent, crossed>>

(* free_table goes on to the next of its players.  Behind the loop:        *)
(* logic.free, all players are dropped, and the creator gets the fee back  *)
(* if the room was dissolved.                                              *)
Traverse(t, f, todo, reason) ==
  \/ \E u \in todo \cap members[t] :
       /\ freer' = [freer EXCEPT ![t][f] =
                      [pc |-> "tell", todo |-> todo \ {u}, who |-> u, reason |-> reason]]
       /\ UNCHANGED <<members, state>>
  \/ /\ todo \cap members[t] = {}
     /\ freer' = [freer EXCEPT ![t][f] =
                    [pc |-> IF reason = 1001 THEN "owner" ELSE "free",
                     todo |-> {}, who |-> None, reason |-> reason]]
     /\ members' = [members EXCEPT ![t] = {}]
     /\ state' = [state EXCEPT ![t] = "freed"]

StartFree(t, f, reason) ==
  /\ Overlap \/ ~Freeing(t)
  /\ Traverse(t, f, members[t], reason)

(* CMD.dissolve_table of the manager finds the table by its code; the table*)
(* forks dissolve_table: before the games the table is freed, afterwards   *)
(* they end (dissolve_table_success).                                      *)
Dissolve(t) ==
  /\ state[t] = "open" /\ tables[codeOf[t]] = t /\ freer[t]["fork"].pc = "none"
  /\ \/ /\ ~started[t]
        /\ StartFree(t, "fork", 1001) /\ UNCHANGED stopped
     \/ /\ started[t]
        /\ stopped' = [stopped EXCEPT ![t] = TRUE] /\ UNCHANGED <<freer, members, state>>
  /\ UNCHANGED <<dataVars, mgrVars, codeOf, started, leaving, rent, crossed>>

(* deal_game_stop. *)
Stop(t) ==
  /\ TickReady(t) /\ stopped[t] /\ members[t] # {}
  /\ StartFree(t, "tick", 1002)
  /\ UNCHANGED <<dataVars, mgrVars, codeOf, started, stopped, leaving, rent, crossed>>

(* _end_time; update() does not get there in a room without players, which *)
(* all_robot() takes for one of robots.                                    *)
Expire(t) ==
  /\ TickReady(t) /\ ~started[t] /\ members[t] # {}
  /\ StartFree(t, "tick", 1001)
  /\ UNCHANGED <<dataVars, mgrVars, codeOf, started, stopped, leaving, rent, crossed>>

FreeNext(t, f) ==
  /\ freer[t][f].pc = "told" /\ state[t] # "gone"
  /\ Traverse(t, f, freer[t][f].todo, freer[t][f].reason)
  /\ UNCHANGED <<dataVars, mgrVars, codeOf, started, stopped, leaving, rent, crossed>>

(* CMD.leave_game of datalogic: of whichever table. *)
FreeTell(t, f) ==
  LET r == freer[t][f] IN
  /\ r.pc = "tell"
  /\ at' = [at EXCEPT ![r.who] = None]
  /\ crossed' = IF at[r.who] = t THEN crossed ELSE crossed \cup {r.who}
  /\ freer' = [freer EXCEPT ![t][f] =
                  [pc |-> "told", todo |-> r.todo, who |-> None, reason |-> r.reason]]
  /\ UNCHANGED <<req, code, target, lost, mgrVars, state, codeOf, members, started,
                 stopped, leaving, rent>>

(* Mutant: the fee of a room that was dissolved is kept. *)
KeepFee(t, f) ==
  /\ freer[t][f].pc = "owner"
  /\ freer' = [freer EXCEPT ![t][f].pc = "free"]
  /\ UNCHANGED <<dataVars, mgrVars, state, codeOf, members, started, stopped,
                 leaving, rent, crossed>>

PayBack(t, f) ==
  /\ freer[t][f].pc = "owner"
  /\ rent' = [rent EXCEPT ![t] = @ - 1]
  /\ freer' = [freer EXCEPT ![t][f].pc = "free"]
  /\ UNCHANGED <<dataVars, mgrVars, state, codeOf, members, started, stopped, leaving, crossed>>

(* Mutant: the code goes back before the room ends. *)
FreeCodeEarly(t, f) ==
  /\ freer[t][f].pc \in {"told", "free"}
  /\ tables' = [tables EXCEPT ![codeOf[t]] = None]
  /\ codeList' = [codeList EXCEPT ![codeOf[t]] = @ + 1]
  /\ freer' = [freer EXCEPT ![t][f].pc = IF @ = "free" THEN "done" ELSE @]
  /\ UNCHANGED <<dataVars, state, codeOf, members, started, stopped, leaving, rent, crossed>>

(* CMD.free of the manager. *)
FreeCode(t, f) ==
  /\ freer[t][f].pc = "free"
  /\ tables' = [tables EXCEPT ![codeOf[t]] = None]
  /\ codeList' = [codeList EXCEPT ![codeOf[t]] = @ + 1]
  /\ freer' = [freer EXCEPT ![t][f].pc = "done"]
  /\ UNCHANGED <<dataVars, state, codeOf, members, started, stopped, leaving, rent, crossed>>

Exit(t) ==
  /\ state[t] = "freed" /\ \E f \in Coroutines : freer[t][f].pc = "done"
  /\ state' = [state EXCEPT ![t] = "gone"]
  /\ UNCHANGED <<dataVars, mgrVars, codeOf, members, started, stopped, leaving,
                 freer, rent, crossed>>

-----------------------------------------------------------------------------

Request(u) ==
  \/ PayFee(u) \/ TakeCode(u) \/ (\E t \in Table : NewTable(u, t)) \/ InitTable(u)
  \/ Find(u) \/ TableJoin(u) \/ JoinReply(u)

Leave(t, u) == LeaveData(t, u) \/ LeaveDone(t, u)

FreeTable(t) ==
  \/ \E f \in Coroutines : FreeNext(t, f) \/ FreeTell(t, f) \/ PayBack(t, f) \/ FreeCode(t, f)
  \/ Exit(t)

Next ==
  \/ \E u \in User : ReqCreate(u) \/ (\E c \in Code : ReqJoin(u, c)) \/ Request(u)
  \/ \E t \in Table, u \in User : ReqLeave(t, u) \/ Leave(t, u)
  \/ \E t \in Table : Start(t) \/ GameOver(t) \/ Dissolve(t) \/ Stop(t) \/ Expire(t)
                      \/ FreeTable(t)

Spec == Init /\ [][Next]_vars

-----------------------------------------------------------------------------
(* Properties.                                                             *)

(* A room code is in one place: in code_list, in the hands of one create,  *)
(* or in `tables`.  create takes the code out of the list before it waits  *)
(* for the new service, and free puts it back.                             *)
CodeOwnedOnce ==
  \A c \in Code : codeList[c] + Cardinality({t \in Table : tables[c] = t})
                    + Cardinality({u \in User : req[u] = "boot" /\ code[u] = c}) <= 1

Live(t) == state[t] = "open" /\ \A f \in Coroutines : freer[t][f].pc # "done"

(* As long as the manager has not freed a room, the players' code leads to *)
(* it: no other room takes the code, and no late `free` drops it.          *)
CodeLeadsToRoom == \A t \in Table : Live(t) => tables[codeOf[t]] = t

(* The creator has paid for a room that was played and has the fee back    *)
(* for one that was dissolved or has waited too long.                      *)
RentSettled ==
  \A t \in Table : state[t] = "gone" =>
    rent[t] = IF \E f \in Coroutines : freer[t][f].reason = 1001 THEN 0 ELSE 1

(* A player sits in one room at a time: userdata refuses a request while   *)
(* gamenode is set, and gamenode is set as long as the player sits.        *)
OneRoom ==
  \A u \in User \ crossed :
    Cardinality({t \in Table : state[t] = "open" /\ u \in members[t]
                               /\ leaving[t][u] = "none" /\ ~Freeing(t)}) <= 1

(* userdata knows the room a settled player sits in.                       *)
SeatKnown ==
  \A u \in User \ crossed, t \in Table :
    /\ state[t] = "open" /\ u \in members[t] /\ leaving[t][u] = "none" /\ ~Freeing(t)
    /\ ~(req[u] = "joined" /\ target[u] = t)
    => at[u] = t

(* userdata and the tables agree on the one room of a player.              *)
OnePlace == OneRoom /\ SeatKnown

(* table.lua:685 "if the table is dissolved, the fee is given back to the  *)
(* owner": once.                                                           *)
RefundedOnce == \A t \in Table : rent[t] >= 0

=============================================================================
