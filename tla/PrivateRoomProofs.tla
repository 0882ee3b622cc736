------------------------- MODULE PrivateRoomProofs -------------------------
(***************************************************************************)
(* Proofs about private rooms, for any number of players, tables, seats and*)
(* codes: their type, and that a player is in one room; and, when no two   *)
(* free_table of a room overlap, that room codes are safe and the fee is   *)
(* settled.  PrivateRoom_overlap.cfg shows what happens to the fees without*)
(* that assumption.                                                        *)
(***************************************************************************)
EXTENDS PrivateRoom, FiniteSetTheorems, TLAPS

(* A request carries a paid fee to its room, or a code. *)
LostInv == \A u \in User :
  /\ req[u] \in {"code", "boot", "init"} => lost[u] >= 1
  /\ req[u] \in {"boot", "init", "find"} => code[u] \in Code

(* A call of userdata is about a player. *)
TellInv == \A t \in Table, f \in Coroutines : freer[t][f].pc = "tell" => freer[t][f].who \in User

TInv == TypeOK /\ LostInv /\ TellInv

-----------------------------------------------------------------------------
(* The type. *)

LEMMA InitTInv == Init => TInv
  <1> SUFFICES ASSUME Init PROVE TInv
    OBVIOUS
  <1>1. RequestTypes /\ LostInv
    BY DEF Init, RequestTypes, LostInv, Requests, TableOrNone, CodeOrNone
  <1>2. RoomTypes
    BY DEF Init, RoomTypes, TableOrNone, CodeOrNone, States
  <1>3. PlayerTypes
    BY DEF Init, PlayerTypes, Leaves, Coroutines, Idle, Free, UserOrNone
  <1>4. TellInv
    BY DEF Init, TellInv, Idle
  <1> QED
    BY <1>1, <1>2, <1>3, <1>4 DEF TInv, TypeOK

(* What a request does to the player's own variables. *)
LEMMA RequestStepTypes ==
  ASSUME RequestTypes, RoomTypes, LostInv, NEW u \in User,
         ReqCreate(u) \/ (\E c \in Code : ReqJoin(u, c)) \/ Request(u)
  PROVE  RequestTypes' /\ LostInv'
  <1> USE DEF RequestTypes, RoomTypes, LostInv, Requests, TableOrNone, CodeOrNone
  <1>1. CASE ReqCreate(u)
    <2>1. req' \in [User -> Requests] /\ UNCHANGED <<at, code, target, lost, crossed>>
      BY <1>1 DEF ReqCreate
    <2>2. LostInv'
      BY <1>1, <2>1 DEF ReqCreate
    <2> QED BY <2>1, <2>2
  <1>2. CASE PayFee(u)
    BY <1>2 DEF PayFee
  <1>3. CASE TakeCode(u)
    BY <1>3 DEF TakeCode, InList
  <1>4. ASSUME NEW t \in Table, NewTable(u, t) PROVE RequestTypes' /\ LostInv'
    BY <1>4 DEF NewTable
  <1>5. CASE InitTable(u)
    BY <1>5 DEF InitTable
  <1>6. ASSUME NEW c \in Code, ReqJoin(u, c) PROVE RequestTypes' /\ LostInv'
    BY <1>6 DEF ReqJoin
  <1>7. CASE Find(u)
    BY <1>7 DEF Find, Dismiss
  <1>8. CASE TableJoin(u)
    BY <1>8 DEF TableJoin, Dismiss
  <1>9. CASE JoinReply(u)
    BY <1>9 DEF JoinReply, Dismiss
  <1> QED BY <1>1, <1>2, <1>3, <1>4, <1>5, <1>6, <1>7, <1>8, <1>9 DEF Request

(* ... and to the manager and the rooms. *)
LEMMA RequestStepRooms ==
  ASSUME RequestTypes, RoomTypes, NEW u \in User,
         ReqCreate(u) \/ (\E c \in Code : ReqJoin(u, c)) \/ Request(u)
  PROVE  RoomTypes'
  <1> USE DEF RoomTypes, mgrVars, tableVars
  <1>1. CASE ReqCreate(u) \/ PayFee(u) \/ Find(u) \/ JoinReply(u)
    BY <1>1 DEF ReqCreate, PayFee, Find, JoinReply
  <1>2. CASE TakeCode(u)
    BY <1>2 DEF TakeCode, InList, RemoveCode
  <1>3. ASSUME NEW t \in Table, NewTable(u, t) PROVE RoomTypes'
    BY <1>3 DEF NewTable, States, TableOrNone
  <1>4. CASE InitTable(u)
    <2>1. code[u] \in CodeOrNone
      BY DEF RequestTypes
    <2>2. /\ state' = [state EXCEPT ![target[u]] = "open"]
          /\ codeOf' = [codeOf EXCEPT ![target[u]] = code[u]]
          /\ rent' = [rent EXCEPT ![target[u]] = 1]
          /\ UNCHANGED <<codeList, tables, started, stopped>>
      BY <1>4 DEF InitTable
    <2>3. state' \in [Table -> States]
      BY <2>2 DEF States
    <2>4. codeOf' \in [Table -> CodeOrNone]
      BY <2>1, <2>2
    <2>5. rent' \in [Table -> Int]
      <3>1. rent \in [Table -> Int] /\ rent' = [rent EXCEPT ![target[u]] = 1]
        BY <2>2
      <3> HIDE DEF RoomTypes
      <3>2. \A t \in Table : rent'[t] \in Int
        BY <3>1
      <3> QED BY <3>1, <3>2
    <2> QED BY <2>2, <2>3, <2>4, <2>5
  <1>5. ASSUME NEW c \in Code, ReqJoin(u, c) PROVE RoomTypes'
    BY <1>5 DEF ReqJoin
  <1>6. CASE TableJoin(u)
    BY <1>6 DEF TableJoin
  <1> QED BY <1>1, <1>2, <1>3, <1>4, <1>5, <1>6 DEF Request

(* What it takes to be a free_table. *)
LEMMA FreeFields ==
  ASSUME NEW r \in Free
  PROVE  /\ r.pc \in {"none", "tell", "told", "owner", "free", "done"}
         /\ r.todo \in SUBSET User /\ r.who \in UserOrNone /\ r.reason \in {0, 1001, 1002}
  BY DEF Free

LEMMA Moved ==
  ASSUME NEW r \in Free, NEW p \in {"free", "done"} PROVE [r EXCEPT !.pc = p] \in Free
  <1>1. r.todo \in SUBSET User /\ r.reason \in {0, 1001, 1002} /\ r.who \in UserOrNone
    BY FreeFields
  <1>2. [r EXCEPT !.pc = p] = [pc |-> p, todo |-> r.todo, who |-> r.who, reason |-> r.reason]
    BY DEF Free
  <1>3. [pc |-> p, todo |-> r.todo, who |-> r.who, reason |-> r.reason] \in Free
    BY <1>1 DEF Free
  <1> QED BY <1>2, <1>3

LEMMA Visits ==
  ASSUME NEW r \in Free, NEW u \in User PROVE [r EXCEPT !.todo = @ \cup {u}] \in Free
  <1>1. /\ r.todo \cup {u} \in SUBSET User /\ r.reason \in {0, 1001, 1002}
        /\ r.who \in UserOrNone /\ r.pc \in {"none", "tell", "told", "owner", "free", "done"}
    BY FreeFields
  <1>2. [r EXCEPT !.todo = @ \cup {u}] =
         [pc |-> r.pc, todo |-> r.todo \cup {u}, who |-> r.who, reason |-> r.reason]
    BY DEF Free
  <1>3. [pc |-> r.pc, todo |-> r.todo \cup {u}, who |-> r.who, reason |-> r.reason] \in Free
    BY <1>1 DEF Free
  <1> QED BY <1>2, <1>3

(* The writes to one coroutine keep the type. *)
LEMMA FreerMoved ==
  ASSUME PlayerTypes, NEW t \in Table, NEW f \in Coroutines, NEW p \in {"free", "done"},
         freer' = [freer EXCEPT ![t][f].pc = p]
  PROVE  freer' \in [Table -> [Coroutines -> Free]]
  <1>1. freer[t][f] \in Free
    BY DEF PlayerTypes
  <1>2. [freer[t][f] EXCEPT !.pc = p] \in Free
    BY <1>1, Moved
  <1> QED BY <1>2 DEF PlayerTypes

LEMMA FreerVisits ==
  ASSUME PlayerTypes, NEW t \in Table, NEW f \in Coroutines, NEW u \in User,
         freer' = [freer EXCEPT ![t][f].todo = @ \cup {u}]
  PROVE  freer' \in [Table -> [Coroutines -> Free]]
  <1>1. freer[t][f] \in Free
    BY DEF PlayerTypes
  <1>2. [freer[t][f] EXCEPT !.todo = @ \cup {u}] \in Free
    BY <1>1, Visits
  <1> QED BY <1>2 DEF PlayerTypes

LEMMA FreerTold ==
  ASSUME PlayerTypes, NEW t \in Table, NEW f \in Coroutines, FreeTell(t, f)
  PROVE  freer' \in [Table -> [Coroutines -> Free]]
  <1> DEFINE n == [pc |-> "told", todo |-> freer[t][f].todo, who |-> None,
                   reason |-> freer[t][f].reason]
  <1>1. freer[t][f] \in Free
    BY DEF PlayerTypes
  <1>2. freer[t][f].todo \in SUBSET User /\ freer[t][f].reason \in {0, 1001, 1002}
    BY <1>1, FreeFields
  <1>3. n \in Free
    BY <1>2 DEF Free, UserOrNone
  <1>4. freer' = [freer EXCEPT ![t][f] = n]
    BY DEF FreeTell
  <1> HIDE DEF n
  <1> QED BY <1>3, <1>4 DEF PlayerTypes

(* The writes keep TellInv. *)
LEMMA TellStep ==
  ASSUME PlayerTypes, TellInv, NEW t, NEW f \in Coroutines,
         \/ UNCHANGED freer
         \/ \E u : freer' = [freer EXCEPT ![t][f].todo = @ \cup {u}]
         \/ \E p \in {"free", "done"} : freer' = [freer EXCEPT ![t][f].pc = p]
         \/ \E r : (r.pc = "tell" => r.who \in User) /\ freer' = [freer EXCEPT ![t][f] = r]
  PROVE  TellInv'
  <1> USE DEF TellInv, PlayerTypes
  <1>1. CASE UNCHANGED freer
    BY <1>1
  <1>2. ASSUME NEW u, freer' = [freer EXCEPT ![t][f].todo = @ \cup {u}] PROVE TellInv'
    BY <1>2, FreeFields
  <1>3. ASSUME NEW p \in {"free", "done"}, freer' = [freer EXCEPT ![t][f].pc = p] PROVE TellInv'
    BY <1>3
  <1>4. ASSUME NEW r, r.pc = "tell" => r.who \in User, freer' = [freer EXCEPT ![t][f] = r]
        PROVE  TellInv'
    BY <1>4
  <1> QED BY <1>1, <1>2, <1>3, <1>4

LEMMA RequestStepPlayers ==
  ASSUME RequestTypes, PlayerTypes, TellInv, NEW u \in User,
         ReqCreate(u) \/ (\E c \in Code : ReqJoin(u, c)) \/ Request(u)
  PROVE  PlayerTypes' /\ TellInv'
  <1>1. CASE UNCHANGED <<members, leaving, freer>>
    BY <1>1 DEF PlayerTypes, TellInv
  <1>2. CASE TableJoin(u)
    <2>1. members' \in [Table -> SUBSET User]
      BY <1>2 DEF TableJoin, PlayerTypes
    <2>2. CASE UNCHANGED freer
      BY <1>2, <2>1, <2>2 DEF TableJoin, PlayerTypes, TellInv
    <2>3. ASSUME NEW f \in Coroutines,
                 freer' = [freer EXCEPT ![target[u]][f].todo = @ \cup {u}]
          PROVE  freer' \in [Table -> [Coroutines -> Free]] /\ TellInv'
      <3>1. CASE target[u] \in Table
        BY <2>3, <3>1, FreerVisits, TellStep
      <3>2. CASE target[u] \notin Table
        BY <2>3, <3>2 DEF PlayerTypes, TellInv
      <3> QED BY <3>1, <3>2
    <2> QED BY <1>2, <2>1, <2>2, <2>3 DEF TableJoin, PlayerTypes
  <1> QED BY <1>1, <1>2
      DEF Request, ReqCreate, PayFee, TakeCode, NewTable, InitTable, ReqJoin, Find, JoinReply,
          tableVars

LEMMA LeaveType ==
  ASSUME TInv, NEW t \in Table, NEW u \in User, ReqLeave(t, u) \/ Leave(t, u)
  PROVE  TInv'
  <1> USE DEF TInv, TypeOK
  <1>1. RequestTypes' /\ LostInv'
    BY DEF RequestTypes, LostInv, ReqLeave, Leave, LeaveData, LeaveDone, TableOrNone, dataVars
  <1>2. RoomTypes'
    BY DEF RoomTypes, ReqLeave, Leave, LeaveData, LeaveDone, mgrVars
  <1>3. PlayerTypes'
    <2>1. UNCHANGED freer
      BY DEF ReqLeave, Leave, LeaveData, LeaveDone
    <2>2. members' \in [Table -> SUBSET User]
      BY DEF PlayerTypes, ReqLeave, Leave, LeaveData, LeaveDone
    <2>3. \E p \in Leaves : leaving' = [leaving EXCEPT ![t][u] = p]
      BY DEF ReqLeave, Leave, LeaveData, LeaveDone, Leaves
    <2>4. leaving' \in [Table -> [User -> Leaves]]
      BY <2>3 DEF PlayerTypes
    <2> QED BY <2>1, <2>2, <2>4 DEF PlayerTypes
  <1>4. TellInv'
    BY DEF TellInv, ReqLeave, Leave, LeaveData, LeaveDone
  <1> QED BY <1>1, <1>2, <1>3, <1>4

LEMMA TraverseType ==
  ASSUME PlayerTypes, RoomTypes, TellInv, NEW t \in Table, NEW f \in Coroutines,
         NEW todo \in SUBSET User, NEW reason \in {0, 1001, 1002},
         Traverse(t, f, todo, reason), UNCHANGED leaving
  PROVE  PlayerTypes' /\ TellInv' /\ state' \in [Table -> States]
  <1>1. CASE \E u \in todo \cap members[t] :
               /\ freer' = [freer EXCEPT ![t][f] =
                      [pc |-> "tell", todo |-> todo \ {u}, who |-> u, reason |-> reason]]
               /\ UNCHANGED <<members, state>>
    <2>1. PICK u \in todo : freer' = [freer EXCEPT ![t][f] =
                      [pc |-> "tell", todo |-> todo \ {u}, who |-> u, reason |-> reason]]
      BY <1>1
    <2> DEFINE r == [pc |-> "tell", todo |-> todo \ {u}, who |-> u, reason |-> reason]
    <2>2. r \in Free /\ freer' = [freer EXCEPT ![t][f] = r]
      BY <2>1 DEF Free, UserOrNone
    <2>4. r.pc = "tell" => r.who \in User
      OBVIOUS
    <2> HIDE DEF r
    <2>3. freer' \in [Table -> [Coroutines -> Free]]
      BY <2>2 DEF PlayerTypes
    <2>5. TellInv'
      BY <2>2, <2>4 DEF TellInv, PlayerTypes
    <2> QED BY <1>1, <2>3, <2>5 DEF PlayerTypes, RoomTypes
  <1>2. CASE /\ freer' = [freer EXCEPT ![t][f] =
                      [pc |-> IF reason = 1001 THEN "owner" ELSE "free",
                       todo |-> {}, who |-> None, reason |-> reason]]
             /\ members' = [members EXCEPT ![t] = {}]
             /\ state' = [state EXCEPT ![t] = "freed"]
    <2> DEFINE r == [pc |-> IF reason = 1001 THEN "owner" ELSE "free",
                     todo |-> {}, who |-> None, reason |-> reason]
    <2>1. r \in Free /\ freer' = [freer EXCEPT ![t][f] = r]
      BY <1>2 DEF Free, UserOrNone
    <2>4. r.pc # "tell"
      OBVIOUS
    <2> HIDE DEF r
    <2>2. freer' \in [Table -> [Coroutines -> Free]]
      BY <2>1 DEF PlayerTypes
    <2>5. TellInv'
      BY <2>1, <2>4 DEF TellInv, PlayerTypes
    <2> QED BY <1>2, <2>2, <2>5 DEF PlayerTypes, RoomTypes, States
  <1> QED BY <1>1, <1>2 DEF Traverse

(* The steps of free_table that only move one coroutine on. *)
LEMMA FreerMoves ==
  ASSUME PlayerTypes, TellInv, NEW t \in Table, NEW f \in Coroutines,
         \/ FreeTell(t, f) \/ PayBack(t, f) \/ FreeCode(t, f)
  PROVE  PlayerTypes' /\ TellInv'
  <1>2. CASE FreeTell(t, f)
    <2> DEFINE r == [pc |-> "told", todo |-> freer[t][f].todo, who |-> None,
                     reason |-> freer[t][f].reason]
    <2>1. r.pc # "tell" /\ freer' = [freer EXCEPT ![t][f] = r]
      BY <1>2 DEF FreeTell
    <2> HIDE DEF r
    <2>2. TellInv'
      BY <2>1, TellStep
    <2> QED BY <1>2, <2>2, FreerTold DEF FreeTell, PlayerTypes
  <1>3. CASE PayBack(t, f) \/ FreeCode(t, f)
    <2>1. PICK p \in {"free", "done"} : freer' = [freer EXCEPT ![t][f].pc = p]
      BY <1>3 DEF PayBack, FreeCode
    <2>2. TellInv'
      BY <2>1, TellStep
    <2> QED BY <1>3, <2>1, <2>2, FreerMoved DEF PayBack, FreeCode, PlayerTypes
  <1> QED BY <1>2, <1>3

LEMMA TableType ==
  ASSUME TInv, NEW t \in Table,
         Start(t) \/ GameOver(t) \/ Dissolve(t) \/ Stop(t) \/ Expire(t) \/ FreeTable(t)
  PROVE  TInv'
  <1> USE DEF TInv, TypeOK
  <1>1. CASE Start(t) \/ GameOver(t) \/ Exit(t)
    BY <1>1 DEF Start, GameOver, Exit, RequestTypes, LostInv, RoomTypes, PlayerTypes, TellInv,
                States, dataVars, mgrVars
  <1>2. CASE Dissolve(t) /\ started[t]
    BY <1>2 DEF Dissolve, RequestTypes, LostInv, RoomTypes, PlayerTypes, TellInv, dataVars, mgrVars
  <1>3. ASSUME NEW f \in Coroutines, NEW todo \in SUBSET User,
               NEW reason \in {0, 1001, 1002}, Traverse(t, f, todo, reason),
               UNCHANGED <<dataVars, mgrVars, codeOf, started, stopped, leaving, rent, crossed>>
        PROVE  TInv'
    <2>1. PlayerTypes' /\ TellInv' /\ state' \in [Table -> States]
      BY <1>3, TraverseType
    <2> QED BY <1>3, <2>1 DEF RequestTypes, LostInv, RoomTypes, dataVars, mgrVars
  <1>4. members[t] \in SUBSET User
    BY DEF PlayerTypes
  <1>5. CASE Dissolve(t) /\ ~started[t]
    BY <1>3, <1>4, <1>5 DEF Dissolve, StartFree, Coroutines
  <1>6. CASE Stop(t) \/ Expire(t)
    BY <1>3, <1>4, <1>6 DEF Stop, Expire, StartFree, Coroutines
  <1>7. ASSUME NEW f \in Coroutines, FreeNext(t, f) PROVE TInv'
    <2>1. freer[t][f].todo \in SUBSET User /\ freer[t][f].reason \in {0, 1001, 1002}
      BY DEF PlayerTypes, Free
    <2> QED BY <1>3, <1>7, <2>1 DEF FreeNext
  <1>8. ASSUME NEW f \in Coroutines, FreeTell(t, f) PROVE TInv'
    <2>1. PlayerTypes' /\ TellInv'
      BY <1>8, FreerMoves
    <2>2. freer[t][f].who \in User
      BY <1>8 DEF TellInv, FreeTell
    <2>3. RequestTypes' /\ LostInv'
      BY <1>8, <2>2 DEF FreeTell, RequestTypes, LostInv, TableOrNone
    <2> QED BY <1>8, <2>1, <2>3 DEF FreeTell, RoomTypes, mgrVars
  <1>9. ASSUME NEW f \in Coroutines, PayBack(t, f) \/ FreeCode(t, f) PROVE TInv'
    <2>1. PlayerTypes' /\ TellInv'
      BY <1>9, FreerMoves
    <2> QED BY <1>9, <2>1 DEF PayBack, FreeCode, RequestTypes, LostInv, RoomTypes, TableOrNone,
                             dataVars, mgrVars
  <1> QED BY <1>1, <1>2, <1>5, <1>6, <1>7, <1>8, <1>9 DEF FreeTable

LEMMA NextTInv == TInv /\ [Next]_vars => TInv'
  <1>1. TInv /\ Next => TInv'
    BY RequestStepTypes, RequestStepRooms, RequestStepPlayers, LeaveType, TableType
    DEF Next, TInv, TypeOK
  <1>2. TInv /\ UNCHANGED vars => TInv'
    BY DEF vars, dataVars, mgrVars, tableVars, TInv, TypeOK, RequestTypes, RoomTypes,
           PlayerTypes, LostInv, TellInv
  <1> QED BY <1>1, <1>2

(* Every variable keeps its type; in particular no code's count in         *)
(* code_list and no count of lost fees becomes negative.                   *)
THEOREM TypeCorrect == Spec => []TypeOK
  <1>1. TInv => TypeOK
    BY DEF TInv
  <1> QED BY InitTInv, NextTInv, <1>1, PTL DEF Spec

-----------------------------------------------------------------------------
(* The codes.                                                              *)

Pc(t, f) == freer[t][f].pc

(* At most one free_table of a room runs, and the room is open in its loop *)
(* and freed behind it.                                                    *)
FreersAgree ==
  \A t \in Table, f \in Coroutines :
    /\ \A g \in Coroutines : Pc(t, f) # "none" /\ Pc(t, g) # "none" => f = g
    /\ Pc(t, f) \in {"tell", "told"} => state[t] = "open"
    /\ Pc(t, f) \in {"owner", "free"} => state[t] = "freed"
    /\ Pc(t, f) = "done" => state[t] \in {"freed", "gone"}

(* A code in the hands of a create is in no other place ...                *)
BootOwns ==
  \A u \in User : req[u] = "boot" =>
    /\ codeList[code[u]] = 0 /\ tables[code[u]] = None
    /\ \A v \in User : req[v] = "boot" /\ code[v] = code[u] => v = u

(* ... and then leads to the create's own room.                            *)
InitOwns ==
  \A u \in User : req[u] = "init" =>
    /\ target[u] \in Table /\ state[target[u]] = "booting" /\ tables[code[u]] = target[u]
    /\ \A v \in User : req[v] = "init" /\ target[v] = target[u] => v = u

(* A code in the list is there once and leads nowhere.                     *)
ListOwns == \A c \in Code : codeList[c] = 0 \/ (codeList[c] = 1 /\ tables[c] = None)

(* The code of a room leads to it until a free_table is done with it, and  *)
(* no code leads to a room that has not been started.                      *)
RoomOwns ==
  \A t \in Table :
    /\ state[t] \in {"open", "freed"} /\ (\A f \in Coroutines : Pc(t, f) # "done")
         => codeOf[t] \in Code /\ tables[codeOf[t]] = t
    /\ state[t] = "none" => \A c \in Code : tables[c] # t

SamePc == \A t \in Table, f \in Coroutines : Pc(t, f)' = Pc(t, f)

PcBecomes(t, f, p) ==
  \A x \in Table, g \in Coroutines : Pc(x, g)' = IF x = t /\ g = f THEN p ELSE Pc(x, g)

Owns == FreersAgree /\ BootOwns /\ InitOwns /\ ListOwns /\ RoomOwns

CodeInv == TInv /\ Owns

LEMMA PcType ==
  ASSUME PlayerTypes, NEW t \in Table, NEW f \in Coroutines
  PROVE  Pc(t, f) \in {"none", "tell", "told", "owner", "free", "done"}
  BY DEF PlayerTypes, Free, Pc

(* No coroutine frees a room before it is open. *)
LEMMA NotYetFreed ==
  ASSUME PlayerTypes, FreersAgree, NEW t \in Table, state[t] \in {"none", "booting"}
  PROVE  \A f \in Coroutines : Pc(t, f) = "none"
  BY PcType DEF FreersAgree

(* What the writes do to the pc's. *)
LEMMA PcMoved ==
  ASSUME PlayerTypes, NEW t \in Table, NEW f \in Coroutines, NEW p,
         freer' = [freer EXCEPT ![t][f].pc = p]
  PROVE  PcBecomes(t, f, p)
  <1>1. freer[t][f] \in Free
    BY DEF PlayerTypes
  <1>2. [freer[t][f] EXCEPT !.pc = p].pc = p
    BY <1>1 DEF Free
  <1> QED BY <1>2 DEF PcBecomes, Pc, PlayerTypes

LEMMA PcSet ==
  ASSUME PlayerTypes, NEW t \in Table, NEW f \in Coroutines, NEW r,
         freer' = [freer EXCEPT ![t][f] = r]
  PROVE  PcBecomes(t, f, r.pc)
  BY DEF PcBecomes, Pc, PlayerTypes

LEMMA PcVisits ==
  ASSUME PlayerTypes, NEW t, NEW f \in Coroutines, NEW u,
         freer' = [freer EXCEPT ![t][f].todo = @ \cup {u}]
  PROVE  SamePc
  <1>1. CASE t \in Table
    <2>1. freer[t][f] \in Free
      BY <1>1 DEF PlayerTypes
    <2>2. [freer[t][f] EXCEPT !.todo = @ \cup {u}].pc = freer[t][f].pc
      BY <2>1 DEF Free
    <2> QED BY <1>1, <2>2 DEF Pc, PlayerTypes, SamePc
  <1>2. CASE t \notin Table
    BY <1>2 DEF Pc, PlayerTypes, SamePc
  <1> QED BY <1>1, <1>2

(* A request that neither takes a code nor starts a room.                  *)
LEMMA QuietRequest ==
  ASSUME Owns, SamePc, NEW u \in User, UNCHANGED <<codeList, tables, state, codeOf>>,
         \A v \in User \ {u} : /\ req'[v] = req[v] /\ code'[v] = code[v]
                               /\ target'[v] = target[v],
         req'[u] \notin {"boot", "init"}
  PROVE  Owns'
  <1>1. FreersAgree' /\ RoomOwns'
    BY DEF Owns, FreersAgree, RoomOwns, SamePc
  <1>2. BootOwns' /\ ListOwns'
    BY DEF Owns, BootOwns, ListOwns
  <1>3. InitOwns'
    BY DEF Owns, InitOwns
  <1> QED BY <1>1, <1>2, <1>3 DEF Owns

LEMMA RequestOwns ==
  ASSUME TInv, Owns, NEW u \in User,
         ReqCreate(u) \/ (\E c \in Code : ReqJoin(u, c)) \/ Request(u)
  PROVE  Owns'
  <1> USE DEF TInv, TypeOK
  <1>1. CASE ReqCreate(u) \/ PayFee(u) \/ Find(u) \/ JoinReply(u) \/ TableJoin(u)
             \/ \E c \in Code : ReqJoin(u, c)
    <2>1. SamePc
      <3>1. CASE UNCHANGED freer
        BY <3>1 DEF SamePc, Pc
      <3>2. CASE TableJoin(u)
        <4>1. ASSUME NEW f \in Coroutines,
                     freer' = [freer EXCEPT ![target[u]][f].todo = @ \cup {u}]
              PROVE  SamePc
          BY <4>1, PcVisits
        <4> QED BY <3>1, <3>2, <4>1 DEF TableJoin
      <3> QED BY <1>1, <3>1, <3>2 DEF ReqCreate, PayFee, Find, JoinReply, ReqJoin, tableVars
    <2>2. UNCHANGED <<codeList, tables, state, codeOf>>
      BY <1>1 DEF ReqCreate, PayFee, Find, JoinReply, TableJoin, ReqJoin, tableVars, mgrVars
    <2>3. req' = [req EXCEPT ![u] = req'[u]] /\ req'[u] \notin {"boot", "init"}
      BY <1>1 DEF ReqCreate, PayFee, Find, JoinReply, TableJoin, ReqJoin, Dismiss, RequestTypes
    <2>4. \A v \in User \ {u} : code'[v] = code[v] /\ target'[v] = target[v]
      BY <1>1 DEF ReqCreate, PayFee, Find, JoinReply, TableJoin, ReqJoin, Dismiss, RequestTypes
    <2>5. \A v \in User \ {u} : req'[v] = req[v]
      BY <2>3 DEF RequestTypes
    <2> QED BY <2>1, <2>2, <2>3, <2>4, <2>5, QuietRequest
  <1>2. CASE TakeCode(u)
    <2>1. SamePc /\ UNCHANGED <<tables, state, codeOf, target>>
      BY <1>2 DEF TakeCode, tableVars, SamePc, Pc
    <2>2. CASE UNCHANGED <<code, codeList>> /\ req' = [req EXCEPT ![u] = "none"]
      BY <2>1, <2>2, QuietRequest DEF RequestTypes
    <2>3. ASSUME NEW c \in InList, RemoveCode(c),
                 \/ req' = [req EXCEPT ![u] = "none"] /\ UNCHANGED code
                 \/ /\ tables[c] = None
                    /\ req' = [req EXCEPT ![u] = "boot"] /\ code' = [code EXCEPT ![u] = c]
          PROVE  Owns'
      <3>1. c \in Code /\ codeList[c] = 1 /\ tables[c] = None /\ codeList'[c] = 0
        BY <2>3 DEF InList, RemoveCode, Owns, ListOwns, RoomTypes
      <3>2. \A d \in Code \ {c} : codeList'[d] = codeList[d]
        BY <2>3 DEF RemoveCode, RoomTypes
      <3>3. FreersAgree' /\ RoomOwns'
        BY <2>1 DEF Owns, FreersAgree, RoomOwns, SamePc
      <3>4. ListOwns'
        BY <2>1, <3>1, <3>2 DEF Owns, ListOwns
      <3>5. \A v \in User : req[v] = "boot" => code[v] \in Code \ {c}
        BY <3>1 DEF Owns, BootOwns, LostInv
      <3>6. BootOwns'
        BY <2>1, <2>3, <3>1, <3>2, <3>5 DEF Owns, BootOwns, RequestTypes
      <3>7. \A v \in User : req'[v] = "init" => req[v] = "init" /\ code'[v] = code[v]
        BY <2>3 DEF RequestTypes
      <3>8. InitOwns'
        BY <2>1, <3>7 DEF Owns, InitOwns
      <3> QED BY <3>3, <3>4, <3>6, <3>8 DEF Owns
    <2> QED BY <1>2, <2>2, <2>3 DEF TakeCode
  <1>3. ASSUME NEW t \in Table, NewTable(u, t) PROVE Owns'
    <2> DEFINE c == code[u]
    <2>1. c \in Code /\ codeList[c] = 0 /\ tables[c] = None
      BY <1>3 DEF NewTable, Owns, BootOwns, LostInv
    <2>2. /\ state[t] = "none" /\ state' = [state EXCEPT ![t] = "booting"]
          /\ tables' = [tables EXCEPT ![c] = t] /\ target' = [target EXCEPT ![u] = t]
          /\ req[u] = "boot" /\ req' = [req EXCEPT ![u] = "init"]
          /\ UNCHANGED <<code, codeList, codeOf, freer>>
      BY <1>3 DEF NewTable
    <2>3. SamePc
      BY <2>2 DEF SamePc, Pc
    <2>4. \A f \in Coroutines : Pc(t, f) = "none"
      BY <2>2, NotYetFreed DEF Owns
    <2>5. FreersAgree'
      <3>1. \A x \in Table \ {t} : state'[x] = state[x]
        BY <2>2 DEF RoomTypes
      <3> QED BY <2>3, <2>4, <3>1 DEF Owns, FreersAgree, SamePc
    <2>6. BootOwns' /\ ListOwns'
      BY <2>1, <2>2 DEF Owns, BootOwns, ListOwns, RequestTypes, RoomTypes
    <2>7. \A v \in User : req[v] = "init" => code[v] # c /\ target[v] # t
      BY <2>1, <2>2, PrivateAssumption DEF Owns, InitOwns
    <2>8. InitOwns'
      BY <2>1, <2>2, <2>7 DEF Owns, InitOwns, RequestTypes, RoomTypes, LostInv
    <2>9. RoomOwns'
      <3>1. state'[t] = "booting" /\ \A x \in Table \ {t} : state'[x] = state[x]
        BY <2>2 DEF RoomTypes
      <3>2. tables'[c] = t /\ \A d \in Code \ {c} : tables'[d] = tables[d]
        BY <2>1, <2>2 DEF RoomTypes
      <3> HIDE DEF c
      <3> QED BY <2>1, <2>2, <2>3, <3>1, <3>2, PrivateAssumption DEF Owns, RoomOwns, SamePc
    <2> QED BY <2>5, <2>6, <2>8, <2>9 DEF Owns
  <1>4. CASE InitTable(u)
    <2> DEFINE t == target[u]
    <2>1. /\ t \in Table /\ state[t] = "booting" /\ tables[code[u]] = t /\ code[u] \in Code
          /\ req[u] = "init"
      BY <1>4 DEF InitTable, Owns, InitOwns, LostInv
    <2>2. /\ state' = [state EXCEPT ![t] = "open"] /\ codeOf' = [codeOf EXCEPT ![t] = code[u]]
          /\ req' = [req EXCEPT ![u] = "table"]
          /\ UNCHANGED <<code, target, codeList, tables, freer>>
      BY <1>4 DEF InitTable, mgrVars
    <2>3. SamePc
      BY <2>2 DEF SamePc, Pc
    <2>4. \A f \in Coroutines : Pc(t, f) = "none"
      BY <2>1, NotYetFreed DEF Owns
    <2>5. FreersAgree'
      <3>1. \A x \in Table \ {t} : state'[x] = state[x]
        BY <2>2 DEF RoomTypes
      <3> QED BY <2>3, <2>4, <3>1 DEF Owns, FreersAgree, SamePc
    <2>6. BootOwns' /\ ListOwns'
      BY <2>2 DEF Owns, BootOwns, ListOwns, RequestTypes
    <2>7. InitOwns'
      BY <2>1, <2>2 DEF Owns, InitOwns, RequestTypes, RoomTypes
    <2>8. RoomOwns'
      <3>1. state'[t] = "open" /\ \A x \in Table \ {t} : state'[x] = state[x]
        BY <2>1, <2>2 DEF RoomTypes
      <3>2. codeOf'[t] = code[u] /\ \A x \in Table \ {t} : codeOf'[x] = codeOf[x]
        BY <2>1, <2>2 DEF RoomTypes
      <3> HIDE DEF t
      <3> QED BY <2>1, <2>2, <2>3, <3>1, <3>2 DEF Owns, RoomOwns, SamePc
    <2> QED BY <2>5, <2>6, <2>7, <2>8 DEF Owns
  <1> QED BY <1>1, <1>2, <1>3, <1>4 DEF Request

(* A step of a table that leaves the pc's alone. *)
LEMMA QuietTable ==
  ASSUME Owns, SamePc, UNCHANGED <<req, code, target, codeList, tables, state, codeOf>>
  PROVE  Owns'
  BY DEF Owns, FreersAgree, BootOwns, InitOwns, ListOwns, RoomOwns, SamePc

(* free_table goes on: in its loop, or behind it. *)
LEMMA TraverseOwns ==
  ASSUME TInv, Owns, NEW t \in Table, NEW f \in Coroutines, NEW todo, NEW reason,
         Traverse(t, f, todo, reason), state[t] = "open",
         \A g \in Coroutines \ {f} : Pc(t, g) = "none", Pc(t, f) # "done",
         UNCHANGED <<dataVars, mgrVars, codeOf>>
  PROVE  Owns'
  <1> USE DEF TInv, TypeOK
  <1>1. PICK p \in {"tell", "owner", "free"} :
          /\ PcBecomes(t, f, p)
          /\ p = "tell" => UNCHANGED state
          /\ p # "tell" => state' = [state EXCEPT ![t] = "freed"]
    <2>1. ASSUME NEW r, freer' = [freer EXCEPT ![t][f] = r]
          PROVE  PcBecomes(t, f, r.pc)
      BY <2>1, PcSet
    <2>2. CASE \E u \in todo \cap members[t] :
                 /\ freer' = [freer EXCEPT ![t][f] =
                        [pc |-> "tell", todo |-> todo \ {u}, who |-> u, reason |-> reason]]
                 /\ UNCHANGED <<members, state>>
      <3>1. PICK u : freer' = [freer EXCEPT ![t][f] =
                        [pc |-> "tell", todo |-> todo \ {u}, who |-> u, reason |-> reason]]
        BY <2>2
      <3> DEFINE r == [pc |-> "tell", todo |-> todo \ {u}, who |-> u, reason |-> reason]
      <3>2. r.pc = "tell" /\ freer' = [freer EXCEPT ![t][f] = r]
        BY <3>1
      <3> HIDE DEF r
      <3>3. PcBecomes(t, f, r.pc)
        BY <2>1, <3>2
      <3> QED BY <2>2, <3>2, <3>3
    <2>3. CASE /\ freer' = [freer EXCEPT ![t][f] =
                        [pc |-> IF reason = 1001 THEN "owner" ELSE "free",
                         todo |-> {}, who |-> None, reason |-> reason]]
               /\ state' = [state EXCEPT ![t] = "freed"]
      <3> DEFINE r == [pc |-> IF reason = 1001 THEN "owner" ELSE "free",
                       todo |-> {}, who |-> None, reason |-> reason]
      <3>1. r.pc \in {"owner", "free"} /\ freer' = [freer EXCEPT ![t][f] = r]
        BY <2>3
      <3> HIDE DEF r
      <3>2. PcBecomes(t, f, r.pc)
        BY <2>1, <3>1
      <3> QED BY <2>3, <3>1, <3>2
    <2> QED BY <2>2, <2>3 DEF Traverse
  <1>2. state'[t] = (IF p = "tell" THEN "open" ELSE "freed")
        /\ \A x \in Table \ {t} : state'[x] = state[x]
    BY <1>1 DEF RoomTypes
  <1>3. UNCHANGED <<req, code, target, codeList, tables, codeOf>>
    BY DEF dataVars, mgrVars
  <1>4. FreersAgree'
    BY <1>1, <1>2 DEF Owns, FreersAgree, PcBecomes
  <1>5. BootOwns' /\ ListOwns'
    BY <1>3 DEF Owns, BootOwns, ListOwns
  <1>6. InitOwns'
    BY <1>2, <1>3 DEF Owns, InitOwns
  <1>7. \A g \in Coroutines : Pc(t, g) # "done"
    OBVIOUS
  <1>8. RoomOwns'
    BY <1>1, <1>2, <1>3, <1>7 DEF Owns, RoomOwns, PcBecomes
  <1> QED BY <1>4, <1>5, <1>6, <1>8 DEF Owns

LEMMA TableOwns ==
  ASSUME ~Overlap, TInv, Owns, NEW t \in Table,
         Start(t) \/ GameOver(t) \/ Dissolve(t) \/ Stop(t) \/ Expire(t) \/ FreeTable(t)
  PROVE  Owns'
  <1> USE DEF TInv, TypeOK
  <1>1. CASE Start(t) \/ GameOver(t) \/ (Dissolve(t) /\ started[t])
    BY <1>1, QuietTable DEF Start, GameOver, Dissolve, dataVars, mgrVars, SamePc, Pc
  <1>2. ASSUME NEW f \in Coroutines, NEW reason, StartFree(t, f, reason), state[t] = "open",
               UNCHANGED <<dataVars, mgrVars, codeOf>>
        PROVE  Owns'
    <2>1. \A g \in Coroutines : Pc(t, g) = "none"
      BY <1>2 DEF StartFree, Freeing, Pc
    <2> QED BY <1>2, <2>1, TraverseOwns DEF StartFree
  <1>3. CASE (Dissolve(t) /\ ~started[t]) \/ Stop(t) \/ Expire(t)
    BY <1>2, <1>3 DEF Dissolve, Stop, Expire, TickReady, Coroutines
  <1>4. ASSUME NEW f \in Coroutines, FreeNext(t, f) PROVE Owns'
    <2>1. /\ Pc(t, f) = "told"
          /\ Traverse(t, f, freer[t][f].todo, freer[t][f].reason)
          /\ UNCHANGED <<dataVars, mgrVars, codeOf>>
      BY <1>4 DEF FreeNext, Pc
    <2>2. state[t] = "open" /\ \A g \in Coroutines \ {f} : Pc(t, g) = "none"
      BY <2>1 DEF Owns, FreersAgree, PcBecomes
    <2> QED BY <2>1, <2>2, TraverseOwns
  <1>5. ASSUME NEW f \in Coroutines, FreeTell(t, f) PROVE Owns'
    <2> DEFINE r == [pc |-> "told", todo |-> freer[t][f].todo, who |-> None,
                     reason |-> freer[t][f].reason]
    <2>1. r.pc = "told" /\ freer' = [freer EXCEPT ![t][f] = r] /\ Pc(t, f) = "tell"
      BY <1>5 DEF FreeTell, Pc
    <2> HIDE DEF r
    <2>2. PcBecomes(t, f, "told")
      BY <2>1, PcSet
    <2>3. UNCHANGED <<req, code, target, codeList, tables, state, codeOf>>
      BY <1>5 DEF FreeTell, mgrVars
    <2>4. FreersAgree'
      BY <2>1, <2>2, <2>3 DEF Owns, FreersAgree, PcBecomes
    <2>5. BootOwns' /\ ListOwns' /\ InitOwns'
      BY <2>3 DEF Owns, BootOwns, ListOwns, InitOwns
    <2>6. RoomOwns'
      BY <2>1, <2>2, <2>3 DEF Owns, RoomOwns, PcBecomes
    <2> QED BY <2>4, <2>5, <2>6 DEF Owns
  <1>6. ASSUME NEW f \in Coroutines, PayBack(t, f) PROVE Owns'
    <2>1. Pc(t, f) = "owner" /\ freer' = [freer EXCEPT ![t][f].pc = "free"]
      BY <1>6 DEF PayBack, Pc
    <2>2. PcBecomes(t, f, "free")
      BY <2>1, PcMoved
    <2>3. UNCHANGED <<req, code, target, codeList, tables, state, codeOf>>
      BY <1>6 DEF PayBack, dataVars, mgrVars
    <2>4. FreersAgree'
      BY <2>1, <2>2, <2>3 DEF Owns, FreersAgree, PcBecomes
    <2>5. BootOwns' /\ ListOwns' /\ InitOwns'
      BY <2>3 DEF Owns, BootOwns, ListOwns, InitOwns
    <2>6. RoomOwns'
      BY <2>1, <2>2, <2>3 DEF Owns, RoomOwns, PcBecomes
    <2> QED BY <2>4, <2>5, <2>6 DEF Owns
  <1>7. ASSUME NEW f \in Coroutines, FreeCode(t, f) PROVE Owns'
    <2> DEFINE c == codeOf[t]
    <2>1. Pc(t, f) = "free" /\ freer' = [freer EXCEPT ![t][f].pc = "done"]
      BY <1>7 DEF FreeCode, Pc
    <2>2. PcBecomes(t, f, "done")
      BY <2>1, PcMoved
    <2>3. state[t] = "freed" /\ \A g \in Coroutines : Pc(t, g) # "done"
      BY <2>1 DEF Owns, FreersAgree, PcBecomes
    <2>4. c \in Code /\ tables[c] = t
      BY <2>3 DEF Owns, RoomOwns, PcBecomes
    <2>5. codeList[c] = 0
      BY <2>4, PrivateAssumption DEF Owns, ListOwns
    <2>6. /\ tables' = [tables EXCEPT ![c] = None]
          /\ codeList' = [codeList EXCEPT ![c] = @ + 1]
          /\ UNCHANGED <<req, code, target, state, codeOf>>
      BY <1>7 DEF FreeCode, dataVars
    <2>7. tables'[c] = None /\ \A d \in Code \ {c} : tables'[d] = tables[d]
      BY <2>4, <2>6 DEF RoomTypes
    <2>8. codeList'[c] = 1 /\ \A d \in Code \ {c} : codeList'[d] = codeList[d]
      BY <2>4, <2>5, <2>6 DEF RoomTypes
    <2>9. UNCHANGED <<req, code, target, state, codeOf>>
      BY <2>6
    <2> HIDE DEF c
    <2>10. FreersAgree'
      BY <2>1, <2>2, <2>3, <2>9 DEF Owns, FreersAgree, PcBecomes
    <2>11. ListOwns'
      BY <2>7, <2>8 DEF Owns, ListOwns
    <2>12. BootOwns'
      <3>1. \A u \in User : req[u] = "boot" => code[u] \in Code \ {c}
        BY <2>4, PrivateAssumption DEF Owns, BootOwns, LostInv
      <3> QED BY <2>7, <2>8, <2>9, <3>1 DEF Owns, BootOwns
    <2>13. InitOwns'
      <3>1. \A u \in User : req[u] = "init" => code[u] \in Code \ {c}
        BY <2>3, <2>4 DEF Owns, InitOwns, LostInv
      <3> QED BY <2>7, <2>9, <3>1 DEF Owns, InitOwns
    <2>14. RoomOwns'
      <3>1. \A x \in Table : state[x] = "none" => \A d \in Code : tables'[d] # x
        BY <2>7, PrivateAssumption DEF Owns, RoomOwns, PcBecomes
      <3>2. ASSUME NEW x \in Table, state[x] \in {"open", "freed"},
                   \A g \in Coroutines : Pc(x, g)' # "done"
            PROVE  codeOf[x] \in Code /\ tables'[codeOf[x]] = x
        <4>1. x # t
          BY <2>2, <3>2 DEF PcBecomes
        <4>2. codeOf[x] \in Code /\ tables[codeOf[x]] = x
          BY <2>2, <3>2, <4>1 DEF Owns, RoomOwns, PcBecomes
        <4>3. codeOf[x] # c
          BY <2>4, <4>1, <4>2
        <4> QED BY <2>7, <4>2, <4>3
      <3> QED BY <2>9, <3>1, <3>2 DEF RoomOwns
    <2> QED BY <2>10, <2>11, <2>12, <2>13, <2>14 DEF Owns
  <1>8. CASE Exit(t)
    <2>1. /\ state[t] = "freed" /\ state' = [state EXCEPT ![t] = "gone"] /\ SamePc
          /\ UNCHANGED <<req, code, target, codeList, tables, codeOf>>
      BY <1>8 DEF Exit, dataVars, mgrVars, SamePc, Pc
    <2>2. state'[t] = "gone" /\ \A x \in Table \ {t} : state'[x] = state[x]
      BY <2>1 DEF RoomTypes
    <2>3. PICK f \in Coroutines : Pc(t, f) = "done"
      BY <1>8 DEF Exit, Pc
    <2>4. FreersAgree'
      BY <2>1, <2>2, <2>3 DEF Owns, FreersAgree, SamePc
    <2>5. BootOwns' /\ ListOwns'
      BY <2>1 DEF Owns, BootOwns, ListOwns
    <2>6. InitOwns' /\ RoomOwns'
      BY <2>1, <2>2 DEF Owns, InitOwns, RoomOwns, SamePc
    <2> QED BY <2>4, <2>5, <2>6 DEF Owns
  <1> QED BY <1>1, <1>3, <1>4, <1>5, <1>6, <1>7, <1>8 DEF FreeTable

LEMMA InitOwned == Init => Owns
  <1> SUFFICES ASSUME Init PROVE Owns
    OBVIOUS
  <1>1. FreersAgree
    BY DEF Init, FreersAgree, Pc, Idle
  <1>2. BootOwns /\ InitOwns
    BY DEF Init, BootOwns, InitOwns
  <1>3. ListOwns
    BY DEF Init, ListOwns
  <1>4. RoomOwns
    BY PrivateAssumption DEF Init, RoomOwns
  <1> QED BY <1>1, <1>2, <1>3, <1>4 DEF Owns

LEMMA NextCodeInv == ASSUME ~Overlap PROVE CodeInv /\ [Next]_vars => CodeInv'
  <1> SUFFICES ASSUME CodeInv, [Next]_vars PROVE Owns'
    BY NextTInv DEF CodeInv
  <1>1. ASSUME NEW u \in User, ReqCreate(u) \/ (\E c \in Code : ReqJoin(u, c)) \/ Request(u)
        PROVE  Owns'
    BY <1>1, RequestOwns DEF CodeInv
  <1>2. ASSUME NEW t \in Table, NEW u \in User, ReqLeave(t, u) \/ Leave(t, u) PROVE Owns'
    <2>1. SamePc /\ UNCHANGED <<req, code, target, codeList, tables, state, codeOf>>
      BY <1>2 DEF ReqLeave, Leave, LeaveData, LeaveDone, dataVars, mgrVars, SamePc, Pc
    <2> QED BY <2>1, QuietTable DEF CodeInv
  <1>3. ASSUME NEW t \in Table, Start(t) \/ GameOver(t) \/ Dissolve(t) \/ Stop(t) \/ Expire(t)
                               \/ FreeTable(t)
        PROVE  Owns'
    BY <1>3, TableOwns DEF CodeInv
  <1>4. CASE UNCHANGED vars
    <2>1. SamePc /\ UNCHANGED <<req, code, target, codeList, tables, state, codeOf>>
      BY <1>4 DEF vars, dataVars, mgrVars, tableVars, SamePc, Pc
    <2> QED BY <2>1, QuietTable DEF CodeInv
  <1> QED BY <1>1, <1>2, <1>3, <1>4 DEF Next

LEMMA CodeInvOwned == CodeInv => CodeOwnedOnce
  <1> SUFFICES ASSUME CodeInv, NEW c \in Code
               PROVE  codeList[c] + Cardinality({t \in Table : tables[c] = t})
                        + Cardinality({u \in User : req[u] = "boot" /\ code[u] = c}) <= 1
    BY DEF CodeOwnedOnce
  <1> USE DEF CodeInv
  <1> DEFINE T == {t \in Table : tables[c] = t}
             U == {u \in User : req[u] = "boot" /\ code[u] = c}
  <1>1. Cardinality(T) = 0 \/ (tables[c] # None /\ Cardinality(T) = 1)
    <2>1. CASE tables[c] \in Table
      <3>1. T = {tables[c]}
        BY <2>1
      <3> QED BY <2>1, <3>1, FS_Singleton, PrivateAssumption
    <2>2. CASE tables[c] \notin Table
      <3>1. T = {}
        BY <2>2
      <3> QED BY <3>1, FS_EmptySet
    <2> QED BY <2>1, <2>2
  <1>2. Cardinality(U) = 0 \/ (/\ Cardinality(U) = 1
                              /\ codeList[c] = 0 /\ tables[c] = None)
    <2>1. CASE U = {}
      BY <2>1, FS_EmptySet
    <2>2. CASE U # {}
      <3>1. PICK u \in User : req[u] = "boot" /\ code[u] = c
        BY <2>2
      <3>2. U = {u}
        BY <3>1 DEF Owns, BootOwns
      <3> QED BY <3>1, <3>2, FS_Singleton DEF Owns, BootOwns
    <2> QED BY <2>1, <2>2
  <1>3. codeList[c] = 0 \/ (codeList[c] = 1 /\ tables[c] = None)
    BY DEF Owns, ListOwns
  <1> HIDE DEF T, U
  <1>4. codeList[c] + Cardinality(T) + Cardinality(U) <= 1
    BY <1>1, <1>2, <1>3
  <1> QED BY <1>4 DEF T, U

LEMMA CodeInvLeads == CodeInv => CodeLeadsToRoom
  BY DEF CodeInv, Owns, RoomOwns, CodeLeadsToRoom, Live, Pc

(* As long as no two free_table of a room overlap: a room code is in one   *)
(* place, in code_list of gamemanager.lua, in the hands of one create, or  *)
(* in its `tables`.                                                        *)
THEOREM CodesOwnedOnce == ASSUME ~Overlap PROVE Spec => []CodeOwnedOnce
  <1>1. Init => CodeInv
    BY InitTInv, InitOwned DEF CodeInv
  <1>2. CodeInv /\ [Next]_vars => CodeInv'
    BY NextCodeInv
  <1> QED BY <1>1, <1>2, CodeInvOwned, PTL DEF Spec

(* ... and until the manager frees a room, its code leads to it.           *)
THEOREM CodesLeadToRooms == ASSUME ~Overlap PROVE Spec => []CodeLeadsToRoom
  <1>1. Init => CodeInv
    BY InitTInv, InitOwned DEF CodeInv
  <1>2. CodeInv /\ [Next]_vars => CodeInv'
    BY NextCodeInv
  <1> QED BY <1>1, <1>2, CodeInvLeads, PTL DEF Spec

-----------------------------------------------------------------------------
(* The place of a player.                                                  *)

Settled(t, u) ==
  /\ state[t] = "open" /\ u \in members[t] /\ leaving[t][u] = "none" /\ ~Freeing(t)

(* logic.free drops all players.                                           *)
MembersOpen == \A t \in Table : state[t] # "open" => members[t] = {}

(* gamenode is not set while a request is on its way.                      *)
AskersNowhere == \A u \in User : req[u] # "none" => at[u] = None

(* Who leaves a room asks for no other one, and is at none but this.       *)
LeaverHere(u) == \A t \in Table : leaving[t][u] # "none" => req[u] = "none" /\ at[u] \in {t, None}

(* Who sits in a room is in it for userdata, too, or will be with the      *)
(* answer that is on its way.                                              *)
SeatedHere(u) == \A t \in Table : Settled(t, u) => at[u] = t \/ (req[u] = "joined" /\ target[u] = t)

PlacesHold == /\ MembersOpen /\ AskersNowhere
              /\ \A u \in User \ crossed : LeaverHere(u) /\ SeatedHere(u)

PlaceInv == TInv /\ PlacesHold

(* A request on its way to its table. *)
LEMMA QuietPlaces ==
  ASSUME PlacesHold, NEW u \in User, UNCHANGED <<at, crossed, members, leaving, freer>>,
         at[u] = None, req[u] # "joined",
         u \in crossed \/ \A t \in Table : leaving[t][u] = "none",
         \A v \in User \ {u} : req'[v] = req[v] /\ target'[v] = target[v],
         \A t \in Table : state'[t] = state[t] \/ state'[t] = "open" \/ members[t] = {}
  PROVE  PlacesHold'
  <1>1. MembersOpen' /\ AskersNowhere'
    BY DEF PlacesHold, MembersOpen, AskersNowhere
  <1>2. ASSUME NEW v \in User \ crossed PROVE LeaverHere(v)'
    BY <1>2 DEF PlacesHold, LeaverHere
  <1>3. ASSUME NEW v \in User \ crossed PROVE SeatedHere(v)'
    <2> SUFFICES ASSUME NEW t \in Table, Settled(t, v)'
                 PROVE  at[v] = t \/ (req'[v] = "joined" /\ target'[v] = t)
      BY DEF SeatedHere
    <2>1. Settled(t, v)
      BY DEF Settled, Freeing, PlacesHold, MembersOpen
    <2>2. at[v] = t \/ (req[v] = "joined" /\ target[v] = t)
      BY <2>1 DEF PlacesHold, SeatedHere
    <2> QED BY <2>2
  <1> QED BY <1>1, <1>2, <1>3 DEF PlacesHold

(* A step that at most takes players from rooms. *)
LEMMA ShrinkPlaces ==
  ASSUME PlacesHold, UNCHANGED <<at, req, target, leaving, crossed>>,
         \A t \in Table : /\ members'[t] \subseteq members[t]
                          /\ state'[t] = "open" => state[t] = "open"
                          /\ state'[t] # "open" => members'[t] = {}
                          /\ Freeing(t) => Freeing(t)'
  PROVE  PlacesHold'
  <1>1. MembersOpen' /\ AskersNowhere'
    BY DEF PlacesHold, MembersOpen, AskersNowhere
  <1>2. ASSUME NEW v \in User \ crossed PROVE LeaverHere(v)'
    BY <1>2 DEF PlacesHold, LeaverHere
  <1>3. ASSUME NEW v \in User \ crossed PROVE SeatedHere(v)'
    <2> SUFFICES ASSUME NEW t \in Table, Settled(t, v)'
                 PROVE  at[v] = t \/ (req[v] = "joined" /\ target[v] = t)
      BY DEF SeatedHere
    <2>1. Settled(t, v)
      BY DEF Settled
    <2> QED BY <2>1 DEF PlacesHold, SeatedHere
  <1> QED BY <1>1, <1>2, <1>3 DEF PlacesHold

LEMMA SameFreeing ==
  ASSUME SamePc PROVE \A t \in Table : Freeing(t)' <=> Freeing(t)
  BY DEF SamePc, Freeing, Pc

LEMMA MoreFreeing ==
  ASSUME NEW t \in Table, NEW f \in Coroutines, NEW p, p # "none", PcBecomes(t, f, p)
  PROVE  \A x \in Table : Freeing(x) => Freeing(x)'
  BY DEF PcBecomes, Freeing, Pc

LEMMA RequestPlaces ==
  ASSUME TInv, PlacesHold, NEW u \in User,
         ReqCreate(u) \/ (\E c \in Code : ReqJoin(u, c)) \/ Request(u)
  PROVE  PlacesHold'
  <1> USE DEF TInv, TypeOK
  <1>1. CASE ReqCreate(u) \/ (\E c \in Code : ReqJoin(u, c))
    BY <1>1, QuietPlaces DEF ReqCreate, ReqJoin, Unengaged, mgrVars, tableVars, RequestTypes
  <1>2. ASSUME req[u] \notin {"none", "joined"},
               UNCHANGED <<at, crossed, members, leaving, freer>>,
               \A v \in User \ {u} : req'[v] = req[v] /\ target'[v] = target[v],
               \A t \in Table : state'[t] = state[t] \/ state'[t] = "open" \/ members[t] = {}
        PROVE  PlacesHold'
    <2>1. at[u] = None /\ (u \in crossed \/ \A t \in Table : leaving[t][u] = "none")
      BY <1>2 DEF PlacesHold, AskersNowhere, LeaverHere
    <2> QED BY <1>2, <2>1, QuietPlaces
  <1>3. CASE PayFee(u) \/ TakeCode(u) \/ Find(u)
    BY <1>2, <1>3 DEF PayFee, TakeCode, Find, Dismiss, mgrVars, tableVars, RequestTypes
  <1>4. ASSUME NEW t \in Table, NewTable(u, t) PROVE PlacesHold'
    <2>1. \A x \in Table : state'[x] = state[x] \/ members[x] = {}
      BY <1>4 DEF NewTable, RoomTypes, PlacesHold, MembersOpen
    <2>2. /\ req[u] = "boot" /\ UNCHANGED <<at, crossed, members, leaving, freer>>
          /\ \A v \in User \ {u} : req'[v] = req[v] /\ target'[v] = target[v]
      BY <1>4 DEF NewTable, RequestTypes
    <2> QED BY <1>2, <2>1, <2>2
  <1>5. CASE InitTable(u)
    <2>1. \A x \in Table : state'[x] = state[x] \/ state'[x] = "open"
      BY <1>5 DEF InitTable, RoomTypes
    <2>2. /\ req[u] = "init" /\ UNCHANGED <<at, crossed, members, leaving, freer>>
          /\ \A v \in User \ {u} : req'[v] = req[v] /\ target'[v] = target[v]
      BY <1>5 DEF InitTable, RequestTypes
    <2> QED BY <1>2, <2>1, <2>2
  <1>6. CASE TableJoin(u)
    <2>1. CASE UNCHANGED <<members, freer>>
      <3>1. CASE Dismiss(u)
        BY <1>2, <1>6, <2>1, <3>1 DEF TableJoin, Dismiss, RequestTypes
      <3>2. CASE req' = [req EXCEPT ![u] = "joined"] /\ UNCHANGED target
        BY <1>2, <1>6, <2>1, <3>2 DEF TableJoin, RequestTypes
      <3> QED BY <1>6, <3>1, <3>2 DEF TableJoin
    <2>2. CASE /\ state[target[u]] = "open"
               /\ members' = [members EXCEPT ![target[u]] = @ \cup {u}]
               /\ req' = [req EXCEPT ![u] = "joined"] /\ UNCHANGED <<code, target>>
      <3>1. SamePc
        <4>1. CASE UNCHANGED freer
          BY <4>1 DEF SamePc, Pc
        <4>2. ASSUME NEW f \in Coroutines,
                     freer' = [freer EXCEPT ![target[u]][f].todo = @ \cup {u}]
              PROVE  SamePc
          BY <4>2, PcVisits
        <4> QED BY <1>6, <4>1, <4>2 DEF TableJoin, Dismiss
      <3>2. /\ req[u] = "table" /\ at[u] = None
            /\ UNCHANGED <<at, state, leaving, crossed>>
        BY <1>6 DEF TableJoin, PlacesHold, AskersNowhere
      <3>3. \A t \in Table : members'[t] = IF t = target[u] THEN members[t] \cup {u} ELSE members[t]
        BY <2>2 DEF PlayerTypes
      <3>4. \A v \in User : req'[v] = IF v = u THEN "joined" ELSE req[v]
        BY <2>2 DEF RequestTypes
      <3>5. MembersOpen' /\ AskersNowhere'
        BY <2>2, <3>2, <3>3, <3>4 DEF PlacesHold, MembersOpen, AskersNowhere
      <3>6. ASSUME NEW v \in User \ crossed PROVE LeaverHere(v)'
        BY <3>2, <3>4, <3>6 DEF PlacesHold, LeaverHere
      <3>7. ASSUME NEW v \in User \ crossed PROVE SeatedHere(v)'
        <4> SUFFICES ASSUME NEW t \in Table, Settled(t, v)'
                     PROVE  at[v] = t \/ (req'[v] = "joined" /\ target[v] = t)
          BY <2>2, <3>2 DEF SeatedHere
        <4>1. CASE v = u /\ t = target[u]
          BY <3>4, <4>1
        <4>2. CASE ~(v = u /\ t = target[u])
          <5>1. Settled(t, v)
            BY <3>1, <3>2, <3>3, <4>2, SameFreeing DEF Settled
          <5>2. v # u
            BY <3>2, <4>2, <5>1, PrivateAssumption DEF PlacesHold, SeatedHere
          <5> QED BY <3>4, <5>1, <5>2 DEF PlacesHold, SeatedHere
        <4> QED BY <4>1, <4>2
      <3> QED BY <3>2, <3>5, <3>6, <3>7 DEF PlacesHold
    <2> QED BY <1>6, <2>1, <2>2 DEF TableJoin
  <1>7. CASE JoinReply(u)
    <2> DEFINE t == target[u]
    <2>1. /\ req[u] = "joined" /\ at[u] = None
          /\ \A v \in User : at'[v] = IF v = u THEN t ELSE at[v]
          /\ \A v \in User : req'[v] = IF v = u THEN "none" ELSE req[v]
          /\ \A v \in User \ {u} : target'[v] = target[v]
          /\ UNCHANGED <<state, members, leaving, freer>>
      BY <1>7 DEF JoinReply, Dismiss, tableVars, RequestTypes, PlacesHold, AskersNowhere
    <2>2. crossed' = IF u \notin members[t] \/ Freeing(t) THEN crossed \cup {u} ELSE crossed
      BY <1>7 DEF JoinReply
    <2>3. MembersOpen' /\ AskersNowhere'
      BY <2>1 DEF PlacesHold, MembersOpen, AskersNowhere
    <2>4. ASSUME NEW v \in User \ crossed' PROVE LeaverHere(v)'
      <3>1. v \in User \ crossed
        BY <2>2, <2>4
      <3> QED BY <2>1, <3>1 DEF PlacesHold, LeaverHere
    <2>5. ASSUME NEW v \in User \ crossed' PROVE SeatedHere(v)'
      <3>1. v \in User \ crossed
        BY <2>2, <2>5
      <3>2. ASSUME NEW x \in Table, Settled(x, v)'
            PROVE  at'[v] = x \/ (req'[v] = "joined" /\ target'[v] = x)
        <4>1. Settled(x, v)
          BY <2>1, <3>2 DEF Settled, Freeing
        <4>2. at[v] = x \/ (req[v] = "joined" /\ target[v] = x)
          BY <3>1, <4>1 DEF PlacesHold, SeatedHere
        <4>3. x # None
          BY PrivateAssumption
        <4> QED BY <2>1, <4>2, <4>3
      <3> QED BY <3>2 DEF SeatedHere
    <2> QED BY <2>3, <2>4, <2>5 DEF PlacesHold
  <1> QED BY <1>1, <1>3, <1>4, <1>5, <1>6, <1>7 DEF Request

LEMMA LeavePlaces ==
  ASSUME TInv, PlacesHold, NEW t \in Table, NEW u \in User, ReqLeave(t, u) \/ Leave(t, u)
  PROVE  PlacesHold'
  <1> USE DEF TInv, TypeOK
  <1>1. UNCHANGED <<req, target, state, freer, crossed>>
    BY DEF ReqLeave, Leave, LeaveData, LeaveDone, dataVars
  <1>2. /\ \A x \in Table : members'[x] \subseteq members[x]
        /\ \A v \in User : at'[v] = at[v] \/ (v = u /\ at'[v] = None /\ leaving[t][u] = "data")
        /\ \A x \in Table, v \in User : leaving'[x][v] = leaving[x][v] \/ (x = t /\ v = u)
    BY DEF ReqLeave, Leave, LeaveData, LeaveDone, dataVars, RequestTypes, PlayerTypes
  <1>3. CASE ReqLeave(t, u)
    <2>1. at[u] = t /\ UNCHANGED <<at, members>> /\ leaving'[t][u] = "data"
      BY <1>3 DEF ReqLeave, dataVars, PlayerTypes
    <2>2. req[u] = "none"
      BY <2>1, PrivateAssumption DEF PlacesHold, AskersNowhere
    <2>3. MembersOpen' /\ AskersNowhere'
      BY <1>1, <2>1 DEF PlacesHold, MembersOpen, AskersNowhere
    <2>4. ASSUME NEW v \in User \ crossed PROVE LeaverHere(v)'
      BY <1>1, <1>2, <2>1, <2>2, <2>4 DEF PlacesHold, LeaverHere
    <2>5. ASSUME NEW v \in User \ crossed, NEW x \in Table, Settled(x, v)' PROVE Settled(x, v)
      BY <1>1, <1>2, <2>1, <2>5 DEF Settled, Freeing
    <2>6. ASSUME NEW v \in User \ crossed PROVE SeatedHere(v)'
      BY <1>1, <2>1, <2>5, <2>6 DEF PlacesHold, SeatedHere
    <2> QED BY <1>1, <2>3, <2>4, <2>6 DEF PlacesHold
  <1>4. CASE LeaveData(t, u)
    <2>1. /\ leaving[t][u] = "data" /\ leaving'[t][u] = "told" /\ UNCHANGED members
          /\ at'[u] = None
      BY <1>4 DEF LeaveData, PlayerTypes, RequestTypes
    <2>2. MembersOpen' /\ AskersNowhere'
      BY <1>1, <1>2, <2>1 DEF PlacesHold, MembersOpen, AskersNowhere
    <2>3. ASSUME NEW v \in User \ crossed PROVE LeaverHere(v)'
      BY <1>1, <1>2, <2>1, <2>3 DEF PlacesHold, LeaverHere
    <2>4. ASSUME NEW v \in User \ crossed, NEW x \in Table, Settled(x, v)' PROVE Settled(x, v)
      BY <1>1, <1>2, <2>1, <2>4 DEF Settled, Freeing
    <2>5. ASSUME NEW v \in User \ crossed, NEW x \in Table, Settled(x, v)'
          PROVE  at'[v] = x \/ (req[v] = "joined" /\ target[v] = x)
      <3>1. at[v] = x \/ (req[v] = "joined" /\ target[v] = x)
        BY <2>4, <2>5 DEF PlacesHold, SeatedHere
      <3>2. CASE v = u
        <4>1. x # t
          BY <1>1, <2>1, <2>5, <3>2 DEF Settled
        <4>2. req[u] = "none" /\ at[u] \in {t, None}
          BY <2>1, <2>5, <3>2 DEF PlacesHold, LeaverHere
        <4> QED BY <3>1, <3>2, <4>1, <4>2, PrivateAssumption
      <3> QED BY <1>2, <3>1, <3>2
    <2>6. ASSUME NEW v \in User \ crossed PROVE SeatedHere(v)'
      BY <1>1, <2>5, <2>6 DEF SeatedHere
    <2> QED BY <1>1, <2>2, <2>3, <2>6 DEF PlacesHold
  <1>5. CASE LeaveDone(t, u)
    <2>1. /\ UNCHANGED at /\ leaving'[t][u] = "none"
          /\ \A x \in Table : members'[x] = IF x = t THEN members[x] \ {u} ELSE members[x]
      BY <1>5 DEF LeaveDone, dataVars, PlayerTypes
    <2>2. MembersOpen' /\ AskersNowhere'
      BY <1>1, <2>1 DEF PlacesHold, MembersOpen, AskersNowhere
    <2>3. ASSUME NEW v \in User \ crossed PROVE LeaverHere(v)'
      BY <1>1, <1>2, <2>1, <2>3 DEF PlacesHold, LeaverHere
    <2>4. ASSUME NEW v \in User \ crossed, NEW x \in Table, Settled(x, v)' PROVE Settled(x, v)
      BY <1>1, <1>2, <2>1, <2>4 DEF Settled, Freeing
    <2>5. ASSUME NEW v \in User \ crossed PROVE SeatedHere(v)'
      BY <1>1, <2>1, <2>4, <2>5 DEF PlacesHold, SeatedHere
    <2> QED BY <1>1, <2>2, <2>3, <2>5 DEF PlacesHold
  <1> QED BY <1>3, <1>4, <1>5 DEF Leave

(* free_table goes on, in its loop or behind it. *)
LEMMA TraverseEffect ==
  ASSUME PlayerTypes, RoomTypes, NEW t \in Table, NEW f \in Coroutines, NEW todo, NEW reason,
         Traverse(t, f, todo, reason)
  PROVE  \E p \in {"tell", "owner", "free"} :
           /\ PcBecomes(t, f, p)
           /\ \A x \in Table : freer'[x][f].reason = IF x = t THEN reason ELSE freer[x][f].reason
           /\ \A x \in Table, g \in Coroutines \ {f} : freer'[x][g] = freer[x][g]
           /\ p = "tell" => UNCHANGED <<members, state>>
           /\ p # "tell" => /\ p = "owner" <=> reason = 1001
                            /\ members' = [members EXCEPT ![t] = {}]
                            /\ state' = [state EXCEPT ![t] = "freed"]
  <1>1. ASSUME NEW r, freer' = [freer EXCEPT ![t][f] = r]
        PROVE  /\ PcBecomes(t, f, r.pc)
               /\ \A x \in Table : freer'[x][f].reason = IF x = t THEN r.reason
                                                         ELSE freer[x][f].reason
               /\ \A x \in Table, g \in Coroutines \ {f} : freer'[x][g] = freer[x][g]
    <2>1. PcBecomes(t, f, r.pc)
      BY <1>1, PcSet
    <2> QED BY <1>1, <2>1 DEF PlayerTypes
  <1>2. CASE \E u \in todo \cap members[t] :
               /\ freer' = [freer EXCEPT ![t][f] =
                      [pc |-> "tell", todo |-> todo \ {u}, who |-> u, reason |-> reason]]
               /\ UNCHANGED <<members, state>>
    <2>1. PICK u : freer' = [freer EXCEPT ![t][f] =
                      [pc |-> "tell", todo |-> todo \ {u}, who |-> u, reason |-> reason]]
      BY <1>2
    <2> DEFINE r == [pc |-> "tell", todo |-> todo \ {u}, who |-> u, reason |-> reason]
    <2>2. r.pc = "tell" /\ r.reason = reason /\ freer' = [freer EXCEPT ![t][f] = r]
      BY <2>1
    <2> HIDE DEF r
    <2>3. /\ PcBecomes(t, f, r.pc)
          /\ \A x \in Table : freer'[x][f].reason = IF x = t THEN r.reason
                                                    ELSE freer[x][f].reason
          /\ \A x \in Table, g \in Coroutines \ {f} : freer'[x][g] = freer[x][g]
      BY <1>1, <2>2
    <2>4. PcBecomes(t, f, "tell")
      BY <2>2, <2>3
    <2> QED BY <1>2, <2>2, <2>3, <2>4
  <1>3. CASE /\ freer' = [freer EXCEPT ![t][f] =
                      [pc |-> IF reason = 1001 THEN "owner" ELSE "free",
                       todo |-> {}, who |-> None, reason |-> reason]]
             /\ members' = [members EXCEPT ![t] = {}]
             /\ state' = [state EXCEPT ![t] = "freed"]
    <2> DEFINE r == [pc |-> IF reason = 1001 THEN "owner" ELSE "free",
                     todo |-> {}, who |-> None, reason |-> reason]
    <2>1. /\ r.pc \in {"owner", "free"}
          /\ r.pc = "owner" <=> reason = 1001
          /\ r.reason = reason /\ freer' = [freer EXCEPT ![t][f] = r]
      BY <1>3
    <2> HIDE DEF r
    <2>2. /\ PcBecomes(t, f, r.pc)
          /\ \A x \in Table : freer'[x][f].reason = IF x = t THEN r.reason
                                                    ELSE freer[x][f].reason
          /\ \A x \in Table, g \in Coroutines \ {f} : freer'[x][g] = freer[x][g]
      BY <1>1, <2>1
    <2>3. r.pc = "owner" \/ r.pc = "free"
      BY <2>1
    <2> QED BY <1>3, <2>1, <2>2, <2>3
  <1> QED BY <1>2, <1>3 DEF Traverse

(* All a free_table does to rooms and their players. *)
LEMMA TraversePlaces ==
  ASSUME TInv, PlacesHold, NEW t \in Table, NEW f \in Coroutines, NEW todo, NEW reason,
         Traverse(t, f, todo, reason), UNCHANGED <<at, req, target, leaving, crossed>>
  PROVE  PlacesHold'
  <1>1. PICK p \in {"tell", "owner", "free"} :
           /\ PcBecomes(t, f, p)
           /\ p = "tell" => UNCHANGED <<members, state>>
           /\ p # "tell" => /\ members' = [members EXCEPT ![t] = {}]
                            /\ state' = [state EXCEPT ![t] = "freed"]
    BY TraverseEffect DEF TInv, TypeOK
  <1>2. \A x \in Table : Freeing(x) => Freeing(x)'
    BY <1>1, MoreFreeing
  <1>3. \A x \in Table : /\ members'[x] \subseteq members[x]
                         /\ state'[x] = "open" => state[x] = "open"
                         /\ state'[x] # "open" => members'[x] = {}
    BY <1>1 DEF TInv, TypeOK, PlayerTypes, RoomTypes, PlacesHold, MembersOpen
  <1> QED BY <1>2, <1>3, ShrinkPlaces

LEMMA TablePlaces ==
  ASSUME TInv, PlacesHold, NEW t \in Table,
         Start(t) \/ GameOver(t) \/ Dissolve(t) \/ Stop(t) \/ Expire(t) \/ FreeTable(t)
  PROVE  PlacesHold'
  <1> USE DEF TInv, TypeOK
  <1>1. CASE Start(t) \/ GameOver(t) \/ (Dissolve(t) /\ started[t])
    <2>1. UNCHANGED <<at, req, target, leaving, crossed, members, state, freer>>
      BY <1>1 DEF Start, GameOver, Dissolve, dataVars
    <2> QED BY <2>1, ShrinkPlaces DEF PlacesHold, MembersOpen, Freeing
  <1>2. CASE (Dissolve(t) /\ ~started[t]) \/ Stop(t) \/ Expire(t)
    BY <1>2, TraversePlaces DEF Dissolve, Stop, Expire, StartFree, dataVars, Coroutines
  <1>3. ASSUME NEW f \in Coroutines, FreeNext(t, f) PROVE PlacesHold'
    BY <1>3, TraversePlaces DEF FreeNext, dataVars
  <1>4. ASSUME NEW f \in Coroutines, FreeTell(t, f) PROVE PlacesHold'
    <2> DEFINE r == [pc |-> "told", todo |-> freer[t][f].todo, who |-> None,
                     reason |-> freer[t][f].reason]
    <2>1. PICK w \in User : w = freer[t][f].who
      BY <1>4 DEF FreeTell, TellInv
    <2>2. /\ \A v \in User : at'[v] = IF v = w THEN None ELSE at[v]
          /\ crossed' = IF at[w] = t THEN crossed ELSE crossed \cup {w}
          /\ UNCHANGED <<req, target, members, state, leaving>>
      BY <1>4, <2>1 DEF FreeTell, RequestTypes
    <2>3. r.pc = "told" /\ freer' = [freer EXCEPT ![t][f] = r] /\ Freeing(t)
      BY <1>4 DEF FreeTell, Freeing
    <2> HIDE DEF r
    <2>4. \A x \in Table : Freeing(x) => Freeing(x)'
      BY <2>3, PcSet, MoreFreeing
    <2>5. MembersOpen' /\ AskersNowhere'
      BY <2>2 DEF PlacesHold, MembersOpen, AskersNowhere
    <2>6. ASSUME NEW v \in User \ crossed' PROVE LeaverHere(v)'
      <3>1. v \in User \ crossed
        BY <2>2, <2>6
      <3> QED BY <2>2, <3>1 DEF PlacesHold, LeaverHere
    <2>7. ASSUME NEW v \in User \ crossed', NEW x \in Table, Settled(x, v)'
          PROVE  at'[v] = x \/ (req[v] = "joined" /\ target[v] = x)
      <3>1. v \in User \ crossed
        BY <2>2, <2>7
      <3>2. Settled(x, v) /\ x # t
        BY <2>2, <2>3, <2>4, <2>7 DEF Settled
      <3>3. at[v] = x \/ (req[v] = "joined" /\ target[v] = x)
        BY <3>1, <3>2 DEF PlacesHold, SeatedHere
      <3>4. v = w => at[w] = t
        BY <2>2, <2>7
      <3> QED BY <2>2, <3>2, <3>3, <3>4
    <2>8. ASSUME NEW v \in User \ crossed' PROVE SeatedHere(v)'
      BY <2>2, <2>7, <2>8 DEF SeatedHere
    <2> QED BY <2>5, <2>6, <2>8 DEF PlacesHold
  <1>5. ASSUME NEW f \in Coroutines, PayBack(t, f) \/ FreeCode(t, f) PROVE PlacesHold'
    <2>1. PICK p \in {"free", "done"} : freer' = [freer EXCEPT ![t][f].pc = p]
      BY <1>5 DEF PayBack, FreeCode
    <2>2. \A x \in Table : Freeing(x) => Freeing(x)'
      BY <2>1, PcMoved, MoreFreeing
    <2>3. UNCHANGED <<at, req, target, leaving, crossed, members, state>>
      BY <1>5 DEF PayBack, FreeCode, dataVars
    <2> QED BY <2>2, <2>3, ShrinkPlaces DEF PlacesHold, MembersOpen
  <1>6. CASE Exit(t)
    <2>1. /\ UNCHANGED <<at, req, target, leaving, crossed, members, freer>>
          /\ state[t] = "freed" /\ state' = [state EXCEPT ![t] = "gone"]
      BY <1>6 DEF Exit, dataVars
    <2>2. \A x \in Table : /\ state'[x] = "open" => state[x] = "open"
                           /\ state'[x] # "open" => members[x] = {}
      BY <2>1 DEF RoomTypes, PlacesHold, MembersOpen
    <2> QED BY <2>1, <2>2, ShrinkPlaces DEF Freeing
  <1> QED BY <1>1, <1>2, <1>3, <1>4, <1>5, <1>6 DEF FreeTable

LEMMA PlacesInvariant == Spec => []PlaceInv
  <1>1. Init => PlaceInv
    <2> SUFFICES ASSUME Init PROVE PlacesHold
      BY InitTInv DEF PlaceInv
    <2> QED BY DEF Init, PlacesHold, MembersOpen, AskersNowhere, LeaverHere, SeatedHere, Settled
  <1>2. PlaceInv /\ [Next]_vars => PlaceInv'
    <2> SUFFICES ASSUME PlaceInv, [Next]_vars PROVE PlacesHold'
      BY NextTInv DEF PlaceInv
    <2>1. CASE UNCHANGED vars
      <3>1. UNCHANGED <<at, req, target, leaving, crossed, members, state, freer>>
        BY <2>1 DEF vars, dataVars, mgrVars, tableVars
      <3> QED BY <3>1, ShrinkPlaces DEF PlaceInv, PlacesHold, MembersOpen, Freeing
    <2> QED BY <2>1, RequestPlaces, LeavePlaces, TablePlaces DEF PlaceInv, Next
  <1> QED BY <1>1, <1>2, PTL DEF Spec

(* A player sits in one room at a time, the one that gamenode and gameaddr *)
(* of userdata name: reqCreateGame and reqQuickJoinGame are refused while  *)
(* they are set, and a player who leaves is forgotten by userdata before   *)
(* the table gives up the seat.  It does not take that free_table runs     *)
(* once: whom a second one tells about another room is in `crossed`.       *)
THEOREM PlacesStayAgreed == Spec => []OnePlace
  <1>1. ASSUME PlaceInv PROVE OnePlace
    <2>1. SeatKnown
      BY <1>1 DEF SeatKnown, PlaceInv, PlacesHold, SeatedHere, Settled
    <2>2. ASSUME NEW u \in User \ crossed
          PROVE  Cardinality({t \in Table : state[t] = "open" /\ u \in members[t]
                               /\ leaving[t][u] = "none" /\ ~Freeing(t)}) <= 1
      <3> DEFINE T == {t \in Table : state[t] = "open" /\ u \in members[t]
                               /\ leaving[t][u] = "none" /\ ~Freeing(t)}
      <3>1. \A t, x \in T : t = x
        <4> SUFFICES ASSUME NEW t \in T, NEW x \in T PROVE t = x
          OBVIOUS
        <4>1. /\ at[u] = t \/ (req[u] = "joined" /\ target[u] = t)
              /\ at[u] = x \/ (req[u] = "joined" /\ target[u] = x)
          BY <1>1 DEF PlaceInv, PlacesHold, SeatedHere, Settled
        <4>2. req[u] = "joined" => at[u] = None
          BY <1>1 DEF PlaceInv, PlacesHold, AskersNowhere
        <4> QED BY <4>1, <4>2, PrivateAssumption
      <3> HIDE DEF T
      <3>2. T = {} \/ \E t : T = {t}
        BY <3>1
      <3>3. Cardinality(T) = 0 \/ Cardinality(T) = 1
        BY <3>2, FS_EmptySet, FS_Singleton
      <3>4. Cardinality(T) <= 1
        BY <3>3
      <3> QED BY <3>4 DEF T
    <2> QED BY <2>1, <2>2 DEF OnePlace, OneRoom
  <1> QED BY PlacesInvariant, <1>1, PTL

-----------------------------------------------------------------------------
(* The fee of a room.                                                      *)

Row(t, f) ==
  LET r == freer[t][f] IN
  /\ r.reason \in (IF r.pc = "none" THEN {0} ELSE {1001, 1002})
  /\ r.pc = "owner" => r.reason = 1001
  /\ r.pc \in {"tell", "told", "owner"} => rent[t] = 1
  /\ r.pc \in {"free", "done"} => rent[t] = IF r.reason = 1001 THEN 0 ELSE 1

(* The fee is paid once the room is open, and is paid back between the end *)
(* of the loop of free_table and the call of the manager.                  *)
RentOf(t) ==
  /\ \A f \in Coroutines : Row(t, f)
  /\ state[t] = "open" => rent[t] = 1
  /\ state[t] = "gone" => \E f \in Coroutines : Pc(t, f) = "done"

RentInv == \A t \in Table : RentOf(t)

(* Rooms that a step leaves alone. *)
LEMMA RentFrame ==
  ASSUME NEW t \in Table, RentOf(t), rent'[t] = rent[t],
         state'[t] = state[t] \/ state'[t] \notin {"open", "gone"},
         \A f \in Coroutines : freer'[t][f].pc = freer[t][f].pc
                               /\ freer'[t][f].reason = freer[t][f].reason
  PROVE  RentOf(t)'
  BY DEF RentOf, Row, Pc

LEMMA RequestRents ==
  ASSUME CodeInv, RentInv, NEW u \in User,
         ReqCreate(u) \/ (\E c \in Code : ReqJoin(u, c)) \/ Request(u)
  PROVE  RentInv'
  <1> USE DEF CodeInv, TInv, TypeOK
  <1> SUFFICES ASSUME NEW t \in Table PROVE RentOf(t)'
    BY DEF RentInv
  <1>0. RentOf(t)
    BY DEF RentInv
  <1>1. CASE UNCHANGED <<rent, state, freer>>
    BY <1>0, <1>1, RentFrame
  <1>2. ASSUME NEW x \in Table, NewTable(u, x) PROVE RentOf(t)'
    BY <1>0, <1>2, RentFrame DEF NewTable, RoomTypes
  <1>3. CASE InitTable(u)
    <2>1. PICK x \in Table : x = target[u]
      BY <1>3 DEF InitTable, Owns, InitOwns
    <2>2. /\ state[x] = "booting" /\ UNCHANGED freer
          /\ state' = [state EXCEPT ![x] = "open"] /\ rent' = [rent EXCEPT ![x] = 1]
      BY <1>3, <2>1 DEF InitTable, Owns, InitOwns
    <2>3. CASE t # x
      BY <1>0, <2>2, <2>3, RentFrame DEF RoomTypes
    <2>4. CASE t = x
      <3>1. \A f \in Coroutines : Pc(x, f) = "none"
        BY <2>2, NotYetFreed DEF Owns
      <3>2. state'[x] = "open" /\ rent'[x] = 1
        BY <2>2 DEF RoomTypes
      <3> QED BY <1>0, <2>2, <2>4, <3>1, <3>2 DEF RentOf, Row, Pc
    <2> QED BY <2>3, <2>4
  <1>4. CASE TableJoin(u)
    <2>1. UNCHANGED <<rent, state>>
      BY <1>4 DEF TableJoin
    <2>2. CASE UNCHANGED freer
      BY <1>1, <2>1, <2>2
    <2>3. ASSUME NEW f \in Coroutines,
                 freer' = [freer EXCEPT ![target[u]][f].todo = @ \cup {u}]
          PROVE  RentOf(t)'
      <3>1. freer[t][f] \in Free /\ freer[t] \in [Coroutines -> Free]
        BY DEF PlayerTypes
      <3>2. [freer[t][f] EXCEPT !.todo = @ \cup {u}].pc = freer[t][f].pc
            /\ [freer[t][f] EXCEPT !.todo = @ \cup {u}].reason = freer[t][f].reason
        BY <3>1 DEF Free
      <3>3. freer'[t] = IF t = target[u] THEN [freer[t] EXCEPT ![f].todo = @ \cup {u}] ELSE freer[t]
        BY <2>3 DEF PlayerTypes
      <3>4. \A g \in Coroutines : freer'[t][g].pc = freer[t][g].pc
                                  /\ freer'[t][g].reason = freer[t][g].reason
        BY <3>1, <3>2, <3>3
      <3> QED BY <1>0, <2>1, <3>4, RentFrame
    <2> QED BY <1>4, <2>2, <2>3 DEF TableJoin
  <1> QED BY <1>1, <1>2, <1>3, <1>4
      DEF Request, ReqCreate, PayFee, TakeCode, ReqJoin, Find, JoinReply, tableVars

(* free_table starts, or goes on. *)
LEMMA TraverseRents ==
  ASSUME CodeInv, RentInv, NEW t \in Table, NEW f \in Coroutines, NEW todo,
         NEW reason \in {1001, 1002}, Traverse(t, f, todo, reason), state[t] = "open",
         \A g \in Coroutines \ {f} : Pc(t, g) = "none", UNCHANGED rent
  PROVE  RentInv'
  <1> USE DEF CodeInv, TInv, TypeOK
  <1>1. PICK p \in {"tell", "owner", "free"} :
           /\ PcBecomes(t, f, p)
           /\ \A x \in Table : freer'[x][f].reason = IF x = t THEN reason ELSE freer[x][f].reason
           /\ \A x \in Table, g \in Coroutines \ {f} : freer'[x][g] = freer[x][g]
           /\ p = "tell" => UNCHANGED <<members, state>>
           /\ p # "tell" => /\ p = "owner" <=> reason = 1001
                            /\ members' = [members EXCEPT ![t] = {}]
                            /\ state' = [state EXCEPT ![t] = "freed"]
    BY TraverseEffect
  <1>2. state'[t] \in {"open", "freed"} /\ \A x \in Table \ {t} : state'[x] = state[x]
    BY <1>1 DEF RoomTypes
  <1> SUFFICES ASSUME NEW x \in Table PROVE RentOf(x)'
    BY DEF RentInv
  <1>3. RentOf(x)
    BY DEF RentInv
  <1>4. CASE x # t
    <2>1. \A g \in Coroutines : freer'[x][g].pc = freer[x][g].pc
                                /\ freer'[x][g].reason = freer[x][g].reason
      BY <1>1, <1>4 DEF PcBecomes, Pc
    <2> QED BY <1>2, <1>3, <1>4, <2>1, RentFrame
  <1>5. CASE x = t
    <2>1. rent[t] = 1
      BY <1>3, <1>5 DEF RentOf
    <2>2. Row(t, f)'
      <3>1. freer'[t][f].pc = p /\ freer'[t][f].reason = reason
        BY <1>1 DEF PcBecomes, Pc
      <3> QED BY <1>1, <2>1, <3>1 DEF Row
    <2>3. \A g \in Coroutines \ {f} : Row(t, g)'
      BY <1>1, <1>3, <1>5 DEF RentOf, Row
    <2> QED BY <1>2, <1>5, <2>1, <2>2, <2>3 DEF RentOf
  <1> QED BY <1>4, <1>5

LEMMA TableRents ==
  ASSUME ~Overlap, CodeInv, RentInv, NEW t \in Table,
         Start(t) \/ GameOver(t) \/ Dissolve(t) \/ Stop(t) \/ Expire(t) \/ FreeTable(t)
  PROVE  RentInv'
  <1> USE DEF CodeInv, TInv, TypeOK
  <1>1. CASE Start(t) \/ GameOver(t) \/ (Dissolve(t) /\ started[t])
    <2>1. UNCHANGED <<rent, state, freer>>
      BY <1>1 DEF Start, GameOver, Dissolve
    <2> QED BY <2>1, RentFrame DEF RentInv
  <1>2. ASSUME NEW f \in Coroutines, NEW reason \in {1001, 1002}, StartFree(t, f, reason),
               state[t] = "open", UNCHANGED rent
        PROVE  RentInv'
    <2>1. \A g \in Coroutines : Pc(t, g) = "none"
      BY <1>2 DEF StartFree, Freeing, Pc
    <2> QED BY <1>2, <2>1, TraverseRents DEF StartFree
  <1>3. CASE (Dissolve(t) /\ ~started[t]) \/ Stop(t) \/ Expire(t)
    BY <1>2, <1>3 DEF Dissolve, Stop, Expire, TickReady, Coroutines
  <1>4. ASSUME NEW f \in Coroutines, FreeNext(t, f) PROVE RentInv'
    <2>1. /\ Pc(t, f) = "told" /\ UNCHANGED rent
          /\ Traverse(t, f, freer[t][f].todo, freer[t][f].reason)
      BY <1>4 DEF FreeNext, Pc
    <2>2. state[t] = "open" /\ \A g \in Coroutines \ {f} : Pc(t, g) = "none"
      BY <2>1 DEF Owns, FreersAgree
    <2>3. freer[t][f].reason \in {1001, 1002}
      BY <2>1 DEF RentInv, RentOf, Row, Pc
    <2> QED BY <2>1, <2>2, <2>3, TraverseRents
  <1>5. ASSUME NEW f \in Coroutines, FreeTell(t, f) PROVE RentInv'
    <2> DEFINE r == [pc |-> "told", todo |-> freer[t][f].todo, who |-> None,
                     reason |-> freer[t][f].reason]
    <2>1. /\ r.pc = "told" /\ r.reason = freer[t][f].reason
          /\ freer' = [freer EXCEPT ![t][f] = r] /\ freer[t][f].pc = "tell"
          /\ UNCHANGED <<rent, state>>
      BY <1>5 DEF FreeTell
    <2> HIDE DEF r
    <2>2. ASSUME NEW x \in Table, NEW g \in Coroutines
          PROVE  freer'[x][g] = IF x = t /\ g = f THEN r ELSE freer[x][g]
      BY <2>1 DEF PlayerTypes
    <2>3. ASSUME NEW x \in Table PROVE RentOf(x)'
      <3>1. RentOf(x)
        BY DEF RentInv
      <3>2. \A g \in Coroutines : Row(x, g)'
        BY <2>1, <2>2, <3>1 DEF RentOf, Row
      <3>3. state'[x] = "gone" => \E g \in Coroutines : Pc(x, g)' = "done"
        BY <2>1, <2>2, <3>1 DEF RentOf, Pc
      <3> QED BY <2>1, <3>1, <3>2, <3>3 DEF RentOf
    <2> QED BY <2>3 DEF RentInv
  <1>6. ASSUME NEW f \in Coroutines, NEW p \in {"free", "done"},
               freer' = [freer EXCEPT ![t][f].pc = p], Pc(t, f) \in {"owner", "free"},
               rent'[t] = (IF freer[t][f].reason = 1001 THEN 0 ELSE 1),
               \A x \in Table \ {t} : rent'[x] = rent[x], UNCHANGED state
        PROVE  RentInv'
    <2>1. state[t] = "freed" /\ \A g \in Coroutines \ {f} : Pc(t, g) = "none"
      BY <1>6 DEF Owns, FreersAgree
    <2>2. freer[t] \in [Coroutines -> Free] /\ freer[t][f] \in Free
      BY DEF PlayerTypes
    <2>3. [freer[t][f] EXCEPT !.pc = p].pc = p
          /\ [freer[t][f] EXCEPT !.pc = p].reason = freer[t][f].reason
      BY <2>2 DEF Free
    <2>4. /\ \A x \in Table \ {t} : freer'[x] = freer[x]
          /\ freer'[t] = [freer[t] EXCEPT ![f].pc = p]
      BY <1>6 DEF PlayerTypes
    <2>5. \A g \in Coroutines : freer'[t][g] = IF g = f THEN [freer[t][f] EXCEPT !.pc = p]
                                               ELSE freer[t][g]
      BY <2>2, <2>4
    <2>6. ASSUME NEW x \in Table \ {t} PROVE RentOf(x)'
      BY <1>6, <2>4, RentFrame DEF RentInv
    <2>7. RentOf(t)'
      <3>1. RentOf(t)
        BY DEF RentInv
      <3>2. Row(t, f)'
        <4>1. freer'[t][f].pc = p /\ freer'[t][f].reason = freer[t][f].reason
          BY <2>3, <2>5
        <4>2. freer[t][f].reason \in {1001, 1002}
          BY <1>6, <3>1 DEF RentOf, Row, Pc
        <4> QED BY <1>6, <4>1, <4>2 DEF Row
      <3>3. \A g \in Coroutines \ {f} : Row(t, g)'
        BY <2>1, <2>5, <3>1 DEF RentOf, Row, Pc
      <3> QED BY <1>6, <2>1, <3>2, <3>3 DEF RentOf
    <2> QED BY <2>6, <2>7 DEF RentInv
  <1>7. ASSUME NEW f \in Coroutines, PayBack(t, f) PROVE RentInv'
    <2>1. /\ Pc(t, f) = "owner" /\ freer' = [freer EXCEPT ![t][f].pc = "free"]
          /\ rent' = [rent EXCEPT ![t] = @ - 1] /\ UNCHANGED state
      BY <1>7 DEF PayBack, Pc
    <2>2. rent[t] = 1 /\ freer[t][f].reason = 1001
      BY <2>1 DEF RentInv, RentOf, Row, Pc
    <2>3. rent'[t] = 0 /\ \A x \in Table \ {t} : rent'[x] = rent[x]
      BY <2>1, <2>2 DEF RoomTypes
    <2> QED BY <1>6, <2>1, <2>2, <2>3
  <1>8. ASSUME NEW f \in Coroutines, FreeCode(t, f) PROVE RentInv'
    <2>1. /\ Pc(t, f) = "free" /\ freer' = [freer EXCEPT ![t][f].pc = "done"]
          /\ UNCHANGED <<rent, state>>
      BY <1>8 DEF FreeCode, Pc
    <2>2. rent[t] = IF freer[t][f].reason = 1001 THEN 0 ELSE 1
      BY <2>1 DEF RentInv, RentOf, Row, Pc
    <2> QED BY <1>6, <2>1, <2>2
  <1>9. CASE Exit(t)
    <2>1. /\ \E f \in Coroutines : Pc(t, f) = "done" /\ UNCHANGED <<rent, freer>>
          /\ state' = [state EXCEPT ![t] = "gone"]
      BY <1>9 DEF Exit, Pc
    <2>2. ASSUME NEW x \in Table PROVE RentOf(x)'
      <3>1. RentOf(x) /\ state'[x] = (IF x = t THEN "gone" ELSE state[x])
        BY <2>1 DEF RentInv, RoomTypes
      <3> QED BY <2>1, <3>1 DEF RentOf, Row, Pc
    <2> QED BY <2>2 DEF RentInv
  <1> QED BY <1>1, <1>3, <1>4, <1>5, <1>7, <1>8, <1>9 DEF FreeTable

(* As long as no two free_table of a room overlap: a room that is gone has *)
(* cost its creator the fee if its games were played, and nothing if it    *)
(* was dissolved or waited too long (free_table of table.lua: the fee goes *)
(* back on 1001 only, once, before the manager's `free`).                  *)
THEOREM FeesAreSettled == ASSUME ~Overlap PROVE Spec => []RentSettled
  <1>1. Init => CodeInv /\ RentInv
    <2>1. Init => RentInv
      BY DEF Init, RentInv, RentOf, Row, Pc, Idle
    <2> QED BY <2>1, InitTInv, InitOwned DEF CodeInv
  <1>2. CodeInv /\ RentInv /\ [Next]_vars => (CodeInv /\ RentInv)'
    <2> SUFFICES ASSUME CodeInv, RentInv, [Next]_vars PROVE RentInv'
      BY NextCodeInv
    <2>1. CASE UNCHANGED vars
      <3>1. UNCHANGED <<rent, state, freer>>
        BY <2>1 DEF vars, tableVars
      <3> QED BY <3>1, RentFrame DEF RentInv
    <2>2. ASSUME NEW t \in Table, NEW u \in User, ReqLeave(t, u) \/ Leave(t, u) PROVE RentInv'
      <3>1. UNCHANGED <<rent, state, freer>>
        BY <2>2 DEF ReqLeave, Leave, LeaveData, LeaveDone
      <3> QED BY <3>1, RentFrame DEF RentInv
    <2> QED BY <2>1, <2>2, RequestRents, TableRents DEF Next
  <1>3. ASSUME CodeInv, RentInv PROVE RentSettled
    <2> SUFFICES ASSUME NEW t \in Table, state[t] = "gone"
                 PROVE  rent[t] = IF \E f \in Coroutines : freer[t][f].reason = 1001 THEN 0 ELSE 1
      BY DEF RentSettled
    <2>1. PICK f \in Coroutines : Pc(t, f) = "done"
      BY <1>3 DEF RentInv, RentOf
    <2>2. \A g \in Coroutines \ {f} : Pc(t, g) = "none"
      BY <1>3, <2>1 DEF CodeInv, Owns, FreersAgree
    <2>3. \A g \in Coroutines \ {f} : freer[t][g].reason = 0
      BY <1>3, <2>2 DEF RentInv, RentOf, Row, Pc
    <2>4. rent[t] = IF freer[t][f].reason = 1001 THEN 0 ELSE 1
      BY <1>3, <2>1 DEF RentInv, RentOf, Row, Pc
    <2> QED BY <2>3, <2>4
  <1> QED BY <1>1, <1>2, <1>3, PTL DEF Spec
=============================================================================
