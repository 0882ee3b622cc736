------------------------------ MODULE UserData ------------------------------
(***************************************************************************)
(* One player's `userdata` service (server/userdata/userdata.lua): the     *)
(* account it holds in memory, the copy in redis, the timer coroutine that *)
(* saves the account and ends the service, and the entry the usermanager   *)
(* keeps for the player.                                                   *)
(*                                                                         *)
(* A skynet service runs one coroutine at a time and switches only at a    *)
(* call, a sleep or an exit, so an action is the code between two such     *)
(* points.  The timer coroutine waits at `tpc`: in its sleep, for the reply*)
(* of the hget or of the hset of save_userdata, or for `unforward`.        *)
(* Requests of agents, tables and the usermanager run in between.          *)
(*                                                                         *)
(* The account (gold, bank, bank password) is one number, `gold`.  The     *)
(* service of a player is replaced after it ends; two services of the same *)
(* player at once are the subject of module UserForward.                   *)
(***************************************************************************)
EXTENDS Integers

CONSTANTS
  Gold,       \* the account values (TLC: a small interval)
  Deltas,     \* the amounts requests carry
  NoRecord,   \* redis holds no USER-ACCOUNT_INFO record of the player
  InitDisk,   \* what redis may hold before the first login
  SaveCnt,    \* SAVE_CNT, ticks before a changed account is saved
  KillCnt,    \* KILL_CNT, ticks offline before the service ends
  MaxLoads,   \* bound: loads of the account in flight at once
  Answers     \* what pcall says of calls to redis: TRUE, and FALSE if they fail

ASSUME GoldAssumption == Gold \subseteq Int /\ 0 \in Gold /\ Deltas \subseteq Nat
ASSUME DiskAssumption == NoRecord \notin Gold /\ InitDisk \subseteq Gold \cup {NoRecord}
ASSUME CountAssumption == /\ SaveCnt \in Nat \ {0}
                          /\ KillCnt \in Nat \ {0}
                          /\ MaxLoads \in Nat \ {0}
                          /\ Answers \subseteq BOOLEAN

VARIABLES
  live,       \* the service is running
  entry,      \* the usermanager's user_map has the player
  known,      \* _uid is set
  loaded,     \* _userdata is set
  loads,      \* load_userdata calls waiting for redis
  gold,       \* the account in _userdata
  disk,       \* the account in redis
  accChange,  \* _account_change
  needSave,   \* _need_save
  notSaveCnt, \* _not_save_cnt, saturating at SaveCnt
  offlineCnt, \* _offline_cnt, saturating at KillCnt
  online,     \* the flag `online`
  inGame,     \* datalogic's gamenode and gameaddr are set
  tpc,        \* where the timer coroutine waits
  ending,     \* the save under way is the last one, before the exit
  snap,       \* history: the account last sent to redis, or loaded
  dirty       \* history: the account changed in memory since then

manager == <<entry>>
account == <<gold, disk, accChange, needSave, snap, dirty>>
timer   == <<notSaveCnt, offlineCnt, tpc, ending>>
presence == <<known, loaded, loads, online, inGame>>
vars == <<live, entry, known, loaded, loads, gold, disk, accChange, needSave,
          notSaveCnt, offlineCnt, online, inGame, tpc, ending, snap, dirty>>

TimerStates == {"sleep", "hget", "hset", "hsetReply", "unforward", "dead"}

FlagTypes ==
  /\ live \in BOOLEAN /\ entry \in BOOLEAN /\ known \in BOOLEAN /\ loaded \in BOOLEAN
  /\ accChange \in BOOLEAN /\ needSave \in BOOLEAN /\ dirty \in BOOLEAN
  /\ online \in BOOLEAN /\ inGame \in BOOLEAN /\ ending \in BOOLEAN
  /\ tpc \in TimerStates

CounterTypes ==
  /\ loads \in 0..MaxLoads /\ notSaveCnt \in 0..SaveCnt
  /\ offlineCnt \in 0..KillCnt

AccountTypes ==
  gold \in Gold /\ disk \in Gold \cup {NoRecord} /\ snap \in Gold \cup {NoRecord}

TypeOK == FlagTypes /\ CounterTypes /\ AccountTypes

(* What load_userdata makes of the record it read: 0 when there is none. *)
AccountOf(record) == IF record = NoRecord THEN 0 ELSE record

AddUpTo(n, limit) == IF n < limit THEN n + 1 ELSE limit

-----------------------------------------------------------------------------

Init ==
  /\ live = FALSE /\ entry = FALSE /\ known = FALSE
  /\ loaded = FALSE /\ loads = 0
  /\ gold = 0 /\ disk \in InitDisk
  /\ accChange = FALSE /\ needSave = FALSE
  /\ notSaveCnt = 0 /\ offlineCnt = 0
  /\ online = FALSE /\ inGame = FALSE
  /\ tpc = "sleep" /\ ending = FALSE
  /\ snap = disk /\ dirty = FALSE

(* usermanager.forward for a player without an entry: a new service, which *)
(* starts its timer.  With an entry nothing changes here, not even when    *)
(* the service of the entry has ended.                                     *)
Forward ==
  /\ ~entry /\ ~live
  /\ live' = TRUE /\ entry' = TRUE
  /\ known' = FALSE /\ loaded' = FALSE /\ loads' = 0
  /\ gold' = 0 /\ accChange' = FALSE /\ needSave' = FALSE
  /\ notSaveCnt' = 0 /\ offlineCnt' = 0
  /\ online' = FALSE /\ inGame' = FALSE
  /\ tpc' = "sleep" /\ ending' = FALSE
  /\ snap' = disk /\ dirty' = FALSE
  /\ UNCHANGED disk

(* CMD.online, called by an agent: the player is marked online before the  *)
(* account is read, and is left so when the read fails.                    *)
Online ==
  /\ live
  /\ online' = TRUE /\ known' = TRUE
  /\ IF loaded
     THEN loads' = loads
     ELSE loads < MaxLoads /\ loads' = loads + 1
  /\ UNCHANGED <<live, entry, loaded, inGame, account, timer>>

(* The replies of redis to load_userdata.  A load that was overtaken by    *)
(* another one replaces the account the other one loaded.                  *)
LoadReply(ok) ==
  /\ live /\ loads > 0
  /\ loads' = loads - 1
  /\ IF ok
     THEN /\ loaded' = TRUE
          /\ gold' = AccountOf(disk)
          /\ snap' = IF loaded THEN snap ELSE disk
          /\ dirty' = (loaded /\ tpc = "hset")
     ELSE UNCHANGED <<loaded, gold, snap, dirty>>
  /\ UNCHANGED <<live, entry, known, online, inGame, disk, accChange, needSave,
                 timer>>

(* CMD.offline, called by the agent or by the manager for a gate that is   *)
(* gone.  The table may answer that the player is no longer in a game.     *)
Offline ==
  /\ live
  /\ online' = FALSE
  /\ \E left \in BOOLEAN : inGame' = (inGame /\ ~left)
  /\ UNCHANGED <<live, entry, known, loaded, loads, account, timer>>

(* datalogic.join_game and CMD.leave_game. *)
JoinGame ==
  /\ live /\ loaded
  /\ inGame' = TRUE
  /\ UNCHANGED <<live, entry, known, loaded, loads, online, account, timer>>

LeaveGame ==
  /\ live /\ loaded
  /\ inGame' = FALSE
  /\ UNCHANGED <<live, entry, known, loaded, loads, online, account, timer>>

(* CMD.goldChange: game results and rewards, of either sign, unchecked. *)
GoldChange(d) ==
  /\ live /\ loaded /\ d # 0
  /\ gold + d \in Gold
  /\ gold' = gold + d
  /\ accChange' = TRUE /\ dirty' = TRUE
  /\ UNCHANGED <<live, manager, presence, disk, needSave, snap, timer>>

(* CMD.add_gold, add_bank and their kind set only _need_save. *)
AddGold(d) ==
  /\ live /\ loaded
  /\ gold + d \in Gold
  /\ gold' = gold + d
  /\ needSave' = TRUE /\ dirty' = TRUE
  /\ UNCHANGED <<live, manager, presence, disk, accChange, snap, timer>>

SubGold(d) ==
  /\ live /\ loaded
  /\ gold >= d /\ gold - d \in Gold
  /\ gold' = gold - d
  /\ needSave' = TRUE /\ dirty' = TRUE
  /\ UNCHANGED <<live, manager, presence, disk, accChange, snap, timer>>

-----------------------------------------------------------------------------
(* The timer coroutine, time_timer, with the save_userdata it calls.       *)

Exit == live' = FALSE

(* The second half of a round: an offline service outside any game counts  *)
(* the round and, at KillCnt, saves and ends.  A service that never came   *)
(* online (no _uid) ends without telling the manager.                      *)
OfflineRound ==
  IF online
  THEN /\ tpc' = "sleep" /\ UNCHANGED <<live, offlineCnt, ending>>
  ELSE /\ offlineCnt' = AddUpTo(offlineCnt, KillCnt)
       /\ \/ /\ offlineCnt' < KillCnt \/ inGame
             /\ tpc' = "sleep" /\ UNCHANGED <<live, ending>>
          \/ /\ offlineCnt' >= KillCnt /\ ~inGame /\ known
             /\ tpc' = IF accChange' THEN "hget" ELSE "unforward"
             /\ ending' = TRUE /\ UNCHANGED live
          \/ /\ offlineCnt' >= KillCnt /\ ~inGame /\ ~known
             /\ Exit /\ UNCHANGED <<tpc, ending>>

(* save_userdata has returned. *)
AfterSave == 
  IF ending
  THEN tpc' = "unforward" /\ UNCHANGED <<live, offlineCnt, ending>>
  ELSE OfflineRound

(* The sleep is over.  _need_save lets the round in, but save_userdata     *)
(* does nothing unless _account_change is set.                             *)
Tick ==
  /\ live /\ tpc = "sleep"
  /\ notSaveCnt' = AddUpTo(notSaveCnt, SaveCnt)
  /\ UNCHANGED accChange
  /\ IF accChange /\ notSaveCnt' >= SaveCnt
     THEN tpc' = "hget" /\ UNCHANGED <<live, offlineCnt, ending>>
     ELSE OfflineRound
  /\ UNCHANGED <<manager, presence, gold, disk, needSave, snap, dirty>>

(* Mutant of HgetReply: the record goes back as it was read. *)
HgetReplyStale(ok) ==
  /\ live /\ tpc = "hget" /\ disk # NoRecord
  /\ UNCHANGED accChange
  /\ IF ok THEN /\ snap' = disk /\ dirty' = FALSE /\ tpc' = "hset"
               /\ UNCHANGED <<live, offlineCnt, ending>>
           ELSE AfterSave /\ UNCHANGED <<snap, dirty>>
  /\ UNCHANGED <<manager, presence, gold, disk, needSave, notSaveCnt>>

(* The reply to the hget.  The record that goes out in the hset is filled  *)
(* from memory now.  Without a record json.decode raises in the timer      *)
(* coroutine, which is the end of it.                                      *)
HgetReply(ok) ==
  /\ live /\ tpc = "hget"
  /\ UNCHANGED accChange
  /\ \/ /\ ok /\ disk = NoRecord
        /\ tpc' = "dead" /\ UNCHANGED <<live, offlineCnt, ending, snap, dirty>>
     \/ /\ ok /\ disk # NoRecord
        /\ snap' = gold /\ dirty' = FALSE
        /\ tpc' = "hset" /\ UNCHANGED <<live, offlineCnt, ending>>
     \/ /\ ~ok
        /\ AfterSave /\ UNCHANGED <<snap, dirty>>
  /\ UNCHANGED <<manager, presence, gold, disk, needSave, notSaveCnt>>

(* redis executes the hset, or the call fails before it does. *)
HsetApply ==
  /\ live /\ tpc = "hset"
  /\ disk' = snap /\ tpc' = "hsetReply"
  /\ UNCHANGED <<live, manager, presence, gold, accChange, needSave, snap, dirty,
                 notSaveCnt, offlineCnt, ending>>

(* Mutants of HsetFail: the flag is cleared all the same, or the failing   *)
(* call is not caught.                                                     *)
HsetFailClears ==
  /\ live /\ tpc = "hset" /\ FALSE \in Answers
  /\ accChange' = FALSE
  /\ AfterSave
  /\ UNCHANGED <<manager, presence, gold, disk, needSave, snap, dirty, notSaveCnt>>

HsetFailRaises ==
  /\ live /\ tpc = "hset" /\ FALSE \in Answers
  /\ tpc' = "dead"
  /\ UNCHANGED <<live, manager, presence, account, notSaveCnt, offlineCnt, ending>>

HsetFail ==
  /\ live /\ tpc = "hset" /\ FALSE \in Answers
  /\ UNCHANGED accChange
  /\ AfterSave
  /\ UNCHANGED <<manager, presence, gold, disk, needSave, snap, dirty, notSaveCnt>>

(* The reply to the hset: the flag is cleared, whatever changed meanwhile. *)
HsetReply(ok) ==
  /\ live /\ tpc = "hsetReply"
  /\ accChange' = IF ok THEN FALSE ELSE accChange
  /\ AfterSave
  /\ UNCHANGED <<manager, presence, gold, disk, needSave, snap, dirty, notSaveCnt>>

(* Mutant of Unforward: the manager keeps the entry. *)
UnforwardKeepsEntry ==
  /\ live /\ tpc = "unforward"
  /\ Exit
  /\ UNCHANGED <<entry, presence, account, timer>>

(* The manager drops the entry, and the service exits on the reply. *)
Unforward ==
  /\ live /\ tpc = "unforward"
  /\ entry' = FALSE
  /\ Exit
  /\ UNCHANGED <<presence, account, timer>>

-----------------------------------------------------------------------------

Requests ==
  \/ Forward \/ Online \/ Offline \/ JoinGame \/ LeaveGame
  \/ \E d \in Deltas : GoldChange(d) \/ GoldChange(-d) \/ AddGold(d) \/ SubGold(d)

Timer ==
  \/ Tick \/ HsetApply \/ HsetFail \/ Unforward
  \/ \E ok \in Answers : HgetReply(ok) \/ HsetReply(ok)

Next == Requests \/ Timer \/ \E ok \in Answers : LoadReply(ok)

Spec == Init /\ [][Next]_vars

(* skynet's scheduler resumes every coroutine whose sleep is over or whose *)
(* call has its answer, and every call of redis or the manager is answered.*)
FairSpec == Spec /\ WF_vars(Timer)

-----------------------------------------------------------------------------
(* Properties.                                                             *)

(* The flag and the store agree: when _account_change is clear, redis holds*)
(* what was last sent to it (or read from it), so that clearing the flag   *)
(* in save_userdata never hides a write that did not happen.               *)
ClearFlagMeansWritten ==
  live /\ loaded /\ ~accChange => disk = snap

(* With the flag clear and no request since the last save, the account in  *)
(* memory is the account in redis: the service can end without loss.  Loss *)
(* needs a change while a save is under way, or one that sets no flag.     *)
QuietMeansStored ==
  live /\ loaded /\ ~accChange /\ ~dirty => gold = AccountOf(disk)

(* The manager's entry leads to a service that has ended only if no agent  *)
(* ever came online on that service (then userdata skips `unforward`).     *)
NoDanglingEntry ==
  entry /\ ~live => ~known

(* A service whose player stays offline and outside any game ends, however *)
(* its saves and redis interleave (time_timer, "need exit userdata"),      *)
(* provided the player has an account record to save into.                 *)
Reclaimed ==
  disk # NoRecord => ((<>[](~online /\ ~inGame)) => []<>(~live))

(* userdata.lua:265: in a game the service must not end. *)
NeverEndsInGame ==
  ~live => ~inGame
=============================================================================
