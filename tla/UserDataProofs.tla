--------------------------- MODULE UserDataProofs ---------------------------
(***************************************************************************)
(* Proofs about the userdata service of module UserData: its type, that a  *)
(* clear _account_change never hides a write that did not happen, that a   *)
(* quiet service can end without loss, and when the usermanager may be left*)
(* with an entry for a service that has ended.                             *)
(***************************************************************************)
EXTENDS UserData, TLAPS

Saving == {"hget", "hset", "hsetReply"}

(* What a save under way knows: it runs only for the flagged account of a  *)
(* service that has been online, and after the hset has been executed redis*)
(* holds what was sent.                                                    *)
SaveInv ==
  /\ loads > 0 \/ loaded => known
  /\ tpc \in Saving => accChange
  /\ accChange => loaded
  /\ tpc = "hsetReply" => disk = snap

(* The flag and the store, in every state and not only the quiet ones. *)
StoreInv ==
  /\ loaded /\ ~accChange => disk = snap
  /\ loaded /\ ~dirty /\ (~accChange \/ tpc \in {"hset", "hsetReply"})
       => gold = AccountOf(snap)

IInv == TypeOK /\ SaveInv /\ StoreInv /\ NoDanglingEntry

-----------------------------------------------------------------------------

LEMMA InitIInv == Init => IInv
  <1> SUFFICES ASSUME Init PROVE IInv
    OBVIOUS
  <1>1. FlagTypes
    BY DEF Init, FlagTypes, TimerStates
  <1>2. CounterTypes
    BY CountAssumption DEF Init, CounterTypes
  <1>3. AccountTypes
    BY GoldAssumption, DiskAssumption DEF Init, AccountTypes
  <1>4. SaveInv /\ StoreInv /\ NoDanglingEntry
    BY DEF Init, SaveInv, StoreInv, NoDanglingEntry, Saving
  <1> QED BY <1>1, <1>2, <1>3, <1>4 DEF IInv, TypeOK

-----------------------------------------------------------------------------
(* The type invariant, part by part. *)

(* Both saturating counters stay within their limit. *)
LEMMA AddUpToType ==
  ASSUME NEW limit \in Nat, NEW n \in 0..limit
  PROVE  AddUpTo(n, limit) \in 0..limit
  BY DEF AddUpTo

LEMMA NextFlagTypes == FlagTypes /\ [Next]_vars => FlagTypes'
  <1> SUFFICES ASSUME FlagTypes, [Next]_vars PROVE FlagTypes'
    OBVIOUS
  <1> USE DEF FlagTypes, TimerStates, manager, account, timer, presence,
              AfterSave, OfflineRound, Exit
  <1>1. CASE Forward
    BY <1>1 DEF Forward
  <1>2. CASE Online
    BY <1>2 DEF Online
  <1>3. CASE Offline
    BY <1>3 DEF Offline
  <1>4. CASE JoinGame \/ LeaveGame
    BY <1>4 DEF JoinGame, LeaveGame
  <1>5. ASSUME NEW d \in Deltas, GoldChange(d) \/ GoldChange(-d) \/ AddGold(d) \/ SubGold(d)
        PROVE  FlagTypes'
    BY <1>5 DEF GoldChange, AddGold, SubGold
  <1>6. CASE Tick
    BY <1>6 DEF Tick
  <1>7. CASE HsetApply
    BY <1>7 DEF HsetApply
  <1>8. CASE HsetFail
    BY <1>8 DEF HsetFail
  <1>9. CASE Unforward
    BY <1>9 DEF Unforward
  <1>10. ASSUME NEW ok \in Answers, HgetReply(ok) PROVE FlagTypes'
    BY <1>10 DEF HgetReply
  <1>11. ASSUME NEW ok \in Answers, HsetReply(ok) PROVE FlagTypes'
    BY <1>11 DEF HsetReply
  <1>12. ASSUME NEW ok \in Answers, LoadReply(ok) PROVE FlagTypes'
    BY <1>12 DEF LoadReply
  <1>13. CASE UNCHANGED vars
    BY <1>13 DEF vars
  <1> QED
    BY <1>1, <1>2, <1>3, <1>4, <1>5, <1>6, <1>7, <1>8, <1>9, <1>10, <1>11, <1>12, <1>13
    DEF Next, Requests, Timer
LEMMA NextCounterTypes == CounterTypes /\ [Next]_vars => CounterTypes'
  <1> SUFFICES ASSUME CounterTypes, [Next]_vars PROVE CounterTypes'
    OBVIOUS
  <1> USE CountAssumption, AddUpToType
      DEF CounterTypes, manager, account, timer, presence, AfterSave, OfflineRound, Exit
  <1>1. CASE Forward
    BY <1>1 DEF Forward
  <1>2. CASE Online
    BY <1>2 DEF Online
  <1>3. CASE Offline
    BY <1>3 DEF Offline
  <1>4. CASE JoinGame \/ LeaveGame
    BY <1>4 DEF JoinGame, LeaveGame
  <1>5. ASSUME NEW d \in Deltas, GoldChange(d) \/ GoldChange(-d) \/ AddGold(d) \/ SubGold(d)
        PROVE  CounterTypes'
    BY <1>5 DEF GoldChange, AddGold, SubGold
  <1>6. CASE Tick
    <2>1. notSaveCnt' \in 0..SaveCnt
      BY <1>6 DEF Tick
    <2>2. offlineCnt' \in 0..KillCnt
      BY <1>6 DEF Tick
    <2>3. loads' = loads
      BY <1>6 DEF Tick
    <2> QED BY <2>1, <2>2, <2>3
  <1>7. CASE HsetApply
    BY <1>7 DEF HsetApply
  <1>8. CASE HsetFail
    BY <1>8 DEF HsetFail
  <1>9. CASE Unforward
    BY <1>9 DEF Unforward
  <1>10. ASSUME NEW ok \in Answers, HgetReply(ok) PROVE CounterTypes'
    BY <1>10 DEF HgetReply
  <1>11. ASSUME NEW ok \in Answers, HsetReply(ok) PROVE CounterTypes'
    BY <1>11 DEF HsetReply
  <1>12. ASSUME NEW ok \in Answers, LoadReply(ok) PROVE CounterTypes'
    BY <1>12 DEF LoadReply
  <1>13. CASE UNCHANGED vars
    BY <1>13 DEF vars
  <1> QED
    BY <1>1, <1>2, <1>3, <1>4, <1>5, <1>6, <1>7, <1>8, <1>9, <1>10, <1>11, <1>12, <1>13
    DEF Next, Requests, Timer

LEMMA NextAccountTypes == AccountTypes /\ [Next]_vars => AccountTypes'
  <1> SUFFICES ASSUME AccountTypes, [Next]_vars PROVE AccountTypes'
    OBVIOUS
  <1> USE GoldAssumption, DiskAssumption
      DEF AccountTypes, AccountOf, manager, account, timer, presence
  <1>1. CASE Forward
    BY <1>1 DEF Forward
  <1>2. CASE Online
    BY <1>2 DEF Online
  <1>3. CASE Offline
    BY <1>3 DEF Offline
  <1>4. CASE JoinGame \/ LeaveGame
    BY <1>4 DEF JoinGame, LeaveGame
  <1>5. ASSUME NEW d \in Deltas, GoldChange(d) \/ GoldChange(-d) \/ AddGold(d) \/ SubGold(d)
        PROVE  AccountTypes'
    BY <1>5 DEF GoldChange, AddGold, SubGold
  <1>6. CASE Tick
    BY <1>6 DEF Tick
  <1>7. CASE HsetApply
    BY <1>7 DEF HsetApply
  <1>8. CASE HsetFail
    BY <1>8 DEF HsetFail
  <1>9. CASE Unforward
    BY <1>9 DEF Unforward
  <1>10. ASSUME NEW ok \in Answers, HgetReply(ok) PROVE AccountTypes'
    BY <1>10 DEF HgetReply
  <1>11. ASSUME NEW ok \in Answers, HsetReply(ok) PROVE AccountTypes'
    BY <1>11 DEF HsetReply
  <1>12. ASSUME NEW ok \in Answers, LoadReply(ok) PROVE AccountTypes'
    BY <1>12 DEF LoadReply
  <1>13. CASE UNCHANGED vars
    BY <1>13 DEF vars
  <1> QED
    BY <1>1, <1>2, <1>3, <1>4, <1>5, <1>6, <1>7, <1>8, <1>9, <1>10, <1>11, <1>12, <1>13
    DEF Next, Requests, Timer

-----------------------------------------------------------------------------
(* The save, the store and the entry. *)

LEMMA NextSaveInv == FlagTypes /\ CounterTypes /\ SaveInv /\ [Next]_vars => SaveInv'
  <1> SUFFICES ASSUME FlagTypes, CounterTypes, SaveInv, [Next]_vars PROVE SaveInv'
    OBVIOUS
  <1> USE DEF FlagTypes, CounterTypes, SaveInv, Saving, manager, account, timer, presence,
              AfterSave, OfflineRound, Exit
  <1>1. CASE Forward
    BY <1>1 DEF Forward
  <1>2. CASE Online
    BY <1>2 DEF Online
  <1>3. CASE Offline
    BY <1>3 DEF Offline
  <1>4. CASE JoinGame \/ LeaveGame
    BY <1>4 DEF JoinGame, LeaveGame
  <1>5. ASSUME NEW d \in Deltas, GoldChange(d) \/ GoldChange(-d) \/ AddGold(d) \/ SubGold(d)
        PROVE  SaveInv'
    BY <1>5 DEF GoldChange, AddGold, SubGold
  <1>6. CASE Tick
    BY <1>6 DEF Tick
  <1>7. CASE HsetApply
    BY <1>7 DEF HsetApply
  <1>8. CASE HsetFail
    BY <1>8 DEF HsetFail
  <1>9. CASE Unforward
    BY <1>9 DEF Unforward
  <1>10. ASSUME NEW ok \in Answers, HgetReply(ok) PROVE SaveInv'
    BY <1>10 DEF HgetReply
  <1>11. ASSUME NEW ok \in Answers, HsetReply(ok) PROVE SaveInv'
    <2>1. accChange' \in BOOLEAN /\ (accChange' => loaded')
      BY <1>11 DEF HsetReply
    <2>2. tpc' \in {"sleep", "unforward", "hget", "hsetReply"}
      BY <1>11 DEF HsetReply
    <2>3. tpc' = "hget" => accChange'
      BY <1>11 DEF HsetReply
    <2>4. tpc' = "hsetReply" => accChange' /\ disk' = snap'
      BY <1>11 DEF HsetReply
    <2>5. UNCHANGED <<loads, loaded, known>>
      BY <1>11 DEF HsetReply
    <2> QED BY <2>1, <2>2, <2>3, <2>4, <2>5
  <1>12. ASSUME NEW ok \in Answers, LoadReply(ok) PROVE SaveInv'
    BY <1>12 DEF LoadReply
  <1>13. CASE UNCHANGED vars
    BY <1>13 DEF vars
  <1> QED
    BY <1>1, <1>2, <1>3, <1>4, <1>5, <1>6, <1>7, <1>8, <1>9, <1>10, <1>11, <1>12, <1>13
    DEF Next, Requests, Timer

LEMMA NextStoreInv == FlagTypes /\ AccountTypes /\ SaveInv /\ StoreInv /\ [Next]_vars => StoreInv'
  <1> SUFFICES ASSUME FlagTypes, AccountTypes, SaveInv, StoreInv, [Next]_vars PROVE StoreInv'
    OBVIOUS
  <1> USE DEF StoreInv, FlagTypes, SaveInv, Saving, AccountOf, manager, account, timer,
              presence, AfterSave, OfflineRound, Exit
  <1>1. CASE Forward
    BY <1>1 DEF Forward
  <1>2. CASE Online
    BY <1>2 DEF Online
  <1>3. CASE Offline
    BY <1>3 DEF Offline
  <1>4. CASE JoinGame \/ LeaveGame
    BY <1>4 DEF JoinGame, LeaveGame
  <1>5. ASSUME NEW d \in Deltas, GoldChange(d) \/ GoldChange(-d) \/ AddGold(d) \/ SubGold(d)
        PROVE  StoreInv'
    BY <1>5 DEF GoldChange, AddGold, SubGold
  <1>6. CASE Tick
    BY <1>6 DEF Tick
  <1>7. CASE HsetApply
    BY <1>7 DEF HsetApply
  <1>8. CASE HsetFail
    BY <1>8 DEF HsetFail
  <1>9. CASE Unforward
    BY <1>9 DEF Unforward
  <1>10. ASSUME NEW ok \in Answers, HgetReply(ok) PROVE StoreInv'
    BY <1>10, DiskAssumption DEF HgetReply, AccountTypes
  <1>11. ASSUME NEW ok \in Answers, HsetReply(ok) PROVE StoreInv'
    BY <1>11 DEF HsetReply
  <1>12. ASSUME NEW ok \in Answers, LoadReply(ok) PROVE StoreInv'
    BY <1>12 DEF LoadReply
  <1>13. CASE UNCHANGED vars
    BY <1>13 DEF vars
  <1> QED
    BY <1>1, <1>2, <1>3, <1>4, <1>5, <1>6, <1>7, <1>8, <1>9, <1>10, <1>11, <1>12, <1>13
    DEF Next, Requests, Timer

LEMMA NextNoDanglingEntry == FlagTypes /\ NoDanglingEntry /\ [Next]_vars => NoDanglingEntry'
  <1> SUFFICES ASSUME FlagTypes, NoDanglingEntry, [Next]_vars PROVE NoDanglingEntry'
    OBVIOUS
  <1> USE DEF NoDanglingEntry, FlagTypes, manager, account, timer, presence,
              AfterSave, OfflineRound, Exit
  <1>1. CASE Forward
    BY <1>1 DEF Forward
  <1>2. CASE Online
    BY <1>2 DEF Online
  <1>3. CASE Offline
    BY <1>3 DEF Offline
  <1>4. CASE JoinGame \/ LeaveGame
    BY <1>4 DEF JoinGame, LeaveGame
  <1>5. ASSUME NEW d \in Deltas, GoldChange(d) \/ GoldChange(-d) \/ AddGold(d) \/ SubGold(d)
        PROVE  NoDanglingEntry'
    BY <1>5 DEF GoldChange, AddGold, SubGold
  <1>6. CASE Tick
    BY <1>6 DEF Tick
  <1>7. CASE HsetApply
    BY <1>7 DEF HsetApply
  <1>8. CASE HsetFail
    BY <1>8 DEF HsetFail
  <1>9. CASE Unforward
    BY <1>9 DEF Unforward
  <1>10. ASSUME NEW ok \in Answers, HgetReply(ok) PROVE NoDanglingEntry'
    BY <1>10 DEF HgetReply
  <1>11. ASSUME NEW ok \in Answers, HsetReply(ok) PROVE NoDanglingEntry'
    BY <1>11 DEF HsetReply
  <1>12. ASSUME NEW ok \in Answers, LoadReply(ok) PROVE NoDanglingEntry'
    BY <1>12 DEF LoadReply
  <1>13. CASE UNCHANGED vars
    BY <1>13 DEF vars
  <1> QED
    BY <1>1, <1>2, <1>3, <1>4, <1>5, <1>6, <1>7, <1>8, <1>9, <1>10, <1>11, <1>12, <1>13
    DEF Next, Requests, Timer

-----------------------------------------------------------------------------

LEMMA NextIInv == IInv /\ [Next]_vars => IInv'
  BY NextFlagTypes, NextCounterTypes, NextAccountTypes, NextSaveInv, NextStoreInv,
     NextNoDanglingEntry
  DEF IInv, TypeOK

(* The invariant of the service, in every reachable state. *)
THEOREM Invariance == Spec => []IInv
  BY InitIInv, NextIInv, PTL DEF Spec

(* Every variable keeps its type: no counter of the timer overruns, and the*)
(* account never holds anything but an account value.                      *)
THEOREM TypeCorrect == Spec => []TypeOK
  <1>1. IInv => TypeOK
    BY DEF IInv
  <1> QED BY Invariance, <1>1, PTL

(* save_userdata clears _account_change only when redis holds what it sent.*)
THEOREM ClearFlagIsWritten == Spec => []ClearFlagMeansWritten
  <1>1. IInv => ClearFlagMeansWritten
    BY DEF IInv, StoreInv, ClearFlagMeansWritten
  <1> QED BY Invariance, <1>1, PTL

(* A service with a clear flag that saw no request since its last save may *)
(* end, or crash, without losing anything of the account.                  *)
THEOREM QuietIsStored == Spec => []QuietMeansStored
  <1>1. IInv => QuietMeansStored
    BY DEF IInv, StoreInv, QuietMeansStored
  <1> QED BY Invariance, <1>1, PTL

(* The manager's entry outlives the service only when no agent ever came   *)
(* online on the service.                                                  *)
THEOREM DanglingEntry == Spec => []NoDanglingEntry
  <1>1. IInv => NoDanglingEntry
    BY DEF IInv
  <1> QED BY Invariance, <1>1, PTL
=============================================================================
